------------------------------ MODULE MCPipeline -------------------------------
EXTENDS Pipeline

\* A design that comes to its end, in the directory barrier.py reads from.
Designed(H) == [height |-> H, reach |-> 8, ends |-> "returns", home |-> TRUE]

\* One that stops after r writes there.
Stopped(H, r, how) == [height |-> H, reach |-> r, ends |-> how, home |-> TRUE]

\* The same on drive F: of a Windows system.
Elsewhere(design) == [design EXCEPT !.home = FALSE]

\* barrier.sh ends in a DomainError after hole_params.csv (run bolts, property
\* RecordedHoles); both designs of barrier.bat return.
BarrierSh == <<Stopped(5, 4, "raises")>>
BarrierBat == <<Elsewhere(Designed(3)), Elsewhere(Designed(4))>>

ShippedScripts == {BarrierSh, BarrierBat}

\* With other parameters: too slender a plate (run supports), too weak a soil (run
\* weak_soil), retries of the bolts that exhaust the stack (run bolts), and a seal no
\* screw of the table holds (run seal).  The loop of barrier.bat, started at home.
OtherScripts ==
    {<<Stopped(4, 0, "loops")>>, <<Stopped(3, 2, "loops")>>, <<Stopped(5, 3, "raises")>>,
     <<Stopped(3, 4, "raises")>>, <<Designed(5)>>, <<Designed(3), Designed(4)>>}

AllScripts == ShippedScripts \cup OtherScripts

\* simulations/ as the repository holds it.
RecordedFolders == {3, 5}
=============================================================================
