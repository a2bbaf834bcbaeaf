------------------------------- MODULE Demos -------------------------------
(***************************************************************************)
(* The demonstrations kernel_main runs, in its order, except the one of    *)
(* the EIPC channel: axiom::run_demo with the capabilities, vmz::run_demo, *)
(* lattice::run_demo, ztdf::run_demo with three drivers, and               *)
(* net::run_demo, which parses a frame, loads the network driver and       *)
(* transmits whatever became of it.  What is local to one of them is gone  *)
(* when it returns.                                                        *)
(***************************************************************************)
EXTENDS Capability, Lattice, Ztdf, Net, Vmz

VARIABLE next   \* what kernel_main does next

vars == <<capVars, latticeVars, ztdfVars, netVars, vmzVars, next>>

Order == <<"axiom", "vmz", "lattice", "uart", "mal", "esc",
           "parse", "parsed", "nic", "transmit", "done">>

Follows(p) == CHOOSE q \in 2 .. Len(Order) : Order[q - 1] = p

Goto(p) == next' = Order[Follows(p)]

Init == CapInit /\ LatticeInit /\ ZtdfInit /\ NetInit /\ VmzInit /\ next = "axiom"

AxiomDemo ==
    /\ next = "axiom"
    /\ \/ CapNext /\ UNCHANGED next
       \/ CapReturns /\ Goto("axiom")
    /\ UNCHANGED <<latticeVars, ztdfVars, netVars, vmzVars>>

VmzDemo ==
    /\ next = "vmz"
    /\ \/ VmzNext /\ UNCHANGED next
       \/ VmzReturns /\ Goto("vmz")
    /\ UNCHANGED <<capVars, latticeVars, ztdfVars, netVars>>

LatticeDemo ==
    /\ next = "lattice"
    /\ \/ LatticeNext /\ UNCHANGED next
       \/ LatticeReturns /\ Goto("lattice")
    /\ UNCHANGED <<capVars, ztdfVars, netVars, vmzVars>>

\* One driver: load, loop, and on to the next thing with the loop left.
DriverDemo(d) ==
    /\ next = d
    /\ \/ Load(d) /\ UNCHANGED next
       \/ Round /\ UNCHANGED next
       \/ Unload /\ Goto(d)
    /\ UNCHANGED <<capVars, latticeVars, netVars, vmzVars>>

ParseDemo ==
    /\ next = "parse"
    /\ \E f \in Frames : Receive(f)
    /\ Goto("parse")
    /\ UNCHANGED <<capVars, latticeVars, ztdfVars, vmzVars>>

\* What process_frame returned is printed and not used again.
ParsePrinted ==
    /\ next = "parsed"
    /\ frame' = NoFrame /\ result' = ProcessFrame(NoFrame)
    /\ Goto("parsed")
    /\ UNCHANGED <<capVars, latticeVars, ztdfVars, vmzVars, sent>>

TransmitDemo ==
    /\ next = "transmit"
    /\ \E n \in PayloadLens : Transmit(n)
    /\ Goto("transmit")
    /\ UNCHANGED <<capVars, latticeVars, ztdfVars, vmzVars>>

Next == AxiomDemo \/ VmzDemo \/ LatticeDemo \/ (\E d \in Drivers : DriverDemo(d))
          \/ ParseDemo \/ ParsePrinted \/ TransmitDemo

Spec == Init /\ [][Next]_vars
=============================================================================
