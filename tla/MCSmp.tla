-------------------------------- MODULE MCSmp --------------------------------
(***************************************************************************)
(* Four processors in a table of three CORE_LOCALS: one id is beyond it,   *)
(* and any of the four may be the BSP.  Or one processor, or no MADT, or a *)
(* processor that is listed twice.                                         *)
(***************************************************************************)
EXTENDS Smp

Cpu(id) == [type |-> 0, len |-> 8, enabled |-> TRUE, apic_id |-> id]
IoApic  == [Cpu(0) EXCEPT !.type = 1]
Disabled(id) == [Cpu(id) EXCEPT !.enabled = FALSE]
Broken  == [Cpu(0) EXCEPT !.len = 0]

MCMadtTables == {<<>>, <<Cpu(1), Broken, Cpu(2)>>, <<Cpu(0), Cpu(1), Cpu(2), Cpu(1)>>,
                 <<Cpu(0), IoApic, Cpu(2), Disabled(4), Cpu(1), Cpu(3)>>}
MCAnyBsp == {0, 1, 2, 3}
MCFirstBsp == {0}
=============================================================================
