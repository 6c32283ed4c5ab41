--------------------------- MODULE MC_Registration ---------------------------
(* Two registrations that ask for the same e-mail, and activation requests. *)
EXTENDS Registration

CONSTANTS r1, r2, a1, a2, e1, n1, n2

MC_Regs == {r1, r2}
MC_OneReg == {r1}
MC_Acts == {a1, a2}
MC_EmailOf == [r \in MC_Regs |-> e1]
MC_NameOf == [r \in MC_Regs |-> IF r = r1 THEN n1 ELSE n2]
=============================================================================
