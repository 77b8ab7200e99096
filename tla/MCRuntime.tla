----------------------------- MODULE MCRuntime -----------------------------
(* The values of Runtime's constants that a configuration cannot write. *)
EXTENDS Runtime

MCDelta == {-2, 1, 3}

(* Flag bytes of a sample: 1 ends, 2 repeats, 4 marks the start of the loop, 7 is a
   terminator. *)
MCSamples == {<<4, 0, 3>>, <<0, 1, 7>>, <<3>>}

MCVTypes == {[tex |-> 0, color |-> 0, normal |-> 0, pos |-> 0, weight |-> 0, index |-> 0],
             [tex |-> 1, color |-> 7, normal |-> 1, pos |-> 2, weight |-> 0, index |-> 1],
             [tex |-> 2, color |-> 4, normal |-> 3, pos |-> 1, weight |-> 0, index |-> 0],
             [tex |-> 3, color |-> 5, normal |-> 1, pos |-> 3, weight |-> 0, index |-> 2],
             [tex |-> 1, color |-> 0, normal |-> 2, pos |-> 1, weight |-> 0, index |-> 0],
             [tex |-> 0, color |-> 7, normal |-> 1, pos |-> 1, weight |-> 1, index |-> 0]}

-----------------------------------------------------------------------------
(* Operands of the vector unit: a single, a column, a row, a matrix, its transpose. *)
Sg(m, c, r) == [dir |-> "S", m |-> m, c |-> c, r |-> r]
Cl(m, c, r) == [dir |-> "C", m |-> m, c |-> c, r |-> r]
Rw(m, c, r) == [dir |-> "R", m |-> m, c |-> c, r |-> r]
Mx(m) == [dir |-> "M", m |-> m, c |-> 0, r |-> 0]
Ex(m) == [dir |-> "E", m |-> m, c |-> 0, r |-> 0]

V(op, d, s, t, n) == [op |-> op, vd |-> d, vs |-> s, vt |-> t, size |-> n, imm |-> 0]
Imm(in, k) == [in EXCEPT !.imm = k]

MCProgram ==
    {[op |-> "vpfx", which |-> 0, p |-> [sw |-> <<2, 0, 1, 1>>, abs |-> {1}, const |-> {3}, neg |-> {0}]],
     [op |-> "vpfx", which |-> 1, p |-> [sw |-> <<3, 1, 2, 0>>, abs |-> {0}, const |-> {0, 1}, neg |-> {2}]],
     [op |-> "vpfx", which |-> 2, p |-> [sat |-> <<1, 3, 0, 1>>, mask |-> {2}]],
     V("vadd", Cl(0, 1, 0), Cl(0, 1, 0), Rw(0, 0, 1), 4),
     V("vmax", Rw(0, 1, 2), Rw(0, 0, 1), Cl(0, 2, 1), 3),
     V("vdot", Sg(0, 2, 1), Cl(0, 0, 2), Rw(0, 2, 3), 2),
     V("vcrsp", Cl(0, 2, 0), Cl(0, 1, 1), Rw(0, 0, 2), 3),
     V("vscl", Rw(0, 0, 0), Rw(0, 0, 3), Sg(0, 3, 3), 4),
     V("vidt", Rw(0, 0, 1), Rw(0, 0, 1), Rw(0, 0, 1), 4),
     Imm(V("vrot", Cl(0, 3, 0), Sg(0, 1, 2), Sg(0, 1, 2), 3), 22),
     Imm(V("vcmp", Cl(0, 0, 0), Cl(0, 1, 0), Rw(0, 0, 2), 3), 3),
     V("vmmul", Mx(0), Ex(0), Mx(0), 2),
     V("vtfm", Cl(0, 2, 0), Ex(0), Cl(0, 1, 0), 3),
     V("vmscl", Ex(0), Mx(0), Sg(0, 0, 1), 3),
     V("lvq", Rw(0, 0, 1), Rw(0, 0, 1), Rw(0, 0, 1), 4),
     V("svq", Cl(0, 1, 0), Cl(0, 1, 0), Cl(0, 1, 0), 4),
     Imm(V("mtv", Sg(0, 2, 1), Sg(0, 2, 1), Sg(0, 2, 1), 1), 30)}
=============================================================================
