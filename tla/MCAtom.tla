------------------------------- MODULE MCAtom --------------------------------
(* Atom on an application of two objects, a procedure in each. *)
EXTENDS Atom

App == << << << <<"load", "jsr">>, <<"condbr">> >> >>,
          << << <<"store", "condbr">>, <<"load", "store">> >> >> >>

\* Bytes by which sbrk moves the break.
Grow == {-3, 2}
=============================================================================
