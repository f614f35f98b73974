----------------------------- MODULE MCMailbox ------------------------------
(* Mailbox with every list of up to two tags, a usual list of three, and at  *)
(* most one message left over.                                               *)
EXTENDS Mailbox

Tags == [tag : {"core", "mem", "cmdline", "serial"}, words : {0, 2}, base : {0}]
          \cup {[tag |-> "mem", words |-> 4, base |-> 1]}
Lists == UNION {[1..n -> Tags] : n \in 0..2}
           \cup {<<[tag |-> "core", words |-> 5, base |-> 0], [tag |-> "mem", words |-> 4, base |-> 0],
                   [tag |-> "cmdline", words |-> 9, base |-> 0]>>}
Left == {<<>>, <<[ch |-> 8, buf |-> Other]>>, <<[ch |-> 1, buf |-> Other]>>}
=============================================================================
