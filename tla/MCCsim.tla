------------------------------- MODULE MCCsim -------------------------------
(* One set index bit, one block bit, addresses of four bits: two sets,     *)
(* four tags, both offsets of a block.                                     *)
EXTENDS Csim

MCAddrs == 0 .. 15

(* One set and one block bit, four tags, one address of each.              *)
MCOneSet == {0, 2, 4, 6}
============================================================================
