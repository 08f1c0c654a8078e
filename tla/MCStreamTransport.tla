-------------------------- MODULE MCStreamTransport --------------------------
(***************************************************************************)
(* StreamTransport for TLC: what one application may do in one behaviour,  *)
(* so that the calls that can disturb each other meet.                     *)
(***************************************************************************)
EXTENDS StreamTransport

MCPlans ==
  {{"pair", "io", "shutdown"}, {"pair", "lend", "borrow", "move", "second"},
   {"connect", "borrow"}, {"connect", "io"}, {"tcp", "borrow"}, {"device", "borrow", "second"},
   {"unix", "kill"}, {"unix", "move"}}

\* Spans that are written whole, in part and not at all.
MCSpanLists == {<<1>>, <<0, 2>>, <<1, 2>>}

=============================================================================
