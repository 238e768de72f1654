----------------------------- MODULE SocketBuffers -----------------------------
(***************************************************************************)
(* server/common/outbuf.h: the buffer between the ostream of a session and *)
(* its socket; server/coro/outbuf.h is a copy of it.  An outbuf o has      *)
(*   buf     the characters from pbase to pptr                             *)
(*   sent    those given to the socket so far                              *)
(*   alive   whether the socket still takes any: one that has failed a     *)
(*           write fails the next                                          *)
(*   overrun whether a write has read behind the end of buffer_            *)
(*   bad     badbit of the ostream, which is not the buffer's but belongs  *)
(*           to each step here                                             *)
(* A write of async_write or write is all or an error.  overflow is left   *)
(* out: the sessions put strings only, which go through xsputn.            *)
(***************************************************************************)
EXTENDS Naturals, Sequences

bf_size == 16

Stale == "stale"   \* what is in the buffer behind the put pointer

NewOutbuf == [buf |-> <<>>, sent |-> <<>>, alive |-> TRUE, overrun |-> FALSE, bad |-> FALSE]

\* do_write_ (pbase, n), n the length of text; ok is the outcome.
Written(o, text, ok) ==
  [o EXCEPT !.sent = IF ok THEN @ \o text ELSE @, !.alive = ok]

\* buffer_ has one character more than the stream is told of.
FromBuffer(o, ok) == [Written(o, o.buf, ok) EXCEPT !.overrun = @ \/ Len(o.buf) > bf_size + 1]

\* sync: a failed write returns -1, and pbump (-out) moves pptr forward.
Sync(o, ok) ==
  IF o.buf = <<>> THEN o
  ELSE [FromBuffer(o, ok) EXCEPT !.buf = IF ok THEN <<>> ELSE Append(@, Stale),
                                 !.bad = @ \/ ~ok]

Fits(o, text) == Len(o.buf) + Len(text) <= bf_size

Copied(o, text) == [o EXCEPT !.buf = @ \o text]

FaultyXsputn(o, text, ok1, ok2) ==   \* what is in the buffer is not sent first
  IF Fits(o, text) THEN Copied(o, text)
  ELSE [Written(o, text, ok1) EXCEPT !.bad = ~ok1]

\* xsputn: into the buffer; or what is there goes first; or past the buffer.
Xsputn(o, text, ok1, ok2) ==
  LET p == Sync(o, ok1)
  IN  CASE Fits(o, text)           -> Copied(o, text)
        [] ~Fits(o, text) /\ p.bad -> p
        [] OTHER -> IF Fits(p, text) THEN Copied(p, text)
                    ELSE [Written(p, text, ok2) EXCEPT !.bad = ~ok2]
=============================================================================
