----------------------------- MODULE OutputTail -----------------------------
(***************************************************************************)
(* The output of a shell command in internal/runner: outputCapture writes  *)
(* every chunk to the run's file and to a tailBuffer, which keeps the last *)
(* TailMax bytes.  A byte is its position in the output.                   *)
(***************************************************************************)
EXTENDS Integers, Sequences

CONSTANTS
  TailMax,    \* tailBuffer.max (8192)
  MaxChunk,   \* bound on what the command writes at once
  MaxOutput   \* bound on its output

ASSUME TailAssumption == TailMax \in Nat /\ MaxChunk \in Nat /\ MaxOutput \in Nat

VARIABLES
  written,    \* bytes handed to the capture: the file's, while it can be written
  buf,        \* tailBuffer.buf
  closed      \* the capture has been closed

tailVars == <<written, buf, closed>>

\* Variants of definitions below, each with one plausible mistake.
TailedByChunk(b, p) ==
  IF Len(p) >= TailMax THEN SubSeq(p, Len(p) - TailMax + 1, Len(p))
  ELSE IF Len(b) + Len(p) > TailMax THEN p ELSE b \o p

LastMax(s) == SubSeq(s, Len(s) - TailMax + 1, Len(s))

\* tailBuffer.Write
Tailed(b, p) ==
  CASE TailMax <= 0                      -> b
    [] TailMax > 0 /\ Len(p) >= TailMax -> LastMax(p)
    [] OTHER -> IF Len(b) + Len(p) > TailMax THEN LastMax(b \o p) ELSE b \o p

\* truncateTail, which an HTTP run applies to its output at the end.
TruncateTail(text) ==
  CASE TailMax <= 0                         -> <<>>
    [] TailMax > 0 /\ Len(text) <= TailMax -> text
    [] OTHER                                -> LastMax(text)

TailInit == written = <<>> /\ buf = <<>> /\ closed = FALSE

\* outputCapture.Write: the tail comes before the file, so that it does not depend
\* on it.  A file write that fails, after which exec copies no more, is left out.
Write(n) ==
  LET chunk == [i \in 1..n |-> Len(written) + i] IN
  /\ ~closed /\ Len(written) + n <= MaxOutput
  /\ buf' = Tailed(buf, chunk)
  /\ written' = written \o chunk
  /\ UNCHANGED closed

\* CloseAndMaybeKeep: without a failure the file goes, the tail stays.
Close(keep) ==
  /\ ~closed /\ closed' = TRUE
  /\ written' = IF keep THEN written ELSE <<>>
  /\ UNCHANGED buf

Output == (\E n \in 0..MaxChunk : Write(n)) \/ (\E keep \in BOOLEAN : Close(keep))

TailSpec == TailInit /\ [][Output]_tailVars

-----------------------------------------------------------------------------
(* Properties *)

\* However the command cuts its output into chunks, the tail is what
\* truncateTail makes of the whole: both kinds of run store the same tail.
TailOfAll == ~closed \/ written # <<>> => buf = TruncateTail(written)

=============================================================================
