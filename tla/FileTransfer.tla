--------------------------- MODULE FileTransfer ---------------------------
(***************************************************************************)
(* The chunked file transfer of src/client/file-transfer.go: SendFile on  *)
(* the server side and the subscription callback of ListenForFile on the  *)
(* device, talking over NATS request/reply on device.<id>.file.           *)
(*                                                                         *)
(* The file is a sequence of blocks (one 50 KiB read each).  SendFile     *)
(* sends chunk seq 0, 1, ...; each chunk is a Request with a one-minute   *)
(* timeout, tried at most MaxTries times until the first reply is "OK".  *)
(* The last chunk is the empty one read at EOF (state DONE), or the one   *)
(* read when the reader fails (state ERROR).                               *)
(*                                                                         *)
(* The network: requests and replies are FIFO channels (NATS keeps the    *)
(* order of one connection's messages); when Lossy, any message may be    *)
(* dropped.  A Request may time out whatever happens to its message, so   *)
(* a request can still be handled after its sender gave up on it.  Each   *)
(* attempt has its own reply inbox: a reply is accepted only by the       *)
(* attempt it answers and only the first reply counts; the others are     *)
(* discarded.                                                              *)
(***************************************************************************)
EXTENDS Naturals, Sequences, SequencesExt

CONSTANTS
  Blocks,        \* the file sent: a sequence of distinct data blocks
  MaxTries,      \* attempts per chunk (3 in the code)
  Lossy,         \* TRUE: NATS may drop any request or reply
  ReadMayFail,   \* TRUE: reader.Read may return an error other than EOF
  WriteMayFail,  \* TRUE: os.WriteFile on the device may fail
  NoFile         \* model value: no file written yet

ASSUME MaxTries \in Nat \ {0}

\* pb.FileChunk states; NONE is the zero value of a chunk that is not last.
ChunkStates == {"NONE", "DONE", "ERROR"}
Replies == {"OK", "seq error", "error writing"}

VARIABLES
  sState,     \* SendFile: "read" next block, "wait" for a reply, "ok", "failed"
  seq,        \* SendFile: seq of the current chunk
  retry,      \* SendFile: attempt index of the current chunk, 0..MaxTries-1
  pos,        \* SendFile: blocks read so far
  chunk,      \* SendFile: the current chunk [seq, data, state]
  req,        \* requests in flight: [att, chunk]
  rep,        \* replies in flight: [att, msg]
  dl,         \* ListenForFile: the download [data, seq]
  written,    \* the device file: NoFile or the data last written
  timeouts    \* SendFile: attempts of the current chunk that timed out

vars == <<sState, seq, retry, pos, chunk, req, rep, dl, written, timeouts>>

MaxSeq == Len(Blocks) + 1
Data == SeqOf(ToSet(Blocks), Len(Blocks) * MaxTries)
Chunk == [seq : 0..MaxSeq, data : SeqOf(ToSet(Blocks), 1), state : ChunkStates]
Att == (0..MaxSeq) \X (0..MaxTries)

TypeOK ==
  /\ sState \in {"read", "wait", "ok", "failed"}
  /\ seq \in 0..MaxSeq
  /\ retry \in 0..(MaxTries - 1)
  /\ pos \in 0..Len(Blocks)
  /\ chunk \in Chunk
  /\ req \in Seq([att : Att, chunk : Chunk])
  /\ rep \in Seq([att : Att, msg : Replies])
  /\ dl \in [data : Data, seq : 0..MaxSeq]
  /\ written \in Data \cup {NoFile}
  /\ timeouts \in 0..MaxTries

Init ==
  /\ sState = "read"
  /\ seq = 0
  /\ retry = 0
  /\ pos = 0
  /\ chunk = [seq |-> 0, data |-> <<>>, state |-> "NONE"]
  /\ req = <<>>
  /\ rep = <<>>
  /\ dl = [data |-> <<>>, seq |-> 0]
  /\ written = NoFile
  /\ timeouts = 0

-----------------------------------------------------------------------------
(* SendFile                                                                *)

\* Publish attempt r of chunk c.
SendAttempt(c, r) == req' = Append(req, [att |-> <<c.seq, r>>, chunk |-> c])

\* The outcomes of one reader.Read: the next block, EOF, or an error.
ReadResults ==
  (IF pos < Len(Blocks)
   THEN {[data |-> <<Blocks[pos + 1]>>, state |-> "NONE", n |-> 1]}
   ELSE {[data |-> <<>>, state |-> "DONE", n |-> 0]})
  \cup (IF ReadMayFail THEN {[data |-> <<>>, state |-> "ERROR", n |-> 0]} ELSE {})

\* Read the next block into a chunk and send its first attempt.  seq never
\* passes Len(Blocks) when the loop ends at the last chunk; MaxSeq bounds
\* it for a loop that does not.
ReadChunk ==
  /\ sState = "read"
  /\ seq < MaxSeq
  /\ \E rd \in ReadResults :
       LET c == [seq |-> seq, data |-> rd.data, state |-> rd.state]
       IN  /\ chunk' = c
           /\ pos' = pos + rd.n
           /\ retry' = 0
           /\ SendAttempt(c, 0)
  /\ sState' = "wait"
  /\ timeouts' = 0
  /\ UNCHANGED <<seq, rep, dl, written>>

\* Variant of NextAttempt used to check TypeOK: the loop bound is off by
\* one (retry <= 3).
NextAttemptPastBound ==
  IF retry + 1 > MaxTries
  THEN /\ sState' = "failed"
       /\ UNCHANGED <<retry, req>>
  ELSE /\ retry' = retry + 1
       /\ SendAttempt(chunk, retry + 1)
       /\ UNCHANGED sState

\* The end of a failed attempt (an error reply or a timeout): try again, or
\* give up after MaxTries attempts.
NextAttempt ==
  IF retry + 1 >= MaxTries
  THEN /\ sState' = "failed"
       /\ UNCHANGED <<retry, req>>
  ELSE /\ retry' = retry + 1
       /\ SendAttempt(chunk, retry + 1)
       /\ UNCHANGED sState

\* The reply that ends the retry loop of a chunk.
Accepted(msg) == msg = "OK"

\* Variant of ForAttempt used to check BlocksInOrder: one reply inbox
\* shared by all attempts, so any reply is taken as the current one's.
ForAnyAttempt(m) == TRUE

\* A reply reaches the inbox of the attempt SendFile is waiting on.
ForAttempt(m) == m.att = <<seq, retry>>

\* Variant of LastChunk used to check SendFileReturns: the "if done
\* { break }" after the retry loop is missing.
LastChunkNever(c) == FALSE

\* done: the chunk read at EOF or at a read error ends the transfer.
LastChunk(c) == c.state \in {"DONE", "ERROR"}

\* The first reply to the current attempt arrives.  "OK" ends the chunk:
\* SendFile returns nil after the last one (DONE or ERROR alike), else
\* moves on to the next seq.  Any other reply is a failed attempt.
RecvReply ==
  /\ sState = "wait"
  /\ rep # <<>>
  /\ ForAttempt(Head(rep))
  /\ rep' = Tail(rep)
  /\ IF Accepted(Head(rep).msg)
     THEN IF LastChunk(chunk)
          THEN /\ sState' = "ok"
               /\ UNCHANGED <<seq, retry, req>>
          ELSE /\ sState' = "read"
               /\ seq' = seq + 1
               /\ UNCHANGED <<retry, req>>
     ELSE NextAttempt /\ UNCHANGED seq
  /\ UNCHANGED <<pos, chunk, dl, written, timeouts>>

\* A reply for an attempt that is over (a later reply to the same request,
\* or one that came after the timeout) reaches a closed inbox.
DropStaleReply ==
  /\ rep # <<>>
  /\ ~(sState = "wait" /\ ForAttempt(Head(rep)))
  /\ rep' = Tail(rep)
  /\ UNCHANGED <<sState, seq, retry, pos, chunk, req, dl, written, timeouts>>

\* nc.Request returns a timeout error, whether or not the request was or
\* will be handled.
Timeout ==
  /\ sState = "wait"
  /\ NextAttempt
  /\ timeouts' = timeouts + 1
  /\ UNCHANGED <<seq, pos, chunk, rep, dl, written>>

-----------------------------------------------------------------------------
(* ListenForFile                                                           *)

\* Variant of SeqError used to check WrittenFileIsSource: the check is
\* dropped.
SeqErrorNever(c, d) == FALSE

\* A chunk other than seq 0 that does not follow the last one handled.
SeqError(c, d) == c.seq # 0 /\ c.seq # d.seq + 1

\* The subscription callback for the chunk at the head of the channel.
\* seq 0 starts a new download; any other seq that does not follow the
\* last one is answered "seq error" but still appended.  An ERROR chunk
\* resets the download; a DONE chunk writes the file (answering "error
\* writing" if that fails; the callback, called either way, is left out).  Every chunk
\* is then answered "OK": the replies go out in that order.
Receive ==
  /\ req # <<>>
  /\ LET m      == Head(req)
         c      == m.chunk
         seqErr == SeqError(c, dl)
         d      == IF c.seq = 0 THEN c.data ELSE dl.data \o c.data
     IN  \E ok \in (IF WriteMayFail THEN BOOLEAN ELSE {TRUE}) :
           LET msgs == (IF seqErr THEN <<"seq error">> ELSE <<>>)
                       \o (IF c.state = "DONE" /\ ~ok THEN <<"error writing">> ELSE <<>>)
                       \o <<"OK">>
           IN  /\ dl' = IF c.state = "ERROR" THEN [data |-> <<>>, seq |-> 0]
                        ELSE [data |-> d, seq |-> c.seq]
               /\ written' = IF c.state = "DONE" /\ ok THEN d ELSE written
               /\ rep' = rep \o [i \in DOMAIN msgs |-> [att |-> m.att, msg |-> msgs[i]]]
  /\ req' = Tail(req)
  /\ UNCHANGED <<sState, seq, retry, pos, chunk, timeouts>>

-----------------------------------------------------------------------------
(* The network                                                             *)

LoseRequest ==
  /\ Lossy
  /\ \E i \in DOMAIN req : req' = RemoveAt(req, i)
  /\ UNCHANGED <<sState, seq, retry, pos, chunk, rep, dl, written, timeouts>>

LoseReply ==
  /\ Lossy
  /\ \E i \in DOMAIN rep : rep' = RemoveAt(rep, i)
  /\ UNCHANGED <<sState, seq, retry, pos, chunk, req, dl, written, timeouts>>

Next ==
  \/ ReadChunk
  \/ RecvReply
  \/ DropStaleReply
  \/ Timeout
  \/ Receive
  \/ LoseRequest
  \/ LoseReply

\* SendFile's own steps, the subscription callback and the NATS client's
\* discarding of replies to closed inboxes keep running; nc.Request always
\* returns within its one-minute timeout.  Losses are not fair.
Fairness ==
  /\ WF_vars(ReadChunk)
  /\ WF_vars(RecvReply)
  /\ WF_vars(Timeout)
  /\ WF_vars(Receive)
  /\ WF_vars(DropStaleReply)

Spec == Init /\ [][Next]_vars /\ Fairness

-----------------------------------------------------------------------------
(* Properties.                                                             *)

\* Every file the device writes holds exactly the blocks of the file sent,
\* in order: no chunk repeated by a retry and none skipped.  About the
\* seq check of the ListenForFile callback, which answers a repeated chunk
\* "seq error" and still appends it.
WrittenFileIsSource == written \in {NoFile, Blocks}

\* The position of a block in the file sent (the blocks are distinct).
BlockPos(b) == CHOOSE i \in DOMAIN Blocks : Blocks[i] = b

\* Even when NATS drops requests and replies, a file the device writes
\* holds every block of the file sent, in order: a retry may repeat a
\* chunk the device already appended, but no chunk is skipped or comes
\* out of order.  About the per-attempt reply inbox of nc.Request, the
\* FIFO order of one connection's requests, and SendFile moving to the
\* next seq only on an "OK" to the current attempt.
BlocksInOrder ==
  written # NoFile =>
    /\ written # <<>>
    /\ BlockPos(written[1]) = 1
    /\ BlockPos(Last(written)) = Len(Blocks)
    /\ \A i \in 1..(Len(written) - 1) :
         BlockPos(written[i + 1]) - BlockPos(written[i]) \in {0, 1}

\* When no message is lost, SendFile gives up on a chunk only if every one
\* of its attempts timed out: a retry after a timeout whose request did
\* reach the device is accepted.  About the retry loop of SendFile and the
\* seq check of the ListenForFile callback.
FailsOnlyIfAllTimedOut == sState = "failed" => timeouts = MaxTries

\* SendFile returns, nil or an error, however NATS loses requests and
\* replies and the device's writes fail.  About the three-attempt retry
\* loop ending on a timeout as on an error reply, and the loop over chunks
\* ending after the EOF or ERROR chunk.
SendFileReturns == <>(sState \in {"ok", "failed"})
=============================================================================
