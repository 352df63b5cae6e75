------------------------------ MODULE AsrShim ------------------------------
(***************************************************************************)
(* The transcription sidecar (asr_shim.py): handler threads put audio on a *)
(* bounded queue and wait on a completion slot with a timeout; one worker  *)
(* thread coalesces queued requests into a batch, transcribes it as a      *)
(* whole and completes the slots.  A handler that gave up leaves its       *)
(* request in the queue: the worker still transcribes it.                  *)
(*                                                                         *)
(* An outcome is counted, and audio metered, before the response is        *)
(* written; the write may fail, and the handler thread then ends.          *)
(*                                                                         *)
(* A transcript is the request it was made from.  The checks of the body   *)
(* before the queue (length, multipart, format, canonical WAV) are one     *)
(* choice: each answers once and touches nothing else.                     *)
(***************************************************************************)
EXTENDS Naturals, Sequences, FiniteSets, SequencesExt, Functions

CONSTANTS
  Requests,  \* POST /v1/audio/transcriptions, one handler thread each
  MaxQueue,  \* max_queue
  MaxBatch,  \* min(max_batch, MAX_BATCH_HARD_CAP)
  None

VARIABLES
  ready,    \* BatchWorker.ready
  work,     \* the worker: "loading" | "idle" | "filling" | "dead"
  queue,    \* BatchWorker.queue
  batch,    \* the batch being filled
  slot,     \* each request's _PendingResult: None, "error" or a transcript
  answer,   \* each handler: where it is (st) and what it answers (say)
  counted   \* Metrics: requests per outcome, batched and metered requests

vars == <<ready, work, queue, batch, slot, answer, counted>>

Outcomes == {"rejected", "too_large", "not_ready", "backpressure", "timeout", "error", "ok"}

\* A handler is at "none" up to the queue, "pending" on its slot, "writing" the
\* response, and then "sent" or, ended by an exception, "lost".

Init ==
  /\ ready = FALSE
  /\ work = "loading"
  /\ queue = <<>>
  /\ batch = <<>>
  /\ slot = [r \in Requests |-> None]
  /\ answer = [r \in Requests |-> [st |-> "none", say |-> None]]
  /\ counted = [outcome |-> [o \in Outcomes |-> 0], batched |-> 0, audio |-> 0]

-----------------------------------------------------------------------------
\* run(): the model is loaded and the self-smoke passes, or the process exits
\* before it ever serves.
Load ==
  /\ work = "loading"
  /\ work' = "idle"
  /\ ready' = TRUE
  /\ UNCHANGED <<queue, batch, slot, answer, counted>>

StartupFails ==
  /\ work = "loading"
  /\ work' = "dead"
  /\ UNCHANGED <<ready, queue, batch, slot, answer, counted>>

\* record_outcome, before the response is written.
Reply(r, o) ==
  /\ answer' = [answer EXCEPT ![r] = [st |-> "writing", say |-> o]]
  /\ counted' = [counted EXCEPT !.outcome[o] = @ + 1]

\* do_POST up to the queue, in the order of its early returns: no length, a length
\* above the maximum, a body cut short; not ready; a body that is not what it
\* should be; a full queue.
Reject(r) ==
  /\ work # "dead"
  /\ answer[r].st = "none"
  /\ \/ Reply(r, "rejected")
     \/ Reply(r, "too_large")
     \/ ~ready /\ Reply(r, "not_ready")
     \/ ready /\ Len(queue) = MaxQueue /\ Reply(r, "backpressure")
  /\ UNCHANGED <<ready, work, queue, batch, slot>>

\* rfile.read raises: the thread ends and nothing is counted.
ReadFails(r) ==
  /\ work # "dead"
  /\ answer[r].st = "none"
  /\ answer' = [answer EXCEPT ![r].st = "lost"]
  /\ UNCHANGED <<ready, work, queue, batch, slot, counted>>

\* queue.put_nowait((pcm, pending))
Enqueue(r) ==
  /\ answer[r].st = "none"
  /\ ready
  /\ Len(queue) < MaxQueue
  /\ queue' = Append(queue, r)
  /\ answer' = [answer EXCEPT ![r].st = "pending"]
  /\ UNCHANGED <<ready, work, batch, slot, counted>>

\* The worker blocks for the first request, then adds what arrives in the
\* batch window, up to MaxBatch.
Take ==
  /\ \/ work = "idle"
     \/ work = "filling" /\ Len(batch) < MaxBatch
  /\ queue # <<>>
  /\ work' = "filling"
  /\ batch' = Append(batch, Head(queue))
  /\ queue' = Tail(queue)
  /\ UNCHANGED <<ready, slot, answer, counted>>

\* Mutant: the slots are paired with the results from the other end.
Completed_Reversed(b) == [r \in Range(b) |-> Reverse(b)[CHOOSE i \in DOMAIN b : b[i] = r]]

\* zip(pending, results): the transcriber answers in the order of the batch.
Completed(b) == [r \in Range(b) |-> b[CHOOSE i \in DOMAIN b : b[i] = r]]

\* transcribe_batch returns one result per request.
Transcribe ==
  /\ work = "filling"
  /\ slot' = Completed(batch) @@ slot
  /\ counted' = [counted EXCEPT !.batched = @ + Len(batch)]
  /\ work' = "idle"
  /\ batch' = <<>>
  /\ UNCHANGED <<ready, queue, answer>>

\* Mutant: the exception leaves the slots of the batch waiting.
BatchFails_Silent ==
  /\ work = "filling"
  /\ work' = "dead"
  /\ batch' = <<>>
  /\ UNCHANGED <<ready, queue, slot, answer, counted>>

\* It raises, or returns another number of results: every slot of the batch
\* gets the error and the worker goes on.
BatchFails ==
  /\ work = "filling"
  /\ slot' = [r \in Range(batch) |-> "error"] @@ slot
  /\ work' = "idle"
  /\ batch' = <<>>
  /\ UNCHANGED <<ready, queue, answer, counted>>

\* pending.event.wait returns: the outcome is counted, and the audio with it.
Answer(r) ==
  /\ answer[r].st = "pending"
  /\ slot[r] # None
  /\ IF slot[r] = "error"
     THEN Reply(r, "error")
     ELSE /\ answer' = [answer EXCEPT ![r] = [st |-> "writing", say |-> slot[r]]]
          /\ counted' = [counted EXCEPT !.outcome["ok"] = @ + 1, !.audio = @ + 1]
  /\ UNCHANGED <<ready, work, queue, batch, slot>>

\* pending.event.wait runs into request_timeout_s.
Timeout(r) ==
  /\ answer[r].st = "pending"
  /\ slot[r] = None
  /\ Reply(r, "timeout")
  /\ UNCHANGED <<ready, work, queue, batch, slot>>

\* The response is written, or the client is gone and the write raises.
Written(r) ==
  /\ work # "dead"
  /\ answer[r].st = "writing"
  /\ \E st \in {"sent", "lost"} : answer' = [answer EXCEPT ![r].st = st]
  /\ UNCHANGED <<ready, work, queue, batch, slot, counted>>

Handler(r) ==
  Reject(r) \/ ReadFails(r) \/ Enqueue(r) \/ Answer(r) \/ Timeout(r) \/ Written(r)

Next ==
  \/ Load \/ StartupFails \/ Take \/ Transcribe \/ BatchFails
  \/ \E r \in Requests : Handler(r)

-----------------------------------------------------------------------------
Waiting == {r \in Requests : answer[r].st = "pending"}

\* Whose transcript was made in time: it is being written, was sent, or was lost.
Transcribed == {r \in Requests : answer[r].say \notin Outcomes \cup {None}}

\* A client is served the transcript of its own audio, whatever batch it was
\* coalesced into and whoever gave up meanwhile.  The audio metered is exactly the
\* audio answered with a transcript, whether or not the client was still there to
\* take it, and no more than what was transcribed.  Every request that got past the
\* reading of its body is counted under one outcome, and every one still waited for
\* is in the queue, in the batch or has its slot completed (BatchWorker.run, do_POST).
TranscriptsDelivered ==
  /\ \A r \in Transcribed : answer[r].say = r
  /\ counted.audio = Cardinality(Transcribed) /\ counted.audio <= counted.batched
  /\ counted.outcome["ok"] = counted.audio
  /\ \A o \in Outcomes \ {"ok"} :
       counted.outcome[o] = Cardinality({r \in Requests : answer[r].say = o})
  /\ \A r \in Waiting : slot[r] = None => r \in Range(queue) \cup Range(batch)
=============================================================================
