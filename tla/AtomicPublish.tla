--------------------------- MODULE AtomicPublish ---------------------------
(***************************************************************************)
(* What run_isolated_asset promises to parse_batch about one asset, with   *)
(* no process, file or pipe in sight: the output path holds the previous   *)
(* document until it holds a complete new one, the call answers exactly    *)
(* once, it says "published" only of a new document, and the document no   *)
(* longer changes once the caller has its answer - unless the call had to  *)
(* abandon a worker it could not stop.                                     *)
(***************************************************************************)
VARIABLES
  document,  \* "old" or "new": what a reader of output_path finds
  answer,    \* "pending" until the call answers "published" or "failed"
  worker     \* "owned", or "abandoned" when it may outlive the call

pvars == <<document, answer, worker>>

PublishInit == document = "old" /\ answer = "pending" /\ worker = "owned"

\* The worker replaces the old document, in one step.
Publish ==
  /\ answer = "pending" \/ worker = "abandoned"
  /\ document = "old" /\ document' = "new"
  /\ UNCHANGED <<answer, worker>>

Abandon ==
  /\ answer = "pending"
  /\ worker = "owned" /\ worker' = "abandoned"
  /\ UNCHANGED <<document, answer>>

AnswerPublished ==
  /\ answer = "pending" /\ document = "new"
  /\ answer' = "published"
  /\ UNCHANGED <<document, worker>>

\* A failure promises nothing about the document: the deadline may pass
\* after the worker has published and before the caller has noticed.
AnswerFailed ==
  /\ answer = "pending"
  /\ answer' = "failed"
  /\ UNCHANGED <<document, worker>>

PublishNext == Publish \/ Abandon \/ AnswerPublished \/ AnswerFailed

PublishSafety == PublishInit /\ [][PublishNext]_pvars
=============================================================================
