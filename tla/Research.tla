------------------------------- MODULE Research -------------------------------
(***************************************************************************)
(* A field-based research run: the EXTRACT and DONE steps of the loop, the *)
(* evidence it holds in memory and the copy in runs.metadata, the pages it *)
(* reads in chunks, and the answers it finishes with.                      *)
(*                                                                         *)
(* A step of the loop is cut at its awaits: each read of the page, each    *)
(* control gate, the model call and the commit.  The page may change, and  *)
(* an operator may take over, release or cancel, between any two of them.  *)
(*                                                                         *)
(* The other kinds of step are Elsewhere, pause and approval are left to   *)
(* RunControl, and the check of the hold in the takeover guard is one step *)
(* with the read it guards: the page may change at any time anyway.        *)
(***************************************************************************)
EXTENDS Naturals, Sequences, FiniteSets

CONSTANTS
  Urls, Contents,
  StartUrl,      \* what the tab shows when the run begins
  ChunksOf,      \* 10,000-character chunks of a page with this content
  Fields,        \* output_fields
  Values, Norm,  \* values as worded by the model, and what they casefold to
  MaxFindings,   \* findings of one extraction
  MaxCited,      \* evidence_ids of one answer
  MaxSteps,      \* max_steps of the loop
  NoPage, NoResult,
  MaxMoves, MaxRetries, MaxFaults   \* bounds on page changes, retries, faults

ASSUME ResearchAssumption ==
  /\ StartUrl \in Urls /\ Contents # {} /\ Fields # {}
  /\ ChunksOf \in [Contents -> Nat \ {0}]
  /\ Norm \in [Values -> Values]
  /\ {MaxFindings, MaxCited, MaxSteps, MaxMoves, MaxRetries, MaxFaults} \subseteq Nat

VARIABLES
  status,    \* runs.status
  at,        \* where the loop is
  kind,      \* "extract" or "done"
  outcome,   \* the LoopOutcome handed to the worker
  steps,
  page,      \* the chunk this step works on
  found,     \* findings of the extraction call
  final,     \* what the synthesis call gave
  waited,    \* the gate has seen the human in control
  evidence, pages,    \* self.evidence, self.research_pages
  saved,     \* metadata: evidence, research_pages, result
  here, site,         \* the tab's url, and what each url serves
  quiet,     \* history: the page has read the same since the step began
  moves, retries, faults

world  == <<here, site, moves>>
memory == <<evidence, pages>>
step   == <<kind, page, found, final, waited, quiet>>
vars   == <<status, at, outcome, steps, step, memory, saved, world, retries, faults>>

-----------------------------------------------------------------------------
Finding  == [field : Fields, value : Values]
Chunk    == [url : Urls, content : Contents, chunk : Nat]
Evidence == [field : Fields, value : Values, url : Urls, content : Contents, chunk : Nat]
FieldAnswer == [status : {"found", "missing", "conflicting"}, told : BOOLEAN,
                cites : SUBSET Evidence]

ASSUME NoResultAssumption == NoResult \notin [Fields -> FieldAnswer]

Alive == {"running", "awaiting_human"}

\* What is saved has its provenance attached by the application.
Sourced(findings, p) ==
  {[field |-> f.field, value |-> f.value,
    url |-> p.url, content |-> p.content, chunk |-> p.chunk] : f \in findings}

Read(records) == {records[i] : i \in DOMAIN records}

Last(c) == ChunksOf[c] - 1

NextChunk_Same(url, content) ==
  LET read == {p \in Read(pages) : p.url = url /\ p.content = content}
  IN  IF read = {} THEN 0 ELSE CHOOSE n \in {p.chunk : p \in read} : \A p \in read : p.chunk <= n

\* max((offset + 10_000 for items with text remaining), default=0)
NextChunk(url, content) ==
  LET more == {p \in Read(pages) : p.url = url /\ p.content = content
                                   /\ p.chunk < Last(content)}
  IN  IF more = {} THEN 0
      ELSE 1 + (CHOOSE n \in {p.chunk : p \in more} : \A p \in more : p.chunk <= n)

cached == page \in Read(pages)

\* The distinct values saved for a field, as parse_synthesis compares them.
Distinct(items, f) == {Norm[e.value] : e \in {x \in items : x.field = f}}

Acceptable_CitesAll(f, a, items) ==
  LET own == {e \in items : e.field = f}
  IN  /\ a.cites \subseteq own /\ Cardinality(a.cites) <= MaxCited
      /\ a.status = "missing" => own = {} /\ ~a.told /\ a.cites = {}
      /\ a.status # "missing" => a.cites # {}
      /\ a.status = "found" => a.told /\ Cardinality(Distinct(items, f)) = 1
      /\ a.status = "conflicting" => Cardinality(Distinct(items, f)) >= 2 /\ a.cites = own

\* The rules of parse_synthesis for the answer to one field.
Acceptable(f, a, items) ==
  LET own == {e \in items : e.field = f}
  IN  /\ a.cites \subseteq own /\ Cardinality(a.cites) <= MaxCited
      /\ a.status = "missing" => own = {} /\ ~a.told /\ a.cites = {}
      /\ a.status # "missing" => a.cites # {}
      /\ a.status = "found" => a.told /\ Cardinality(Distinct(items, f)) = 1
      /\ a.status = "conflicting" =>
           /\ Cardinality(Distinct(items, f)) >= 2
           /\ Distinct(a.cites, f) = Distinct(items, f)

Answers(f, items) ==
  {a \in [status : {"found", "missing", "conflicting"}, told : BOOLEAN, cites : SUBSET items] :
     Acceptable(f, a, items)}

Syntheses(items) ==
  {r \in [Fields -> UNION {Answers(f, items) : f \in Fields}] :
     \A f \in Fields : r[f] \in Answers(f, items)}

-----------------------------------------------------------------------------
Nothing == [evidence |-> {}, pages |-> <<>>, result |-> NoResult]

Init ==
  /\ status = "queued" /\ at = "out" /\ outcome = "none" /\ steps = 0
  /\ kind = "none" /\ page = NoPage /\ found = {} /\ final = NoResult /\ waited = FALSE
  /\ evidence = {} /\ pages = <<>> /\ saved = Nothing
  /\ here = StartUrl /\ site \in [Urls -> Contents] /\ moves = 0
  /\ quiet = TRUE /\ retries = 0 /\ faults = 0

\* The locals of a step that is over.
StepOver == /\ kind' = "none" /\ page' = NoPage /\ found' = {} /\ final' = NoResult
            /\ waited' = FALSE /\ quiet' = TRUE

Ends(result) ==
  /\ at' = "ending" /\ outcome' = result
  /\ StepOver
  /\ UNCHANGED <<status, steps, memory, saved, world, retries, faults>>

\* The task is over and its loop object with it.
TaskGone == /\ at' = "out" /\ outcome' = "none" /\ steps' = 0
            /\ evidence' = {} /\ pages' = <<>>
            /\ StepOver

\* return None from _research_step
NextStep ==
  /\ at' = "between"
  /\ StepOver
  /\ UNCHANGED <<status, outcome, steps, memory, saved, world, retries, faults>>

\* start_run, and the loop built from the metadata it loads.
StartRun ==
  /\ status = "queued" /\ at = "out"
  /\ status' = "running" /\ at' = "between" /\ outcome' = "none" /\ steps' = 0
  /\ evidence' = saved.evidence /\ pages' = saved.pages
  /\ UNCHANGED <<step, saved, world, retries, faults>>

Decide_PastBudget(k) ==
  /\ at = "between" /\ status = "running"
  /\ steps' = steps + 1 /\ kind' = k
  /\ at' = (IF k = "extract" THEN "read" ELSE IF evidence = {} THEN "fails" ELSE "before")
  /\ UNCHANGED <<status, outcome, page, found, final, waited, quiet, memory, saved, world,
                 retries, faults>>

Decide_Uncounted(k) ==
  /\ at = "between" /\ status = "running" /\ steps < MaxSteps
  /\ kind' = k
  /\ at' = (IF k = "extract" THEN "read" ELSE IF evidence = {} THEN "fails" ELSE "before")
  /\ UNCHANGED <<status, outcome, steps, page, found, final, waited, quiet, memory, saved,
                 world, retries, faults>>

\* The gates that lead to the execute phase, and Jev's decision to research.
Decide(k) ==
  /\ at = "between" /\ status = "running" /\ steps < MaxSteps
  /\ steps' = steps + 1 /\ kind' = k
  /\ at' = (IF k = "extract" THEN "read" ELSE IF evidence = {} THEN "fails" ELSE "before")
  /\ UNCHANGED <<status, outcome, page, found, final, waited, quiet, memory, saved, world,
                 retries, faults>>

\* A step of another kind: navigation, clicks, typing.
Elsewhere ==
  /\ at = "between" /\ status = "running" /\ steps < MaxSteps
  /\ steps' = steps + 1
  /\ UNCHANGED <<status, at, outcome, step, memory, saved, world, retries, faults>>

StepsExceeded == /\ at = "between" /\ steps = MaxSteps
                 /\ Ends("failed")

\* AgentLoopError, TextLLMError: the loop records run_failed and returns.
StepFails == /\ at = "fails"
             /\ Ends("failed")

\* TakeoverActiveError from a read while the human owns the browser.
ReadRefused == /\ at \in {"read", "chunk", "reread"} /\ status = "awaiting_human"
               /\ NextStep

Reads(p, then) ==
  /\ page' = p /\ at' = then
  /\ UNCHANGED <<status, outcome, steps, kind, found, final, waited, memory, saved, world,
                 quiet, retries, faults>>

Front == [url |-> here, content |-> site[here], chunk |-> 0]

ReadFront ==
  /\ at = "read" /\ status # "awaiting_human"
  /\ Reads(Front, IF NextChunk(here, site[here]) = 0 THEN "before" ELSE "chunk")

ReadChunk_Unchecked ==
  /\ at = "chunk" /\ status # "awaiting_human"
  /\ Reads([Front EXCEPT !.chunk = NextChunk(page.url, page.content)], "before")

\* Only the hash of the second read is compared with the first, not its url.
ReadChunk ==
  /\ at = "chunk" /\ status # "awaiting_human"
  /\ IF site[here] = page.content
     THEN Reads([Front EXCEPT !.chunk = NextChunk(page.url, page.content)], "before")
     ELSE Reads(page, "reread")

ReadAgain == /\ at = "reread" /\ status # "awaiting_human"
             /\ Reads(Front, "before")

\* The reader gave no text: an empty page has another hash, and no chunks.
ReadsNothing ==
  /\ at \in {"read", "chunk", "reread"} /\ status # "awaiting_human"
  /\ faults < MaxFaults
  /\ at' = (IF at = "chunk" THEN "reread" ELSE "fails")
  /\ faults' = faults + 1 /\ quiet' = FALSE
  /\ UNCHANGED <<status, outcome, steps, kind, page, found, final, waited, memory, saved,
                 world, retries>>

\* _control_gate: cancel first, then wait for the human and start afresh.
GateCancels ==
  /\ at \in {"between", "before", "after"} /\ status = "cancelled"
  /\ at = "between" => steps < MaxSteps
  /\ Ends("cancelled")

GateParks ==
  /\ at \in {"before", "after"} /\ status = "awaiting_human" /\ ~waited
  /\ waited' = TRUE
  /\ UNCHANGED <<status, at, outcome, steps, kind, page, found, final, memory, saved, world,
                 quiet, retries, faults>>

GateFresh == /\ at \in {"before", "after"} /\ status \notin {"cancelled", "awaiting_human"}
             /\ waited
             /\ NextStep

GatePasses ==
  /\ at \in {"before", "after"} /\ status \notin {"cancelled", "awaiting_human"} /\ ~waited
  /\ at' = (IF at = "after" THEN "apply"
            ELSE IF kind = "extract" /\ cached THEN "after" ELSE "asking")
  /\ UNCHANGED <<status, outcome, steps, step, memory, saved, world, retries, faults>>

\* parse_extraction accepted the answer: fields asked for, excerpts of this text.
Extracted ==
  /\ at = "asking" /\ kind = "extract"
  /\ \E findings \in SUBSET Finding :
       /\ IsFiniteSet(findings) /\ Cardinality(findings) <= MaxFindings
       /\ found' = findings
  /\ at' = "after"
  /\ UNCHANGED <<status, outcome, steps, kind, page, final, waited, memory, saved, world,
                 quiet, retries, faults>>

Synthesized ==
  /\ at = "asking" /\ kind = "done"
  /\ \E answers \in Syntheses(evidence) : final' = answers
  /\ at' = "after"
  /\ UNCHANGED <<status, outcome, steps, kind, page, found, waited, memory, saved, world,
                 quiet, retries, faults>>

\* The call failed, or what came back does not validate.
AnswerRejected ==
  /\ at = "asking"
  /\ at' = "fails"
  /\ UNCHANGED <<status, outcome, steps, step, memory, saved, world, retries, faults>>

ApplyExtract_Again ==
  /\ at = "apply" /\ kind = "extract"
  /\ evidence' = evidence \cup Sourced(found, page)
  /\ pages' = Append(pages, page)
  /\ saved' = [evidence |-> evidence', pages |-> pages', result |-> NoResult]
  /\ at' = "between"
  /\ StepOver
  /\ UNCHANGED <<status, outcome, steps, world, retries, faults>>

\* persist_research, research_evidence and their commit.
ApplyExtract ==
  /\ at = "apply" /\ kind = "extract"
  /\ evidence' = (IF cached THEN evidence ELSE evidence \cup Sourced(found, page))
  /\ pages' = (IF cached THEN pages ELSE Append(pages, page))
  /\ saved' = [evidence |-> evidence', pages |-> pages', result |-> NoResult]
  /\ at' = "between"
  /\ StepOver
  /\ UNCHANGED <<status, outcome, steps, world, retries, faults>>

\* persist_research, research_result, run_succeeded and their commit.
ApplyDone ==
  /\ at = "apply" /\ kind = "done"
  /\ saved' = [evidence |-> evidence, pages |-> pages, result |-> final]
  /\ at' = "ending" /\ outcome' = "succeeded"
  /\ StepOver
  /\ UNCHANGED <<status, steps, memory, world, retries, faults>>

\* The database fails under the step: it is rolled back, and so is the abort,
\* which leaves the row as it is with no task.
ApplyFails ==
  /\ at = "apply" /\ faults < MaxFaults
  /\ TaskGone /\ faults' = faults + 1
  /\ UNCHANGED <<status, saved, world, retries>>

\* _persist_async_outcome: a cancel that came first stands.
PersistOutcome ==
  /\ at = "ending"
  /\ status' = (IF status = "cancelled" THEN status ELSE outcome)
  /\ TaskGone
  /\ UNCHANGED <<saved, world, retries, faults>>

\* The process dies; recover_runs fails the runs whose worker was lost.
Restart ==
  /\ faults < MaxFaults /\ status \in Alive \cup {"cancelled"}
  /\ status' = (IF status \in Alive THEN "failed" ELSE status)
  /\ TaskGone /\ faults' = faults + 1
  /\ UNCHANGED <<saved, world, retries>>

Retry_KeepsResult ==
  /\ status = "failed" /\ retries < MaxRetries
  /\ status' = "queued" /\ retries' = retries + 1
  /\ saved' = [Nothing EXCEPT !.result = saved.result]
  /\ UNCHANGED <<at, outcome, steps, step, memory, world, faults>>

\* retry_run of a failed run clears what was collected.
Retry ==
  /\ status = "failed" /\ retries < MaxRetries
  /\ status' = "queued" /\ retries' = retries + 1
  /\ saved' = Nothing
  /\ UNCHANGED <<at, outcome, steps, step, memory, world, faults>>

Operator(from, to) ==
  /\ status \in from
  /\ status' = to
  /\ UNCHANGED <<at, outcome, steps, step, memory, saved, world, retries, faults>>

Cancel  == Operator({"queued"} \cup Alive, "cancelled")
Take    == Operator({"running"}, "awaiting_human")
Release == Operator({"awaiting_human"}, "running")

\* A redirect, a script, the human, or another kind of step.
PageChanges ==
  /\ moves < MaxMoves
  /\ \/ here' \in Urls \ {here} /\ UNCHANGED site
     \/ \E c \in Contents \ {site[here]} : site' = [site EXCEPT ![here] = c] /\ UNCHANGED here
  /\ moves' = moves + 1 /\ quiet' = (at \in {"out", "between"})
  /\ UNCHANGED <<status, at, outcome, steps, kind, page, found, final, waited, memory,
                 saved, retries, faults>>

Reading == ReadRefused \/ ReadFront \/ ReadChunk \/ ReadAgain
Gate    == GateCancels \/ GateParks \/ GateFresh \/ GatePasses
Asking  == Extracted \/ Synthesized \/ AnswerRejected
Loop    == \/ StepsExceeded \/ StepFails
           \/ Reading \/ Gate \/ Asking
           \/ ApplyExtract \/ ApplyDone \/ PersistOutcome
           \/ Elsewhere \/ \E k \in {"extract", "done"} : Decide(k)

Next == \/ Loop \/ StartRun \/ ReadsNothing \/ ApplyFails
        \/ Restart \/ Retry \/ Cancel \/ Take \/ Release \/ PageChanges

ResearchSpec == Init /\ [][Next]_vars /\ WF_vars(Loop)

-----------------------------------------------------------------------------
(* Properties                                                              *)

\* Types of the run, its step and what it has saved.
TypeOK ==
  /\ status \in Alive \cup {"queued", "succeeded", "failed", "cancelled"}
  /\ at \in {"out", "between", "read", "chunk", "reread", "before", "asking", "after",
             "apply", "fails", "ending"}
  /\ kind \in {"none", "extract", "done"} /\ waited \in BOOLEAN /\ quiet \in BOOLEAN
  /\ outcome \in {"none", "succeeded", "failed", "cancelled"}
  /\ steps \in 0..MaxSteps
  /\ page \in Chunk \cup {NoPage} /\ found \subseteq Finding
  /\ \A r \in {final, saved.result} : r # NoResult => r \in [Fields -> FieldAnswer]
  /\ evidence \subseteq Evidence /\ saved.evidence \subseteq Evidence
  /\ pages \in Seq(Chunk) /\ saved.pages \in Seq(Chunk)
  /\ here \in Urls /\ site \in [Urls -> Contents]

\* Evidence and the list of read chunks are saved together (loop.py _research_step,
\* worker.py persist_research): no evidence without its chunk, no chunk recorded
\* twice, and between two steps a crash would lose nothing of what the loop knows.
\* (A takeover during the model's call drops its answer: that chunk is sent again.)
CollectedOnce ==
  /\ \A e \in saved.evidence :
       [url |-> e.url, content |-> e.content, chunk |-> e.chunk] \in Read(saved.pages)
  /\ \A i, j \in DOMAIN saved.pages : saved.pages[i] = saved.pages[j] => i = j
  /\ at # "out" => evidence = saved.evidence /\ pages = saved.pages

\* However pages move under the reads, no chunk of a content is read before the
\* chunks in front of it have been (at this url or at another that served the same).
ReadInOrder ==
  \A p \in Read(saved.pages) : \A n \in 0..p.chunk :
    \E q \in Read(saved.pages) : q.content = p.content /\ q.chunk = n

\* A result that is stored answers every field out of the stored evidence: it hides
\* no disagreement, and leaves nothing collected for a field unused.  A run that
\* succeeded has one.  (parse_synthesis, persist_research, retry_run.)
AnswersStand ==
  /\ saved.result # NoResult =>
       \A f \in Fields :
         LET a == saved.result[f] IN
         /\ a.cites \subseteq saved.evidence
         /\ a.status = "missing" <=> Distinct(saved.evidence, f) = {}
         /\ a.status = "found" => Cardinality(Distinct(saved.evidence, f)) = 1
         /\ a.status = "conflicting" =>
              Distinct(a.cites, f) = Distinct(saved.evidence, f)
  /\ status = "succeeded" => saved.result # NoResult

\* The rules of parse_synthesis leave some answer for a field exactly when its
\* different values may all be cited in one: whatever wordings, repeats and fields
\* were collected is no obstacle, and one value more is a dead end, in which every
\* DONE is rejected (the limit is that of FieldAnswer.evidence_ids).
AnswerableWithinLimit ==
  \A f \in Fields :
    Answers(f, saved.evidence) # {} <=> Cardinality(Distinct(saved.evidence, f)) <= MaxCited

\* An EXTRACT on a page that stays as it is reads a chunk that was not read before,
\* until the page has been read to its end ("another EXTRACT reads the next unread
\* 10000-character chunk", loop.py decide).
ExtractAdvances ==
  [][ApplyExtract /\ quiet =>
       \/ Len(pages') > Len(pages)
       \/ \E q \in Read(pages) : q.content = page.content /\ q.chunk = Last(page.content)]_vars

\* Whatever the pages and the model do, a research run comes to its end, unless a
\* human holds it: the step budget cannot be dodged by refused or repeated reads.
ResearchEnds == []<>(at = "out" \/ status = "awaiting_human")
=============================================================================
