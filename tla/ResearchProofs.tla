---------------------------- MODULE ResearchProofs ----------------------------
(****************************************************************************)
(* What a research run collects and answers, for any pages, fields, values  *)
(* and any number of steps, page changes, retries and faults.               *)
(****************************************************************************)
EXTENDS Research, SequenceTheorems, FiniteSetTheorems, WellFoundedInduction, TLAPS

Middle == {"before", "asking", "after", "apply"}

(* The chunks in front of p have been read.                                 *)
Preceded(p, read) ==
  \A n \in Nat : n < p.chunk => \E q \in read : q.content = p.content /\ q.chunk = n

InOrder(read) == \A p \in read : Preceded(p, read)

(* A result answers every field out of items.                               *)
Stands(result, items) ==
  \A f \in Fields :
    LET a == result[f] IN
    /\ a.cites \subseteq items
    /\ a.status = "missing" <=> Distinct(items, f) = {}
    /\ a.status = "found" => Cardinality(Distinct(items, f)) = 1
    /\ a.status = "conflicting" => Distinct(a.cites, f) = Distinct(items, f)

ControlOK ==
  /\ status \in {"queued", "failed", "succeeded"} => at = "out"
  /\ at \in {"read", "chunk", "reread"} => kind = "extract"
  /\ at \in Middle => kind \in {"extract", "done"}
  /\ at = "ending" => outcome # "none"

(* The chunk at hand is the next one, and follows on what was read.         *)
PageOK ==
  /\ at \in {"chunk", "reread"} => page \in Chunk
  /\ at = "chunk" /\ quiet => page = Front
  /\ at = "reread" => ~quiet
  /\ at \in Middle /\ kind = "extract" =>
       /\ page \in Chunk /\ Preceded(page, Read(pages))
       /\ quiet => page.chunk = NextChunk(page.url, page.content)

SavedOK == CollectedOnce /\ InOrder(Read(saved.pages))

AnswerOK ==
  /\ kind = "done" /\ at \in {"after", "apply"} => final \in Syntheses(evidence)
  /\ at = "ending" /\ outcome = "succeeded" => saved.result # NoResult
  /\ saved.result # NoResult => Stands(saved.result, saved.evidence)
  /\ status = "succeeded" => saved.result # NoResult

ResearchInv == TypeOK /\ ControlOK /\ PageOK /\ SavedOK /\ AnswerOK

-----------------------------------------------------------------------------
(* Operators                                                                *)

(* A bounded set of numbers that is not empty has a greatest one.          *)
LEMMA GreatestNumber ==
  ASSUME NEW S, S \subseteq Nat, S # {}, NEW bound \in Nat, \A k \in S : k <= bound
  PROVE  \E m \in S : \A k \in S : k <= m
<1> DEFINE D == {bound - k : k \in S}
<1>1. D \subseteq Nat /\ D # {}
  <2>1. \A k \in S : bound - k \in Nat
    OBVIOUS
  <2> QED
    BY <2>1
<1>2. PICK d \in D : \A e \in D : ~ (<<e, d>> \in OpToRel(<, Nat))
  BY <1>1, NatLessThanWellFounded, WFMin
<1>3. PICK m \in S : d = bound - m
  BY <1>2
<1>4. ASSUME NEW k \in S PROVE k <= m
  <2>1. bound - k \in D /\ bound - k \in Nat /\ d \in Nat
    BY <1>1, <1>2
  <2>2. ~ (bound - k < d)
    BY <1>2, <2>1 DEF OpToRel
  <2> QED
    BY <2>2, <1>3
<1> QED
  BY <1>4

(* The last chunk of a content has a number.                               *)
LEMMA LastNumber == ASSUME NEW c \in Contents PROVE Last(c) \in Nat
  BY ResearchAssumption DEF Last

(* What was read are chunks.                                               *)
LEMMA ReadTyped == ASSUME NEW s \in Seq(Chunk) PROVE Read(s) \subseteq Chunk
<1>1. \A i \in DOMAIN s : s[i] \in Chunk
  OBVIOUS
<1> QED
  BY <1>1 DEF Read

(* What NextChunk gives: the chunk after one that was read, or the first.   *)
LEMMA NextChunkFacts ==
  ASSUME pages \in Seq(Chunk), NEW url \in Urls, NEW content \in Contents
  PROVE  LET next == NextChunk(url, content)
             more == {p \in Read(pages) : p.url = url /\ p.content = content
                                            /\ p.chunk < Last(content)}
         IN  /\ next \in Nat
             /\ next = 0 \/ \E p \in more : next = p.chunk + 1
             /\ \A p \in more : p.chunk < next
<1> DEFINE next == NextChunk(url, content)
           more == {p \in Read(pages) : p.url = url /\ p.content = content
                                          /\ p.chunk < Last(content)}
           chunks == {p.chunk : p \in more}
<1>1. more \subseteq Chunk /\ chunks \subseteq Nat
  <2>1. Read(pages) \subseteq Chunk
    BY ReadTyped
  <2>2. \A p \in more : p \in Chunk /\ p.chunk \in Nat
    BY <2>1 DEF Chunk
  <2> QED
    BY <2>2
<1>2. CASE more = {}
  <2>1. next = 0
    BY <1>2 DEF NextChunk
  <2> QED
    BY <1>2, <2>1
<1>3. CASE more # {}
  <2>1. \A k \in chunks : k <= Last(content)
    BY <1>1, LastNumber DEF Chunk
  <2>2. \E m \in chunks : \A k \in chunks : k <= m
    BY <1>1, <1>3, <2>1, LastNumber, GreatestNumber
  <2>3. \E n \in chunks : \A p \in more : p.chunk <= n
    BY <2>2
  <2> DEFINE top == CHOOSE n \in chunks : \A p \in more : p.chunk <= n
  <2>4. top \in chunks /\ \A p \in more : p.chunk <= top
    BY <2>3
  <2>5. next = 1 + top
    BY <1>3 DEF NextChunk
  <2> HIDE DEF top, next
  <2>6. top \in Nat
    BY <1>1, <2>4
  <2>7. \A p \in more : p.chunk \in Nat
    BY <1>1
  <2>8. next \in Nat /\ next = top + 1 /\ \A p \in more : p.chunk < next
    BY <2>4, <2>5, <2>6, <2>7
  <2>9. \E p \in more : next = p.chunk + 1
    BY <2>4, <2>8
  <2> QED
    BY <2>8, <2>9 DEF next
<1> QED
  BY <1>2, <1>3

(* The chunk that is read next follows on those that were read.             *)
LEMMA NextChunkPreceded ==
  ASSUME pages \in Seq(Chunk), InOrder(Read(pages)), NEW p \in Chunk, NEW url \in Urls,
         p.chunk = 0 \/ p.chunk = NextChunk(url, p.content)
  PROVE  Preceded(p, Read(pages))
<1>1. p.content \in Contents /\ p.chunk \in Nat
  BY DEF Chunk
<1>2. CASE p.chunk = 0
  BY <1>2 DEF Preceded
<1>3. CASE p.chunk # 0
  <2>1. PICK q \in Read(pages) : q.content = p.content /\ p.chunk = q.chunk + 1
    <3> DEFINE next == NextChunk(url, p.content)
               more == {q \in Read(pages) : q.url = url /\ q.content = p.content
                                              /\ q.chunk < Last(p.content)}
    <3>1. next = 0 \/ \E q \in more : next = q.chunk + 1
      BY <1>1, NextChunkFacts
    <3> QED
      BY <1>3, <3>1
  <2>2. q \in Chunk /\ q.chunk \in Nat
    BY ReadTyped DEF Chunk
  <2>3. ASSUME NEW n \in Nat, n < p.chunk
        PROVE  \E x \in Read(pages) : x.content = p.content /\ x.chunk = n
    <3>1. n = q.chunk \/ n < q.chunk
      BY <2>1, <2>2, <2>3, <1>1
    <3> QED
      BY <3>1, <2>1 DEF InOrder, Preceded
  <2> QED
    BY <2>3 DEF Preceded
<1> QED
  BY <1>2, <1>3

(* Collecting one more chunk adds it to what was read.                     *)
LEMMA ReadAppend ==
  ASSUME NEW s \in Seq(Chunk), NEW p \in Chunk
  PROVE  /\ Append(s, p) \in Seq(Chunk) /\ Len(Append(s, p)) = Len(s) + 1
         /\ Read(Append(s, p)) = Read(s) \cup {p}
<1>1. /\ Append(s, p) \in Seq(Chunk) /\ Len(Append(s, p)) = Len(s) + 1
      /\ Append(s, p)[Len(s) + 1] = p
      /\ \A i \in 1..Len(s) : Append(s, p)[i] = s[i]
      /\ Len(s) \in Nat
  OBVIOUS
<1>2. DOMAIN s = 1..Len(s) /\ DOMAIN Append(s, p) = 1..(Len(s) + 1)
  BY <1>1
<1> QED
  BY <1>1, <1>2 DEF Read

(* What parse_synthesis accepts stands on the evidence it was given.        *)
LEMMA SynthesisStands ==
  ASSUME NEW items \in SUBSET Evidence, NEW r \in Syntheses(items)
  PROVE  /\ r \in [Fields -> FieldAnswer] /\ r # NoResult
         /\ Stands(r, items)
<1>1. \A f \in Fields :
        /\ r[f] \in [status : {"found", "missing", "conflicting"}, told : BOOLEAN,
                     cites : SUBSET items]
        /\ Acceptable(f, r[f], items)
  BY DEF Syntheses, Answers
<1>2. r \in [Fields -> FieldAnswer]
  <2>1. r = [f \in Fields |-> r[f]]
    BY DEF Syntheses
  <2>2. \A f \in Fields : r[f] \in FieldAnswer
    BY <1>1 DEF FieldAnswer
  <2> QED
    BY <2>1, <2>2
<1>3. ASSUME NEW f \in Fields
      PROVE  /\ r[f].cites \subseteq items
             /\ r[f].status = "missing" <=> Distinct(items, f) = {}
             /\ r[f].status = "found" => Cardinality(Distinct(items, f)) = 1
             /\ r[f].status = "conflicting" => Distinct(r[f].cites, f) = Distinct(items, f)
  <2> DEFINE own == {e \in items : e.field = f}
  <2>1. r[f].cites \subseteq own
    BY <1>1 DEF Acceptable
  <2>2. Distinct(items, f) = {} <=> own = {}
    BY DEF Distinct
  <2>3. /\ r[f].status = "missing" => own = {}
        /\ r[f].status # "missing" => r[f].cites # {}
    BY <1>1 DEF Acceptable
  <2>4. /\ r[f].status = "found" => Cardinality(Distinct(items, f)) = 1
        /\ r[f].status = "conflicting" => Distinct(r[f].cites, f) = Distinct(items, f)
    BY <1>1 DEF Acceptable
  <2> QED
    BY <2>1, <2>2, <2>3, <2>4
<1> QED
  BY <1>2, <1>3, NoResultAssumption DEF Stands

(* The front of the page in view is a first chunk.                         *)
LEMMA FrontTyped == TypeOK => Front \in Chunk /\ Front.chunk = 0
  BY DEF TypeOK, Front, Chunk

-----------------------------------------------------------------------------
(* What a step that saves nothing has to show                               *)

(* A step that saves nothing keeps what is said of the saved state.        *)
LEMMA SavedKept ==
  ASSUME SavedOK, UNCHANGED saved,
         at' # "out" => evidence' = saved.evidence /\ pages' = saved.pages
  PROVE  SavedOK'
  BY DEF SavedOK, CollectedOnce, InOrder, Preceded, Read

(* A step that stores no answer keeps what is said of the stored one.      *)
LEMMA AnswerKept ==
  ASSUME AnswerOK, UNCHANGED saved,
         kind' = "done" /\ at' \in {"after", "apply"} => final' \in Syntheses(evidence'),
         at' = "ending" /\ outcome' = "succeeded" => saved.result # NoResult,
         status' = "succeeded" => saved.result # NoResult
  PROVE  AnswerOK'
  BY DEF AnswerOK, Stands, Distinct

(* A step that reads nothing keeps what is said of the chunk in hand.      *)
LEMMA PageKept ==
  ASSUME PageOK, UNCHANGED <<pages, page, here, site, quiet, kind>>,
         at' \in {"chunk", "reread"} => at' = at,
         at' \in Middle => at \in Middle
  PROVE  PageOK'
  BY DEF PageOK, Preceded, Read, NextChunk, Front, Middle

-----------------------------------------------------------------------------

(* Nothing is collected or answered before the run begins.                  *)
THEOREM ResearchInvInit == Init => ResearchInv
<1> SUFFICES ASSUME Init PROVE ResearchInv
  OBVIOUS
<1>1. saved.evidence = {} /\ saved.pages = <<>> /\ saved.result = NoResult
      /\ at = "out" /\ status = "queued" /\ kind = "none"
  BY DEF Init, Nothing
<1>2. Read(saved.pages) = {}
  BY <1>1 DEF Read
<1>3. TypeOK
  <2>1. 0 \in 0..MaxSteps
    BY ResearchAssumption
  <2>2. <<>> \in Seq(Chunk)
    OBVIOUS
  <2> QED
    BY <1>1, <2>1, <2>2, ResearchAssumption DEF Init, TypeOK
<1>4. ControlOK /\ PageOK /\ AnswerOK
  BY <1>1 DEF ControlOK, PageOK, AnswerOK, Middle
<1>5. SavedOK
  BY <1>1, <1>2 DEF SavedOK, CollectedOnce, InOrder
<1> QED
  BY <1>3, <1>4, <1>5 DEF ResearchInv

(* A step begins, or the run does.                                          *)
LEMMA BeginStep ==
  ResearchInv /\ (StartRun \/ Elsewhere \/ \E k \in {"extract", "done"} : Decide(k))
    => ResearchInv'
<1> SUFFICES ASSUME ResearchInv,
                    StartRun \/ Elsewhere \/ \E k \in {"extract", "done"} : Decide(k)
             PROVE  ResearchInv'
  OBVIOUS
<1>1. TypeOK /\ ControlOK /\ PageOK /\ SavedOK /\ AnswerOK
  BY DEF ResearchInv
<1>2. CASE StartRun
  <2>1. TypeOK'
    BY <1>1, <1>2, ResearchAssumption DEF TypeOK, StartRun, step, world, Alive
  <2>2. ControlOK' /\ PageOK'
    BY <1>2 DEF StartRun, ControlOK, PageOK, Middle
  <2>3. SavedOK' /\ AnswerOK'
    BY <1>1, <1>2, SavedKept, AnswerKept DEF StartRun
  <2> QED
    BY <2>1, <2>2, <2>3 DEF ResearchInv
<1>3. CASE Elsewhere
  <2> USE DEF Elsewhere, step, memory, world
  <2>1. TypeOK' /\ ControlOK'
    BY <1>1, <1>3, ResearchAssumption DEF TypeOK, ControlOK, Alive, Middle
  <2>2. SavedOK' /\ AnswerOK' /\ PageOK'
    BY <1>1, <1>3, SavedKept, AnswerKept, PageKept DEF SavedOK, CollectedOnce, AnswerOK, Middle
  <2> QED
    BY <2>1, <2>2 DEF ResearchInv
<1>4. CASE \E k \in {"extract", "done"} : Decide(k)
  <2>1. PICK k \in {"extract", "done"} : Decide(k)
    BY <1>4
  <2> USE DEF Decide, memory, world
  <2>2. steps' \in 0..MaxSteps
    BY <2>1, <1>1, ResearchAssumption DEF TypeOK
  <2>3. TypeOK' /\ ControlOK'
    BY <1>1, <2>1, <2>2 DEF TypeOK, ControlOK, Middle
  <2>4. PageOK'
    BY <2>1 DEF PageOK, Middle
  <2>5. SavedOK' /\ AnswerOK'
    BY <1>1, <2>1, SavedKept, AnswerKept DEF SavedOK, CollectedOnce, AnswerOK
  <2> QED
    BY <2>3, <2>4, <2>5 DEF ResearchInv
<1> QED
  BY <1>2, <1>3, <1>4

(* The step is over, or the loop.                                           *)
LEMMA OverStep ==
  ResearchInv /\ (\/ StepsExceeded \/ StepFails \/ GateCancels
                  \/ ReadRefused \/ GateFresh)
    => ResearchInv'
<1> SUFFICES ASSUME ResearchInv,
                    StepsExceeded \/ StepFails \/ GateCancels \/ ReadRefused \/ GateFresh
             PROVE  ResearchInv'
  OBVIOUS
<1>1. TypeOK /\ ControlOK /\ SavedOK /\ AnswerOK
  BY DEF ResearchInv
<1>2. /\ at # "out" /\ at' \in {"ending", "between"}
      /\ at' = "ending" => outcome' \in {"failed", "cancelled"}
      /\ outcome' \in {outcome, "failed", "cancelled"}
      /\ StepOver
      /\ UNCHANGED <<status, steps, memory, saved, world, retries, faults>>
  BY DEF StepsExceeded, StepFails, GateCancels, ReadRefused, GateFresh, Ends, NextStep
<1>3. TypeOK' /\ ControlOK'
  BY <1>1, <1>2 DEF TypeOK, ControlOK, StepOver, memory, world, Middle
<1>4. PageOK'
  BY <1>2 DEF PageOK, Middle
<1>5. SavedOK' /\ AnswerOK'
  BY <1>1, <1>2, SavedKept, AnswerKept DEF SavedOK, CollectedOnce, AnswerOK, memory
<1> QED
  BY <1>3, <1>4, <1>5 DEF ResearchInv

(* The task is gone: its outcome is stored, or the process died under it,   *)
(* or the database did.                                                     *)
LEMMA GoneStep == ResearchInv /\ (PersistOutcome \/ Restart \/ ApplyFails) => ResearchInv'
<1> SUFFICES ASSUME ResearchInv, PersistOutcome \/ Restart \/ ApplyFails
             PROVE  ResearchInv'
  OBVIOUS
<1>1. TypeOK /\ ControlOK /\ SavedOK /\ AnswerOK
  BY DEF ResearchInv
<1>2. /\ TaskGone /\ UNCHANGED <<saved, world>>
      /\ \/ status' \in {status, "failed"} /\ (status' = status => status \notin {"queued"})
         \/ at = "ending" /\ status' = outcome
  BY <1>1 DEF PersistOutcome, Restart, ApplyFails, Alive, ControlOK
<1>3. TypeOK'
  <2>1. status' \in Alive \cup {"queued", "succeeded", "failed", "cancelled"}
    BY <1>1, <1>2 DEF TypeOK, ControlOK, Alive
  <2>2. 0 \in 0..MaxSteps /\ <<>> \in Seq(Chunk)
    BY ResearchAssumption
  <2> QED
    BY <1>1, <1>2, <2>1, <2>2 DEF TypeOK, TaskGone, StepOver, world
<1>4. ControlOK' /\ PageOK'
  BY <1>2 DEF ControlOK, PageOK, Middle, TaskGone
<1>5. status' = "succeeded" => saved.result # NoResult
  BY <1>1, <1>2 DEF AnswerOK
<1>6. SavedOK' /\ AnswerOK'
  BY <1>1, <1>2, <1>5, SavedKept, AnswerKept DEF TaskGone
<1> QED
  BY <1>3, <1>4, <1>6 DEF ResearchInv

(* Operators, and the pages.                                                *)
LEMMA OutsideStep ==
  ResearchInv /\ (Cancel \/ Take \/ Release \/ Retry \/ PageChanges) => ResearchInv'
<1> SUFFICES ASSUME ResearchInv, Cancel \/ Take \/ Release \/ Retry \/ PageChanges
             PROVE  ResearchInv'
  OBVIOUS
<1>1. TypeOK /\ ControlOK /\ PageOK /\ SavedOK /\ AnswerOK
  BY DEF ResearchInv
<1>2. CASE Cancel \/ Take \/ Release
  <2>1. /\ status' \in {"cancelled", "awaiting_human", "running"}
        /\ UNCHANGED <<at, outcome, steps, step, memory, saved, world, retries, faults>>
    BY <1>2 DEF Cancel, Take, Release, Operator
  <2>2. TypeOK' /\ ControlOK'
    BY <1>1, <2>1 DEF TypeOK, ControlOK, step, memory, world, Alive, Middle
  <2>3. PageOK'
    BY <1>1, <2>1, PageKept DEF step, memory, world
  <2>4. SavedOK' /\ AnswerOK'
    BY <1>1, <2>1, SavedKept, AnswerKept DEF SavedOK, CollectedOnce, AnswerOK, step, memory
  <2> QED
    BY <2>2, <2>3, <2>4 DEF ResearchInv
<1>3. CASE Retry
  <2>1. /\ at = "out" /\ status' = "queued" /\ saved' = Nothing
        /\ UNCHANGED <<at, outcome, steps, step, memory, world, faults>>
    BY <1>1, <1>3 DEF Retry, ControlOK
  <2>2. saved'.evidence = {} /\ saved'.pages = <<>> /\ saved'.result = NoResult
    BY <2>1 DEF Nothing
  <2>3. TypeOK' /\ ControlOK' /\ PageOK' /\ AnswerOK'
    BY <1>1, <2>1, <2>2
    DEF TypeOK, ControlOK, PageOK, AnswerOK, step, memory, world, Middle
  <2>4. SavedOK'
    <3>1. Read(saved'.pages) = {}
      BY <2>2 DEF Read
    <3> QED
      BY <2>1, <2>2, <3>1 DEF SavedOK, CollectedOnce, InOrder
  <2> QED
    BY <2>3, <2>4 DEF ResearchInv
<1>4. CASE PageChanges
  <2>1. /\ UNCHANGED <<status, at, outcome, steps, kind, page, found, final, waited, memory,
                       saved>>
        /\ quiet' = (at \in {"out", "between"})
    BY <1>4 DEF PageChanges
  <2>2. here' \in Urls /\ site' \in [Urls -> Contents]
    BY <1>1, <1>4 DEF PageChanges, TypeOK
  <2>3. TypeOK' /\ ControlOK'
    BY <1>1, <2>1, <2>2 DEF TypeOK, ControlOK, memory, Middle
  <2>4. PageOK'
    BY <1>1, <2>1 DEF PageOK, Preceded, Read, memory, Middle
  <2>5. SavedOK' /\ AnswerOK'
    BY <1>1, <2>1, SavedKept, AnswerKept DEF SavedOK, CollectedOnce, AnswerOK, memory
  <2> QED
    BY <2>3, <2>4, <2>5 DEF ResearchInv
<1> QED
  BY <1>2, <1>3, <1>4

-----------------------------------------------------------------------------
(* Reading                                                                  *)

(* The reads of an EXTRACT step.                                           *)
LEMMA ReadingStep ==
  ResearchInv /\ (ReadFront \/ ReadChunk \/ ReadAgain \/ ReadsNothing) => ResearchInv'
<1> SUFFICES ASSUME ResearchInv, ReadFront \/ ReadChunk \/ ReadAgain \/ ReadsNothing
             PROVE  ResearchInv'
  OBVIOUS
<1>1. TypeOK /\ ControlOK /\ PageOK /\ SavedOK /\ AnswerOK
  BY DEF ResearchInv
<1>2. /\ at \in {"read", "chunk", "reread"} /\ kind = "extract"
      /\ at' \in {"chunk", "reread", "before", "fails"}
      /\ UNCHANGED <<status, outcome, steps, kind, found, final, waited, memory, saved, world,
                     retries>>
  BY <1>1 DEF ReadFront, ReadChunk, ReadAgain, ReadsNothing, Reads, ControlOK
<1>3. pages \in Seq(Chunk) /\ pages = saved.pages /\ InOrder(Read(pages))
  BY <1>1, <1>2 DEF TypeOK, SavedOK, CollectedOnce
<1>4. Front \in Chunk /\ Front.chunk = 0 /\ Front.content = site[here] /\ Front.url = here
  BY <1>1, FrontTyped DEF Front
<1>5. ControlOK' /\ SavedOK' /\ AnswerOK'
  <2>1. UNCHANGED <<saved, evidence, pages>>
    BY <1>2 DEF memory
  <2>2. ControlOK'
    BY <1>1, <1>2 DEF ControlOK, Middle
  <2>3. SavedOK'
    BY <1>1, <1>2, <2>1, SavedKept DEF SavedOK, CollectedOnce
  <2>4. AnswerOK'
    BY <1>1, <1>2, <2>1, AnswerKept DEF AnswerOK
  <2> QED
    BY <2>2, <2>3, <2>4
<1>6. ASSUME page' \in Chunk \cup {NoPage}, quiet' \in BOOLEAN
      PROVE  TypeOK'
  BY <1>1, <1>2, <1>6 DEF TypeOK, memory, world
<1>7. CASE ReadFront
  <2>1. page' = Front /\ UNCHANGED quiet
        /\ at' = (IF NextChunk(here, site[here]) = 0 THEN "before" ELSE "chunk")
    BY <1>7 DEF ReadFront, Reads
  <2>2. Preceded(Front, Read(pages))
    BY <1>4 DEF Preceded, Chunk
  <2>3. PageOK'
    BY <1>2, <1>4, <2>1, <2>2
    DEF PageOK, Preceded, Read, NextChunk, Front, Middle, memory, world
  <2> QED
    BY <1>1, <1>4, <1>5, <1>6, <2>1, <2>3 DEF ResearchInv, TypeOK
<1>8. CASE ReadChunk
  <2> DEFINE next == NextChunk(page.url, page.content)
  <2>1. UNCHANGED quiet /\ page \in Chunk /\ at = "chunk"
    BY <1>1, <1>8 DEF ReadChunk, Reads, PageOK
  <2>2. page.url \in Urls /\ page.content \in Contents
    BY <2>1 DEF Chunk
  <2>3. CASE site[here] = page.content
    <3>1. page' = [Front EXCEPT !.chunk = next] /\ at' = "before"
      BY <1>8, <2>3 DEF ReadChunk, Reads
    <3>2. next \in Nat
      BY <1>3, <2>2, NextChunkFacts
    <3>3. /\ page' \in Chunk /\ page'.chunk = next /\ page'.content = page.content
          /\ page'.url = here
      BY <1>4, <2>3, <3>1, <3>2 DEF Front, Chunk
    <3>4. Preceded(page', Read(pages))
      BY <1>3, <2>2, <3>3, NextChunkPreceded
    <3>5. quiet => page.url = here
      BY <1>1, <1>4, <2>1 DEF PageOK
    <3>6. pages' = pages /\ kind' = kind /\ quiet' = quiet
      BY <1>2, <2>1 DEF memory
    <3>7. ASSUME quiet PROVE page'.chunk = NextChunk(page.url, page.content)'
      <4>1. page'.url = page.url /\ page'.content = page.content
        BY <3>3, <3>5, <3>7
      <4> QED
        BY <3>3, <3>6, <4>1 DEF NextChunk, Read
    <3>8. PageOK'
      BY <3>1, <3>3, <3>4, <3>6, <3>7 DEF PageOK, Preceded, Read, Middle
    <3> QED
      BY <1>1, <1>4, <1>5, <1>6, <2>1, <3>1, <3>3, <3>8 DEF ResearchInv, TypeOK
  <2>4. CASE site[here] # page.content
    <3>1. page' = page /\ at' = "reread"
      BY <1>8, <2>4 DEF ReadChunk, Reads
    <3>2. ~quiet
      BY <1>1, <1>4, <2>1, <2>4 DEF PageOK
    <3>3. PageOK'
      BY <2>1, <3>1, <3>2 DEF PageOK, Middle
    <3> QED
      BY <1>1, <1>4, <1>5, <1>6, <2>1, <3>1, <3>3 DEF ResearchInv, TypeOK
  <2> QED
    BY <2>3, <2>4
<1>9. CASE ReadAgain
  <2>1. page' = Front /\ UNCHANGED quiet /\ at' = "before" /\ ~quiet
    BY <1>1, <1>9 DEF ReadAgain, Reads, PageOK
  <2>2. Preceded(Front, Read(pages))
    BY <1>4 DEF Preceded, Chunk
  <2>3. PageOK'
    <3>1. pages' = pages /\ Read(pages)' = Read(pages) /\ kind' = kind
      BY <1>2 DEF Read, memory, world
    <3>2. Front \in Chunk /\ page' = Front /\ at' = "before" /\ ~quiet'
      BY <1>4, <2>1
    <3> HIDE DEF Front
    <3>3. Preceded(page', Read(pages'))
      BY <2>2, <3>1, <3>2
    <3>4. QED
      BY <3>1, <3>2, <3>3 DEF PageOK
  <2> QED
    BY <1>1, <1>4, <1>5, <1>6, <2>1, <2>3 DEF ResearchInv, TypeOK
<1>10. CASE ReadsNothing
  <2>1. page' = page /\ quiet' = FALSE /\ at' = (IF at = "chunk" THEN "reread" ELSE "fails")
    BY <1>10 DEF ReadsNothing
  <2>2. PageOK'
    BY <1>1, <2>1 DEF PageOK, Middle
  <2> QED
    BY <1>1, <1>4, <1>5, <1>6, <2>1, <2>2 DEF ResearchInv, TypeOK
<1> QED
  BY <1>7, <1>8, <1>9, <1>10

-----------------------------------------------------------------------------
(* Gates, the model and what is stored                                      *)

(* The control gate between two actions.                                   *)
LEMMA GateStep == ResearchInv /\ (GateParks \/ GatePasses) => ResearchInv'
<1> SUFFICES ASSUME ResearchInv, GateParks \/ GatePasses PROVE ResearchInv'
  OBVIOUS
<1>1. TypeOK /\ ControlOK /\ PageOK /\ SavedOK /\ AnswerOK
  BY DEF ResearchInv
<1>2. /\ at \in {"before", "after"} /\ at' \in Middle /\ waited' \in BOOLEAN
      /\ at' \in {"after", "apply"} /\ kind = "done" => at = "after"
      /\ UNCHANGED <<status, outcome, steps, kind, page, found, final, quiet, memory, saved,
                     world, retries, faults>>
  BY <1>1 DEF GateParks, GatePasses, Middle, step, TypeOK
<1>3. TypeOK' /\ ControlOK'
  BY <1>1, <1>2 DEF TypeOK, ControlOK, memory, world, Middle
<1>4. PageOK'
  BY <1>1, <1>2, PageKept DEF memory, world, Middle
<1>5. SavedOK' /\ AnswerOK'
  BY <1>1, <1>2, SavedKept, AnswerKept DEF SavedOK, CollectedOnce, AnswerOK, memory, Middle
<1> QED
  BY <1>3, <1>4, <1>5 DEF ResearchInv

(* The answers of the text model, and their rejection.                     *)
LEMMA AskingStep ==
  ResearchInv /\ (Extracted \/ Synthesized \/ AnswerRejected) => ResearchInv'
<1> SUFFICES ASSUME ResearchInv, Extracted \/ Synthesized \/ AnswerRejected
             PROVE  ResearchInv'
  OBVIOUS
<1>1. TypeOK /\ ControlOK /\ PageOK /\ SavedOK /\ AnswerOK
  BY DEF ResearchInv
<1>2. /\ at = "asking" /\ at' \in {"after", "fails"}
      /\ UNCHANGED <<status, outcome, steps, kind, page, waited, quiet, memory, saved, world,
                     retries, faults>>
  BY DEF Extracted, Synthesized, AnswerRejected, step
<1>3. found' \subseteq Finding
  BY <1>1 DEF Extracted, Synthesized, AnswerRejected, step, TypeOK
<1>4. evidence \subseteq Evidence
  BY <1>1 DEF TypeOK
<1>5. /\ final' # NoResult => final' \in [Fields -> FieldAnswer]
      /\ at' = "after" /\ kind = "done" => final' \in Syntheses(evidence)
  <2>1. CASE Synthesized
    BY <1>4, <2>1, SynthesisStands DEF Synthesized
  <2>2. CASE Extracted \/ AnswerRejected
    BY <1>1, <2>2 DEF Extracted, AnswerRejected, step, TypeOK
  <2> QED
    BY <2>1, <2>2
<1>6. TypeOK' /\ ControlOK'
  BY <1>1, <1>2, <1>3, <1>5 DEF TypeOK, ControlOK, memory, world, Middle
<1>7. PageOK'
  BY <1>1, <1>2, PageKept DEF memory, world, Middle
<1>8. SavedOK'
  BY <1>1, <1>2, SavedKept DEF SavedOK, CollectedOnce, memory
<1>9. AnswerOK'
  BY <1>1, <1>2, <1>5, AnswerKept DEF AnswerOK, memory
<1> QED
  BY <1>6, <1>7, <1>8, <1>9 DEF ResearchInv

(* Applying an EXTRACT saves its chunk with its evidence.                  *)
LEMMA ApplyExtractStep == ResearchInv /\ ApplyExtract => ResearchInv'
<1> SUFFICES ASSUME ResearchInv, ApplyExtract PROVE ResearchInv'
  OBVIOUS
<1>1. TypeOK /\ ControlOK /\ PageOK /\ SavedOK /\ AnswerOK
  BY DEF ResearchInv
<1>2. /\ at = "apply" /\ kind = "extract" /\ at' = "between" /\ StepOver
      /\ saved'.evidence = evidence' /\ saved'.pages = pages' /\ saved'.result = NoResult
      /\ UNCHANGED <<status, outcome, steps, world, retries, faults>>
  BY DEF ApplyExtract
<1>3. /\ page \in Chunk /\ Preceded(page, Read(pages)) /\ pages \in Seq(Chunk)
      /\ evidence = saved.evidence /\ pages = saved.pages
  BY <1>1, <1>2 DEF PageOK, TypeOK, SavedOK, CollectedOnce, Middle
<1>4. ASSUME cached
      PROVE  SavedOK' /\ evidence' \subseteq Evidence /\ pages' \in Seq(Chunk)
  <2>1. evidence' = saved.evidence /\ pages' = saved.pages
    BY <1>3, <1>4 DEF ApplyExtract
  <2>2. SavedOK'
    BY <1>1, <1>2, <2>1 DEF SavedOK, CollectedOnce, InOrder, Preceded, Read
  <2>3. evidence' \subseteq Evidence /\ pages' \in Seq(Chunk)
    BY <1>1, <2>1 DEF TypeOK
  <2> QED
    BY <2>2, <2>3
<1>5. ASSUME ~cached
      PROVE  SavedOK' /\ evidence' \subseteq Evidence /\ pages' \in Seq(Chunk)
  <2>1. evidence' = evidence \cup Sourced(found, page) /\ pages' = Append(pages, page)
    BY <1>5 DEF ApplyExtract
  <2>2. /\ pages' \in Seq(Chunk) /\ Len(pages') = Len(pages) + 1
        /\ Read(pages') = Read(pages) \cup {page}
    BY <1>3, <2>1, ReadAppend
  <2>3. \A e \in Sourced(found, page) :
          e \in Evidence
          /\ [url |-> e.url, content |-> e.content, chunk |-> e.chunk] = page
    BY <1>1, <1>3 DEF TypeOK, Finding, Sourced, Evidence, Chunk
  <2>4. \A i, j \in DOMAIN pages' : pages'[i] = pages'[j] => i = j
    <3>1. \A i, j \in DOMAIN pages : pages[i] = pages[j] => i = j
      BY <1>1, <1>3 DEF SavedOK, CollectedOnce
    <3>2. \A i \in DOMAIN pages : pages[i] # page
      BY <1>5 DEF cached, Read
    <3>3. /\ DOMAIN pages = 1..Len(pages) /\ DOMAIN pages' = 1..(Len(pages) + 1)
          /\ Len(pages) \in Nat
          /\ pages'[Len(pages) + 1] = page /\ \A i \in DOMAIN pages : pages'[i] = pages[i]
      BY <1>3, <2>1, <2>2
    <3> QED
      BY <3>1, <3>2, <3>3
  <2>5. InOrder(Read(pages'))
    BY <1>1, <1>3, <2>2 DEF SavedOK, InOrder, Preceded
  <2>6. \A e \in evidence' :
          [url |-> e.url, content |-> e.content, chunk |-> e.chunk] \in Read(pages')
    BY <1>1, <1>3, <2>1, <2>2, <2>3 DEF SavedOK, CollectedOnce
  <2>7. SavedOK'
    BY <1>2, <2>4, <2>5, <2>6 DEF SavedOK, CollectedOnce, InOrder, Preceded, Read
  <2>8. evidence' \subseteq Evidence
    BY <1>1, <2>1, <2>3 DEF TypeOK
  <2> QED
    BY <2>2, <2>7, <2>8
<1>6. SavedOK' /\ evidence' \subseteq Evidence /\ pages' \in Seq(Chunk)
  BY <1>4, <1>5
<1>7. TypeOK'
  BY <1>1, <1>2, <1>6 DEF TypeOK, StepOver, world
<1>8. ControlOK' /\ PageOK' /\ AnswerOK'
  BY <1>1, <1>2 DEF ControlOK, PageOK, AnswerOK, Middle
<1> QED
  BY <1>6, <1>7, <1>8 DEF ResearchInv

(* Applying a DONE stores the synthesis.                                   *)
LEMMA ApplyDoneStep == ResearchInv /\ ApplyDone => ResearchInv'
<1> SUFFICES ASSUME ResearchInv, ApplyDone PROVE ResearchInv'
  OBVIOUS
<1>1. TypeOK /\ ControlOK /\ SavedOK /\ AnswerOK
  BY DEF ResearchInv
<1>2. /\ at = "apply" /\ kind = "done" /\ at' = "ending" /\ outcome' = "succeeded" /\ StepOver
      /\ saved'.evidence = evidence /\ saved'.pages = pages /\ saved'.result = final
      /\ UNCHANGED <<status, steps, evidence, pages, world, retries, faults>>
  BY DEF ApplyDone, memory
<1>3. evidence = saved.evidence /\ pages = saved.pages /\ evidence \in SUBSET Evidence
  BY <1>1, <1>2 DEF SavedOK, CollectedOnce, TypeOK
<1>4. /\ final \in [Fields -> FieldAnswer] /\ final # NoResult
      /\ Stands(final, evidence)
  BY <1>1, <1>2, <1>3, SynthesisStands DEF AnswerOK
<1>5. TypeOK'
  BY <1>1, <1>2, <1>4 DEF TypeOK, StepOver, world
<1>6. ControlOK' /\ PageOK'
  BY <1>1, <1>2 DEF ControlOK, PageOK, Middle
<1>7. SavedOK'
  BY <1>1, <1>2, <1>3 DEF SavedOK, CollectedOnce, InOrder, Preceded, Read
<1>8. AnswerOK'
  BY <1>1, <1>2, <1>4 DEF AnswerOK, Stands, Distinct
<1> QED
  BY <1>5, <1>6, <1>7, <1>8 DEF ResearchInv

-----------------------------------------------------------------------------
(* Results                                                                  *)

(* Every step of the loop, the operators and the pages keeps the invariant. *)
THEOREM ResearchInvStep == ResearchInv /\ [Next]_vars => ResearchInv'
<1> SUFFICES ASSUME ResearchInv, [Next]_vars PROVE ResearchInv'
  OBVIOUS
<1>1. CASE Next
  BY <1>1, BeginStep, OverStep, GoneStep, OutsideStep, ReadingStep, GateStep, AskingStep,
     ApplyExtractStep, ApplyDoneStep
  DEF Next, Loop, Reading, Gate, Asking
<1>2. CASE UNCHANGED vars
  <2>1. TypeOK /\ ControlOK /\ PageOK /\ SavedOK /\ AnswerOK
    BY DEF ResearchInv
  <2> USE <1>2 DEF vars, world, memory, step
  <2>2. TypeOK' /\ ControlOK'
    BY <2>1 DEF TypeOK, ControlOK, Middle
  <2>3. PageOK'
    BY <2>1, PageKept
  <2>4. SavedOK' /\ AnswerOK'
    BY <2>1, SavedKept, AnswerKept DEF SavedOK, CollectedOnce, AnswerOK
  <2> QED
    BY <2>2, <2>3, <2>4 DEF ResearchInv
<1> QED
  BY <1>1, <1>2

(* The invariant of the research run holds in every reachable state.       *)
LEMMA ResearchInvHolds == ResearchSpec => []ResearchInv
  BY ResearchInvInit, ResearchInvStep, PTL DEF ResearchSpec

(* The state stays well typed, and the step budget is kept.                 *)
THEOREM ResearchTyped == ResearchSpec => []TypeOK
<1>1. ResearchInv => TypeOK
  BY DEF ResearchInv
<1> QED
  BY <1>1, ResearchInvHolds, PTL

(* No evidence without its chunk, and no chunk recorded twice, through any  *)
(* holds, crashes, failed commits and retries (loop.py _research_step).     *)
THEOREM NothingCollectedTwice == ResearchSpec => []CollectedOnce
<1>1. ResearchInv => CollectedOnce
  BY DEF ResearchInv, SavedOK
<1> QED
  BY <1>1, ResearchInvHolds, PTL

(* However pages move under the reads, no chunk is read before the chunks   *)
(* in front of it (the offset of _research_step).                           *)
THEOREM ChunksInOrder == ResearchSpec => []ReadInOrder
<1>1. ResearchInv => ReadInOrder
  <2> SUFFICES ASSUME ResearchInv, NEW p \in Read(saved.pages), NEW n \in 0..p.chunk
               PROVE  \E q \in Read(saved.pages) : q.content = p.content /\ q.chunk = n
    BY DEF ReadInOrder
  <2>1. p \in Chunk /\ p.chunk \in Nat
    BY ReadTyped DEF ResearchInv, TypeOK, Chunk
  <2>2. CASE n = p.chunk
    BY <2>2
  <2>3. CASE n # p.chunk
    BY <2>1, <2>3 DEF ResearchInv, SavedOK, InOrder, Preceded
  <2> QED
    BY <2>2, <2>3
<1> QED
  BY <1>1, ResearchInvHolds, PTL

(* A stored result answers every field out of the stored evidence, and a    *)
(* run that succeeded has one (parse_synthesis, persist_research).          *)
THEOREM ResultsStand == ResearchSpec => []AnswersStand
<1>1. ResearchInv => AnswersStand
  BY DEF ResearchInv, AnswerOK, AnswersStand, Stands
<1> QED
  BY <1>1, ResearchInvHolds, PTL

(* An EXTRACT on a page that stays as it is goes on, until the page has     *)
(* been read to its end (loop.py _research_step, offset and cached).        *)
THEOREM ExtractGoesOn == ResearchSpec => ExtractAdvances
<1> DEFINE Goal == \/ Len(pages') > Len(pages)
                   \/ \E q \in Read(pages) :
                        q.content = page.content /\ q.chunk = Last(page.content)
<1>1. ASSUME ResearchInv, ApplyExtract, quiet PROVE Goal
  <2>1. /\ page \in Chunk /\ page.chunk = NextChunk(page.url, page.content)
        /\ pages \in Seq(Chunk)
    BY <1>1 DEF ResearchInv, PageOK, TypeOK, ApplyExtract, Middle
  <2>2. page.url \in Urls /\ page.content \in Contents /\ page.chunk \in Nat
    BY <2>1 DEF Chunk
  <2>3. CASE ~cached
    <3>1. Len(pages) \in Nat /\ Len(pages') = Len(pages) + 1
      BY <1>1, <2>1, <2>3, ReadAppend DEF ApplyExtract
    <3> QED
      BY <3>1
  <2>4. CASE cached
    <3> DEFINE more == {p \in Read(pages) : p.url = page.url /\ p.content = page.content
                                              /\ p.chunk < Last(page.content)}
    <3>1. /\ page.chunk = 0 \/ \E p \in more : page.chunk = p.chunk + 1
          /\ \A p \in more : p.chunk < page.chunk
      BY <2>1, <2>2, NextChunkFacts
    <3>2. page \notin more
      BY <2>2, <3>1
    <3>3. ~ (page.chunk < Last(page.content))
      BY <2>4, <3>2 DEF cached
    <3>4. Last(page.content) \in Nat
      BY <2>2, LastNumber
    <3>5. page.chunk <= Last(page.content)
      <4>1. CASE page.chunk = 0
        BY <3>4, <4>1
      <4>2. CASE \E p \in more : page.chunk = p.chunk + 1
        <5>1. PICK p \in more : page.chunk = p.chunk + 1
          BY <4>2
        <5>2. p.chunk \in Nat
          BY <2>1, ReadTyped DEF Chunk
        <5> QED
          BY <3>4, <5>1, <5>2
      <4> QED
        BY <3>1, <4>1, <4>2
    <3>6. page.chunk = Last(page.content)
      BY <2>2, <3>3, <3>4, <3>5
    <3> QED
      BY <2>4, <3>6 DEF cached
  <2> QED
    BY <2>3, <2>4
<1>2. ResearchInv /\ [Next]_vars => [ApplyExtract /\ quiet => Goal]_vars
  BY <1>1
<1> QED
  BY <1>2, ResearchInvHolds, PTL DEF ResearchSpec, ExtractAdvances

-----------------------------------------------------------------------------
(* That an answer can always be given                                       *)

(* A set given element by element from a finite one is finite, and no larger. *)
LEMMA ImageFinite ==
  ASSUME NEW S, IsFiniteSet(S), NEW F, F = [x \in S |-> F[x]]
  PROVE  /\ IsFiniteSet({F[x] : x \in S})
         /\ Cardinality({F[x] : x \in S}) <= Cardinality(S)
<1> DEFINE T == {F[x] : x \in S}
<1>1. F \in Surjection(S, T)
  BY DEF Surjection
<1> HIDE DEF T
<1>2. IsFiniteSet(T) /\ Cardinality(T) <= Cardinality(S)
  BY <1>1, FS_Surjection
<1> QED
  BY <1>2 DEF T

(* The different values of finitely many items are finitely many.          *)
LEMMA DistinctFinite ==
  ASSUME NEW items, IsFiniteSet(items), NEW f
  PROVE  IsFiniteSet(Distinct(items, f))
<1> DEFINE own == {x \in items : x.field = f}
           F == [x \in own |-> Norm[x.value]]
<1>1. IsFiniteSet(own)
  BY FS_Subset
<1>2. F = [x \in own |-> F[x]] /\ Distinct(items, f) = {F[x] : x \in own}
  BY DEF Distinct
<1> HIDE DEF own, F
<1> QED
  BY <1>1, <1>2, ImageFinite

(* One item for each different value cites them all.                       *)
LEMMA OneOfEach ==
  ASSUME NEW items, IsFiniteSet(items), NEW f
  PROVE  \E cites \in SUBSET {x \in items : x.field = f} :
           /\ Distinct(cites, f) = Distinct(items, f)
           /\ IsFiniteSet(cites) /\ Cardinality(cites) <= Cardinality(Distinct(items, f))
<1> DEFINE own == {x \in items : x.field = f}
           D == Distinct(items, f)
           F == [v \in D |-> CHOOSE x \in own : Norm[x.value] = v]
           cites == {F[v] : v \in D}
<1>1. ASSUME NEW v \in D PROVE F[v] \in own /\ Norm[F[v].value] = v
  <2>1. \E x \in own : Norm[x.value] = v
    BY DEF Distinct
  <2> QED
    BY <2>1
<1>2. F = [v \in D |-> F[v]] /\ IsFiniteSet(D)
  BY DistinctFinite
<1>3. \A x \in own : x.field = f /\ x \in items
  OBVIOUS
<1>4. \A x : x \in cites <=> \E v \in D : x = F[v]
  OBVIOUS
<1> HIDE DEF F
<1>5. IsFiniteSet(cites) /\ Cardinality(cites) <= Cardinality(D)
  <2> HIDE DEF D
  <2> QED
    BY <1>2, ImageFinite
<1> HIDE DEF own, D, cites
<1>6. Distinct(cites, f) = D
  <2>1. \A x \in cites : x.field = f /\ Norm[x.value] \in D
    BY <1>1, <1>3, <1>4
  <2>2. \A v \in D : \E x \in cites : x.field = f /\ Norm[x.value] = v
    BY <1>1, <1>3, <1>4
  <2> QED
    BY <2>1, <2>2 DEF Distinct
<1>7. cites \in SUBSET own
  BY <1>1, <1>4
<1> QED
  BY <1>5, <1>6, <1>7 DEF own, D

(* The rules of parse_synthesis leave an answer, unless the field has more  *)
(* different values than may be cited.                                      *)
LEMMA AnswerExists ==
  ASSUME NEW items, IsFiniteSet(items), NEW f,
         Cardinality(Distinct(items, f)) <= MaxCited
  PROVE  Answers(f, items) # {}
<1> DEFINE own == {e \in items : e.field = f}
           D == Distinct(items, f)
           Answer(st, t, cs) == [status |-> st, told |-> t, cites |-> cs]
           Records == [status : {"found", "missing", "conflicting"}, told : BOOLEAN,
                       cites : SUBSET items]
<1>1. SUFFICES \E a \in Records : Acceptable(f, a, items)
  BY DEF Answers
<1>2. IsFiniteSet(D) /\ Cardinality(D) \in Nat /\ MaxCited \in Nat
  BY DistinctFinite, FS_CardinalityType, ResearchAssumption
<1>3. own \subseteq items /\ (own = {} <=> D = {})
  BY DEF Distinct
<1>4. CASE own = {}
  <2> DEFINE a == Answer("missing", FALSE, {})
  <2>1. a \in Records /\ a.status = "missing" /\ a.told = FALSE /\ a.cites = {}
    OBVIOUS
  <2>2. Cardinality(a.cites) = 0
    BY <2>1, FS_EmptySet
  <2> HIDE DEF a
  <2>3. Acceptable(f, a, items)
    BY <1>2, <1>4, <2>1, <2>2 DEF Acceptable
  <2> QED
    BY <2>1, <2>3
<1>5. CASE own # {} /\ Cardinality(D) = 1
  <2>1. PICK e \in own : TRUE
    BY <1>5
  <2> DEFINE a == Answer("found", TRUE, {e})
  <2>2. a \in Records /\ a.status = "found" /\ a.told = TRUE /\ a.cites = {e}
    BY <1>3, <2>1
  <2>3. Cardinality(a.cites) = 1
    BY <2>2, FS_Singleton
  <2> HIDE DEF a
  <2>4. Acceptable(f, a, items)
    BY <1>2, <1>5, <2>1, <2>2, <2>3 DEF Acceptable
  <2> QED
    BY <2>2, <2>4
<1>6. CASE own # {} /\ Cardinality(D) # 1
  <2>1. PICK cites \in SUBSET own :
          /\ Distinct(cites, f) = D
          /\ IsFiniteSet(cites) /\ Cardinality(cites) <= Cardinality(D)
    BY OneOfEach
  <2> DEFINE a == Answer("conflicting", FALSE, cites)
  <2>2. a \in Records /\ a.status = "conflicting" /\ a.cites = cites
    BY <1>3, <2>1
  <2>3. Cardinality(D) # 0
    BY <1>2, <1>3, <1>6, FS_EmptySet
  <2>4. Cardinality(D) >= 2
    BY <1>2, <1>6, <2>3
  <2>5. cites # {}
    <3>1. Distinct({}, f) = {}
      BY DEF Distinct
    <3> QED
      BY <1>3, <1>6, <2>1, <3>1
  <2>6. Cardinality(cites) \in Nat
    BY <2>1, FS_CardinalityType
  <2>7. Cardinality(cites) <= MaxCited
    BY <1>2, <2>1, <2>6
  <2> HIDE DEF a
  <2>8. Acceptable(f, a, items)
    BY <2>1, <2>2, <2>4, <2>5, <2>7 DEF Acceptable
  <2> QED
    BY <2>2, <2>8
<1> QED
  BY <1>4, <1>5, <1>6

(* Whoever cites all different values of a field cites at least as many     *)
(* items: an answer passes only if the values may all be cited.             *)
LEMMA AnswerCitesAll ==
  ASSUME NEW items, IsFiniteSet(items), NEW f, NEW a \in Answers(f, items)
  PROVE  Cardinality(Distinct(items, f)) <= MaxCited
<1> DEFINE own == {e \in items : e.field = f}
           D == Distinct(items, f)
<1>1. a.status \in {"found", "missing", "conflicting"} /\ Acceptable(f, a, items)
  BY DEF Answers
<1>2. a.cites \subseteq own /\ own \subseteq items /\ Cardinality(a.cites) <= MaxCited
  BY <1>1 DEF Acceptable
<1>3. /\ IsFiniteSet(a.cites) /\ Cardinality(a.cites) \in Nat
      /\ MaxCited \in Nat
  BY <1>2, FS_Subset, FS_CardinalityType, ResearchAssumption
<1>4. CASE a.status = "missing"
  <2>1. D = {}
    BY <1>1, <1>4 DEF Acceptable, Distinct
  <2> HIDE DEF D
  <2>2. Cardinality(D) = 0
    BY <2>1, FS_EmptySet
  <2> QED
    BY <1>3, <2>2 DEF D
<1>5. CASE a.status = "found"
  <2>1. Cardinality(D) = 1 /\ a.cites # {}
    BY <1>1, <1>5 DEF Acceptable
  <2>2. Cardinality(a.cites) # 0
    BY <1>3, <2>1, FS_EmptySet
  <2> QED
    BY <1>2, <1>3, <2>1, <2>2
<1>6. CASE a.status = "conflicting"
  <2> DEFINE F == [x \in a.cites |-> Norm[x.value]]
  <2>1. D = Distinct(a.cites, f)
    BY <1>1, <1>6 DEF Acceptable
  <2>2. F = [x \in a.cites |-> F[x]] /\ D = {F[x] : x \in a.cites}
    BY <1>2, <2>1 DEF Distinct
  <2> HIDE DEF D, F
  <2>3. IsFiniteSet(D) /\ Cardinality(D) <= Cardinality(a.cites)
    BY <1>3, <2>2, ImageFinite
  <2>4. Cardinality(D) \in Nat
    BY <2>3, FS_CardinalityType
  <2> QED
    BY <1>2, <1>3, <2>3, <2>4 DEF D
<1> QED
  BY <1>1, <1>4, <1>5, <1>6

\* A run collects finitely many items, whatever number of values there are.
CollectsFinitely ==
  IsFiniteSet(found) /\ IsFiniteSet(evidence) /\ IsFiniteSet(saved.evidence)

(* What an extraction saves of finitely many findings is finite.           *)
LEMMA SourcedFinite ==
  ASSUME NEW findings, IsFiniteSet(findings), NEW p
  PROVE  IsFiniteSet(Sourced(findings, p))
<1> DEFINE F == [f \in findings |->
                   [field |-> f.field, value |-> f.value,
                    url |-> p.url, content |-> p.content, chunk |-> p.chunk]]
<1>1. F = [f \in findings |-> F[f]] /\ Sourced(findings, p) = {F[f] : f \in findings}
  BY DEF Sourced
<1> HIDE DEF F
<1> QED
  BY <1>1, ImageFinite

(* Each step of a run collects finitely many items, or none.               *)
LEMMA CollectsFinitelyStep ==
  ASSUME CollectsFinitely, [Next]_vars
  PROVE  CollectsFinitely'
<1>1. IsFiniteSet({})
  BY FS_EmptySet
<1>2. CASE Extracted
  BY <1>2 DEF Extracted, CollectsFinitely, memory
<1>3. CASE ApplyExtract
  <2>1. IsFiniteSet(evidence \cup Sourced(found, page))
    BY SourcedFinite, FS_Union DEF CollectsFinitely
  <2>2. IsFiniteSet(evidence') /\ saved'.evidence = evidence' /\ found' = {}
    BY <1>3, <2>1 DEF ApplyExtract, StepOver, CollectsFinitely
  <2> QED
    BY <1>1, <2>2 DEF CollectsFinitely
<1>4. CASE ApplyDone
  BY <1>1, <1>4 DEF ApplyDone, StepOver, memory, CollectsFinitely
<1>5. CASE StartRun
  BY <1>5 DEF StartRun, step, CollectsFinitely
<1>6. CASE Retry
  BY <1>1, <1>6 DEF Retry, Nothing, step, memory, CollectsFinitely
<1>7. CASE ApplyFails \/ PersistOutcome \/ Restart
  <2>1. TaskGone /\ saved' = saved
    BY <1>7 DEF ApplyFails, PersistOutcome, Restart
  <2> QED
    BY <1>1, <2>1 DEF TaskGone, StepOver, CollectsFinitely
<1>8. CASE StepsExceeded \/ StepFails \/ GateCancels \/ ReadRefused \/ GateFresh
  <2>1. StepOver /\ UNCHANGED <<memory, saved>>
    BY <1>8 DEF StepsExceeded, StepFails, GateCancels, ReadRefused, GateFresh, Ends, NextStep
  <2> QED
    BY <1>1, <2>1 DEF StepOver, memory, CollectsFinitely
<1>9. CASE \/ ReadFront \/ ReadChunk \/ ReadAgain \/ ReadsNothing
           \/ GateParks \/ GatePasses \/ Synthesized \/ AnswerRejected
           \/ Elsewhere \/ (\E k \in {"extract", "done"} : Decide(k))
           \/ Cancel \/ Take \/ Release \/ PageChanges \/ UNCHANGED vars
  <2>1. UNCHANGED <<found, memory, saved>>
    BY <1>9 DEF ReadFront, ReadChunk, ReadAgain, Reads, ReadsNothing, GateParks, GatePasses,
                Synthesized, AnswerRejected, Elsewhere, Decide, Cancel, Take, Release,
                Operator, PageChanges, step, vars
  <2> QED
    BY <2>1 DEF memory, CollectsFinitely
<1> QED
  BY <1>2, <1>3, <1>4, <1>5, <1>6, <1>7, <1>8, <1>9
  DEF Next, Loop, Reading, Gate, Asking

(* Through any holds, crashes and retries: parse_synthesis accepts some     *)
(* answer for a field if and only if the field has no more different values *)
(* than may be cited.                                                       *)
THEOREM AnswersUpToLimit == ResearchSpec => []AnswerableWithinLimit
<1>1. Init => CollectsFinitely
  BY FS_EmptySet DEF Init, Nothing, CollectsFinitely
<1>2. CollectsFinitely /\ [Next]_vars => CollectsFinitely'
  BY CollectsFinitelyStep
<1>3. CollectsFinitely => AnswerableWithinLimit
  BY AnswerExists, AnswerCitesAll DEF CollectsFinitely, AnswerableWithinLimit
<1> QED
  BY <1>1, <1>2, <1>3, PTL DEF ResearchSpec
=============================================================================
