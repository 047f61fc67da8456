--------------------------- MODULE BackfillProofs ---------------------------
(***************************************************************************)
(* Theorems about Backfill for every connection, history, page size and    *)
(* number of runs, threads, crashes and overlapping calls.                 *)
(***************************************************************************)
EXTENDS Backfill, SequenceTheorems, FiniteSetTheorems, TLAPS

-----------------------------------------------------------------------------
(* Types of the constants and of the pages. *)

LEMMA BlankTypes ==
  /\ NoCursor \in Cursors
  /\ NoRun \in Runs
  /\ NoPage \in Pages
  /\ IdleJob \in Jobs
<1>1. NoCursor \in Cursors
  BY DEF NoCursor, Cursors
<1>2. NoRun \in Runs
  BY <1>1 DEF NoRun, Runs, States, Unknown
<1>3. NoPage \in Pages
  BY DEF NoPage, Pages, Unknown
<1>4. IdleJob \in Jobs
  BY <1>1, <1>2, <1>3 DEF IdleJob, Jobs, Stages, Purses
<1>. QED BY <1>1, <1>2, <1>3, <1>4

LEMMA RowsFinite ==
  ASSUME NEW S \in SUBSET Rows
  PROVE  IsFiniteSet(S) /\ Cardinality(S) \in Nat
<1>1. IsFiniteSet(Rows)
  BY FS_Interval, BoundAssumption DEF Rows
<1>. QED BY <1>1, FS_Subset, FS_CardinalityType

LEMMA RowsAtType ==
  ASSUME NEW run \in Runs, NEW offset \in Nat
  PROVE  RowsAt(run, offset) \in SUBSET Rows /\ Cardinality(RowsAt(run, offset)) \in Nat
<1>1. RowsAt(run, offset) \subseteq Rows
  BY DEF RowsAt
<1>. QED BY <1>1, RowsFinite

LEMMA PageAtType ==
  ASSUME NEW run \in Runs, NEW offset \in Nat, NEW total \in Int
  PROVE  PageAt(run, offset, total) \in Pages /\ PageAt(run, offset, total).processed \in Nat
<1>1. offset + Cardinality(RowsAt(run, offset)) \in Nat
  BY RowsAtType
<1>. QED BY <1>1, RowsAtType DEF PageAt, Pages, Unknown

LEMMA NotReadyType ==
  ASSUME NEW run \in Runs
  PROVE  NotReady(run) \in Pages
BY BlankTypes DEF NotReady, Pages, Runs

LEMMA OffsetType ==
  ASSUME NEW cursor \in Cursors
  PROVE  Offset(cursor) \in Nat
BY DEF Offset, Cursors

LEMMA StartPageType ==
  ASSUME NEW run \in Runs, NEW adopted \in Cursors
  PROVE  StartPage(run, adopted) \in Pages
<1>. DEFINE fresh == [run EXCEPT !.total = InScope(run), !.processed = 0]
            page == PageAt(run, Offset(adopted), InScope(run))
<1>1. InScope(run) \in Int
  BY DEF InScope, Runs
<1>2. fresh \in Runs
  BY <1>1 DEF Runs
<1>3. page \in Pages /\ page.processed \in Nat
  BY <1>1, OffsetType, PageAtType
<1>4. [page EXCEPT !.token = page.processed] \in Pages
  <2>. HIDE DEF page
  <2>. QED BY <1>3 DEF Pages
<1>5. NotReady(fresh) \in Pages
  BY <1>2, NotReadyType
<1>. QED BY <1>4, <1>5 DEF StartPage

LEMMA ReadPageType ==
  ASSUME NEW run \in Runs
  PROVE  ReadPage(run) \in Pages
<1>1. /\ InScope(run) \in Int /\ run.total \in Int /\ run.processed \in Nat
      /\ run.cursor \in Cursors
  BY DEF InScope, Runs
<1>2. PageAt(run, Offset(run.cursor), run.total) \in Pages
  BY <1>1, OffsetType, PageAtType
<1>3. PageAt(run, run.processed, InScope(run)) \in Pages
      /\ PageAt(run, run.processed, run.total) \in Pages
  BY <1>1, PageAtType
<1>. QED BY <1>2, <1>3, NotReadyType DEF ReadPage

(* A page closes the gap between its offset and what it has processed: the  *)
(* rows up to there are those up to the offset and those of the page.       *)
LEMMA PageCovers ==
  ASSUME NEW run \in Runs, run.start = 0, NEW offset \in Nat
  PROVE  Upto(offset + Cardinality(RowsAt(run, offset))) \subseteq Upto(offset) \union RowsAt(run, offset)
<1>. DEFINE last == IF run.to <= offset + PageSize
                    THEN IF run.to <= MaxRows THEN run.to ELSE MaxRows
                    ELSE IF offset + PageSize <= MaxRows THEN offset + PageSize ELSE MaxRows
<1>1. run.to \in Nat /\ MaxRows \in Nat /\ PageSize \in Nat
  BY BoundAssumption, PageAssumption DEF Runs
<1>2. last \in Nat /\ RowsAt(run, offset) = (offset + 1)..last
  BY <1>1 DEF RowsAt, Rows
<1>3. Cardinality(RowsAt(run, offset)) = IF last > offset THEN last - offset ELSE 0
  <2>. HIDE DEF last
  <2>1. Cardinality((offset + 1)..last) = IF offset + 1 > last THEN 0 ELSE last - (offset + 1) + 1
    BY <1>2, FS_Interval
  <2>. QED BY <1>2, <2>1
<1>. HIDE DEF last
<1>4. CASE last > offset
  BY <1>1, <1>2, <1>3, <1>4 DEF Upto, Rows
<1>5. CASE ~(last > offset)
  BY <1>1, <1>2, <1>3, <1>5 DEF Upto, Rows
<1>. QED BY <1>4, <1>5

-----------------------------------------------------------------------------
(* Type correctness. *)

LEMMA AppendType ==
  ASSUME NEW S, NEW s \in Seq(S), NEW x \in S
  PROVE  Append(s, x) \in Seq(S)
OBVIOUS

LEMMA RowType ==
  ASSUME NEW S, NEW s \in Seq(S), NEW i \in DOMAIN s
  PROVE  s[i] \in S /\ i \in Nat
OBVIOUS

(* Writing one element of a sequence; an index out of range writes none. *)
LEMMA ExceptType ==
  ASSUME NEW S, NEW s \in Seq(S), NEW r, NEW x, r \in DOMAIN s => x \in S
  PROVE  /\ [s EXCEPT ![r] = x] \in Seq(S)
         /\ DOMAIN [s EXCEPT ![r] = x] = DOMAIN s
         /\ \A i \in DOMAIN s : [s EXCEPT ![r] = x][i] = IF i = r THEN x ELSE s[i]
<1>. DEFINE next == [s EXCEPT ![r] = x]
<1>1. DOMAIN s = 1..Len(s) /\ DOMAIN next = 1..Len(s) /\ Len(s) \in Nat
  OBVIOUS
<1>2. \A i \in 1..Len(s) : next[i] = IF i = r THEN x ELSE s[i]
  BY <1>1
<1>3. next = [i \in 1..Len(s) |-> next[i]]
  BY <1>1
<1>4. ASSUME NEW i \in 1..Len(s)
      PROVE  next[i] \in S
  BY <1>1, <1>2, RowType
<1>. HIDE DEF next
<1>5. next \in [1..Len(s) -> S]
  BY <1>3, <1>4
<1>6. next \in Seq(S)
  BY <1>1, <1>5, SeqDef
<1>. QED BY <1>1, <1>2, <1>6 DEF next

(* A call that went past the creation of its run names a run that exists. *)
Named(call, known) ==
  call.stage \in Stages \ {"idle", "starting", "creating"} => call.run \in known
CallsNamed == \A t \in Threads : Named(job[t], DOMAIN runs)

TypeInv == TypeOK /\ CallsNamed

LEMMA GoesType ==
  ASSUME TypeInv, NEW t \in Threads, NEW next \in Jobs, Goes(t, next),
         Named(next, DOMAIN runs'), DOMAIN runs \subseteq DOMAIN runs'
  PROVE  job' \in [Threads -> Jobs] /\ CallsNamed'
<1>1. job \in [Threads -> Jobs] /\ job' = [job EXCEPT ![t] = next]
  BY DEF TypeInv, TypeOK, Goes
<1>2. \A u \in Threads : Named(job[u], DOMAIN runs)
  BY DEF TypeInv, CallsNamed
<1>3. ASSUME NEW u \in Threads
      PROVE  Named(job'[u], DOMAIN runs')
  <2>1. CASE u = t
    BY <1>1, <2>1
  <2>2. CASE u # t
    BY <1>1, <1>2, <2>2 DEF Named
  <2>. QED BY <2>1, <2>2
<1>. QED BY <1>1, <1>3 DEF CallsNamed

LEMMA DoneType ==
  ASSUME TypeInv, NEW t \in Threads, Done(t), DOMAIN runs \subseteq DOMAIN runs'
  PROVE  job' \in [Threads -> Jobs] /\ CallsNamed'
<1>1. Named(IdleJob, DOMAIN runs')
  BY DEF Named, IdleJob
<1>. QED BY <1>1, BlankTypes, GoesType DEF Done

(* What a call holds, and the run it names. *)
LEMMA JobType ==
  ASSUME TypeInv, NEW t \in Threads
  PROVE  /\ job[t] \in Jobs /\ job[t].body \in Runs /\ job[t].page \in Pages
         /\ job[t].purse \in Purses /\ job[t].adopted \in Cursors /\ job[t].run \in Nat
         /\ job[t].loose \in BOOLEAN /\ job[t].missing \in SUBSET Rows
         /\ job[t].stage \notin {"idle", "starting", "creating"} =>
              job[t].run \in DOMAIN runs /\ runs[job[t].run] \in Runs
<1>1. job[t] \in Jobs
  BY DEF TypeInv, TypeOK
<1>2. job[t].stage \notin {"idle", "starting", "creating"} => job[t].run \in DOMAIN runs
  BY <1>1 DEF TypeInv, CallsNamed, Named, Jobs
<1>. QED BY <1>1, <1>2 DEF Jobs, TypeInv, TypeOK

LEMMA StageType ==
  ASSUME TypeInv, NEW t \in Threads, NEW stage \in Stages, GoesTo(t, stage),
         job[t].stage \notin {"idle", "starting", "creating"}, DOMAIN runs \subseteq DOMAIN runs'
  PROVE  job' \in [Threads -> Jobs] /\ CallsNamed'
<1>. DEFINE next == [job[t] EXCEPT !.stage = stage]
<1>1. next \in Jobs /\ next.run = job[t].run
  BY JobType DEF Jobs
<1>2. Named(next, DOMAIN runs')
  BY <1>1, JobType DEF Named
<1>. QED BY <1>1, <1>2, GoesType DEF GoesTo

LEMMA ClosesType ==
  ASSUME TypeInv, NEW t \in Threads, NEW stage \in Stages, Closes(t, stage),
         job[t].stage \notin {"idle", "starting", "creating"}, DOMAIN runs \subseteq DOMAIN runs'
  PROVE  job' \in [Threads -> Jobs] /\ CallsNamed'
<1>. DEFINE next == [IdleJob EXCEPT !.stage = stage, !.run = job[t].run]
<1>1. next \in Jobs /\ next.run = job[t].run
  BY JobType, BlankTypes DEF Jobs, IdleJob
<1>2. Named(next, DOMAIN runs')
  BY <1>1, JobType DEF Named
<1>. QED BY <1>1, <1>2, GoesType DEF Closes

LEMMA PatchType ==
  ASSUME TypeInv, NEW r, NEW record \in Runs, Patch(r, record)
  PROVE  runs' \in Seq(Runs) /\ DOMAIN runs' = DOMAIN runs
BY ExceptType DEF TypeInv, TypeOK, Patch

LEMMA CountedType ==
  ASSUME TypeInv, NEW r, NEW body \in Runs, r \in DOMAIN runs
  PROVE  Counted(r, body) \in Runs
<1>1. runs[r] \in Runs
  BY DEF TypeInv, TypeOK
<1>. QED BY <1>1 DEF Counted, Runs

LEMMA BeginsType ==
  ASSUME TypeInv, NEW t \in Threads, NEW call \in Jobs, Begins(t, call), Named(call, DOMAIN runs)
  PROVE  TypeInv'
<1>1. raced' \in 0..MaxMishaps
  BY SMTT(20), BoundAssumption DEF TypeInv, TypeOK, Begins
<1>2. runs' = runs /\ Goes(t, call)
  BY DEF Begins, Goes, records
<1>3. job' \in [Threads -> Jobs] /\ CallsNamed'
  BY <1>2, GoesType
<1>. QED BY <1>1, <1>3 DEF TypeInv, TypeOK, Begins, records

LEMMA CallsType ==
  ASSUME TypeInv, NEW kept \in Purses
  PROVE  /\ CallsToday(kept) \in Nat
         /\ SpendFrom(kept) => purse' \in Purses
         /\ Calls => made' \in Nat
<1>1. CallsToday(kept) \in Nat
  BY DEF CallsToday, Purses
<1>2. day \in Nat
  BY DEF TypeInv, TypeOK
<1>3. [day |-> day, calls |-> CallsToday(kept) + 1] \in Purses
  BY <1>1, <1>2 DEF Purses
<1>. QED BY <1>1, <1>3 DEF SpendFrom, Calls, TypeInv, TypeOK

LEMMA LandedType ==
  ASSUME TypeOK, NEW new \in SUBSET Rows, NEW s \in Landed(new)
  PROVE  /\ s \in Seq(Rows)
         /\ {s[i] : i \in DOMAIN s} = Keys \union new
<1>1. IsFiniteSet(new) /\ Cardinality(new) \in Nat
  BY RowsFinite
<1>2. Len(replica) + Cardinality(new) \in Nat
  BY <1>1 DEF TypeOK
<1>3. s \in Seq(Rows)
  BY <1>2, SeqDef DEF Landed
<1>4. PICK place \in [DOMAIN replica -> DOMAIN s] :
        /\ \A i \in DOMAIN replica : s[place[i]] = replica[i]
        /\ new = {s[i] : i \in DOMAIN s \ {place[j] : j \in DOMAIN replica}}
  BY DEF Landed
<1>5. Keys \union new \subseteq {s[i] : i \in DOMAIN s}
  BY <1>4 DEF Keys
<1>6. {s[i] : i \in DOMAIN s} \subseteq Keys \union new
  BY <1>4 DEF Keys
<1>. QED BY <1>3, <1>5, <1>6

(* A window of `size` places after `offset` in `n` places. *)
LEMMA WindowSize ==
  ASSUME NEW n \in Nat, NEW offset \in Nat, NEW size \in Nat
  PROVE  LET window == {i \in 1..n : offset < i /\ i <= offset + size}
         IN Cardinality(window) = IF n <= offset THEN 0
                                  ELSE IF n <= offset + size THEN n - offset ELSE size
<1>. DEFINE window == {i \in 1..n : offset < i /\ i <= offset + size}
<1>. SUFFICES Cardinality(window) = IF n <= offset THEN 0
                                    ELSE IF n <= offset + size THEN n - offset ELSE size
  OBVIOUS
<1>1. CASE n <= offset
  <2>1. window = {}
    BY <1>1
  <2>. QED BY <1>1, <2>1, FS_EmptySet
<1>2. CASE ~(n <= offset) /\ n <= offset + size
  <2>1. window = (offset + 1)..n
    BY <1>2
  <2>2. Cardinality((offset + 1)..n) = n - (offset + 1) + 1
    BY <1>2, FS_Interval
  <2>. HIDE DEF window
  <2>. QED BY <1>2, <2>1, <2>2
<1>3. CASE ~(n <= offset) /\ ~(n <= offset + size)
  <2>1. window = (offset + 1)..(offset + size)
    BY <1>3
  <2>2. Cardinality((offset + 1)..(offset + size)) = size
    <3>1. Cardinality((offset + 1)..(offset + size))
            = IF offset + 1 > offset + size THEN 0 ELSE (offset + size) - (offset + 1) + 1
      BY FS_Interval
    <3>. QED BY <3>1
  <2>. HIDE DEF window
  <2>. QED BY <1>3, <2>1, <2>2
<1>. QED BY <1>1, <1>2, <1>3

(* The places of a page of the replica: as many as a page holds, or up to   *)
(* the last one.                                                            *)
LEMMA WindowPlaces ==
  ASSUME TypeOK, NEW offset \in Nat
  PROVE  LET size == Cardinality(Window(offset))
         IN /\ Listed(offset) \in SUBSET Rows /\ size \in Nat
            /\ \A i \in DOMAIN replica : i <= offset + size <=> i <= offset \/ i \in Window(offset)
            /\ size # PageSize => Len(replica) <= offset + size
            /\ Window(offset) = {} => Len(replica) <= offset
<1>. DEFINE n == Len(replica)
            size == Cardinality(Window(offset))
<1>1. n \in Nat /\ DOMAIN replica = 1..n /\ PageSize \in Nat /\ PageSize > 0
  BY PageAssumption DEF TypeOK
<1>2. Listed(offset) \in SUBSET Rows
  BY RowType DEF Listed, Window, TypeOK
<1>. HIDE DEF n
<1>3. size = IF n <= offset THEN 0 ELSE IF n <= offset + PageSize THEN n - offset ELSE PageSize
  BY <1>1, WindowSize DEF Window
<1>4. \A i \in 1..n : i \in Window(offset) <=> offset < i /\ i <= offset + PageSize
  BY <1>1 DEF Window
<1>5. Window(offset) = {} => n <= offset
  BY <1>1, <1>4
<1>. HIDE DEF size
<1>6. /\ size \in Nat
      /\ size # PageSize => n <= offset + size
      /\ \A i \in 1..n : i <= offset + size <=> i <= offset \/ i \in Window(offset)
  <2>1. CASE n <= offset
    BY <1>1, <1>3, <1>4, <2>1
  <2>2. CASE ~(n <= offset) /\ n <= offset + PageSize
    BY <1>1, <1>3, <1>4, <2>2
  <2>3. CASE ~(n <= offset) /\ ~(n <= offset + PageSize)
    BY <1>1, <1>3, <1>4, <2>3
  <2>. QED BY <2>1, <2>2, <2>3
<1>. QED BY <1>1, <1>2, <1>5, <1>6 DEF size, n

LEMMA InitType == Init => TypeInv
<1>. SUFFICES ASSUME Init PROVE TypeInv
  OBVIOUS
<1>1. 0 \in 0..MaxMishaps /\ [day |-> 0, calls |-> 0] \in Purses
  BY BoundAssumption DEF Purses
<1>2. <<>> \in Seq(Rows) /\ <<>> \in Seq(Runs) /\ <<>> \in Seq([sent : SUBSET Rows, moved : BOOLEAN])
  OBVIOUS
<1>3. 1 \in 1..MaxDays
  BY BoundAssumption
<1>4. job \in [Threads -> Jobs] /\ CallsNamed
  BY BlankTypes DEF Init, CallsNamed, Named, IdleJob
<1>. QED BY <1>1, <1>2, <1>3, <1>4, BlankTypes DEF Init, TypeInv, TypeOK

(* What adopting a cursor leaves of a call. *)
LEMMA AdoptedCall ==
  ASSUME TypeInv, NEW t \in Threads, AdoptCursor(t), ~Done(t)
  PROVE  \E loose \in BOOLEAN :
           Goes(t, [job[t] EXCEPT !.stage = "creating", !.adopted = stored, !.loose = loose])
<1>. DEFINE next == [job[t] EXCEPT
            !.stage = "creating", !.adopted = stored,
            !.loose = @ /\ (\/ stored.kind = "none"
                            \/ stored.kind = "paging_cookie" /\ account.vendor = "hubspot")]
            loose == job[t].loose /\ (\/ stored.kind = "none"
                                      \/ stored.kind = "paging_cookie" /\ account.vendor = "hubspot")
<1>1. loose \in BOOLEAN
  OBVIOUS
<1>2. next = [job[t] EXCEPT !.stage = "creating", !.adopted = stored, !.loose = loose]
  BY JobType DEF Jobs
<1>3. Goes(t, next)
  BY DEF AdoptCursor
<1>. HIDE DEF next, loose
<1>. QED BY <1>1, <1>2, <1>3

(* The steps of start. *)
LEMMA StartTypes ==
  ASSUME TypeInv, NEW t \in Threads,
         \/ AdoptCursor(t) \/ CreateRun(t) \/ OpenSpend(t) \/ CallStart(t) \/ OpenJob(t)
         \/ Decide(t)
  PROVE  TypeInv'
<1>. USE JobType DEF TypeInv
<1>1. CASE AdoptCursor(t)
  <2>1. runs' = runs
    BY <1>1 DEF AdoptCursor, records
  <2>2. ASSUME NEW loose \in BOOLEAN
        PROVE  LET next == [job[t] EXCEPT !.stage = "creating", !.adopted = stored, !.loose = loose]
               IN next \in Jobs /\ Named(next, DOMAIN runs)
    <3>1. stored \in Cursors
      BY DEF TypeOK
    <3>. QED BY ZenonT(40), <3>1 DEF Jobs, Stages, Named
  <2>3. job' \in [Threads -> Jobs] /\ CallsNamed'
    BY <1>1, <2>1, <2>2, AdoptedCall, DoneType, GoesType
  <2>. QED BY <1>1, <2>3 DEF AdoptCursor, TypeOK, records, history
<1>2. CASE CreateRun(t)
  <2>. DEFINE next == [job[t] EXCEPT !.stage = "opening", !.run = Len(runs) + 1]
  <2>1. runs' \in Seq(Runs) /\ outbox' \in Seq([sent : SUBSET Rows, moved : BOOLEAN])
    BY <1>2, AppendType DEF CreateRun, TypeOK
  <2>2. DOMAIN runs \subseteq DOMAIN runs' /\ Len(runs) + 1 \in DOMAIN runs'
    BY <1>2 DEF CreateRun, TypeOK
  <2>3. next \in Jobs /\ Named(next, DOMAIN runs')
    <3>1. Len(runs) + 1 \in Nat
      BY DEF TypeOK
    <3>2. next \in Jobs /\ next.run = Len(runs) + 1
      BY <3>1 DEF Jobs, Stages
    <3>. QED BY <2>2, <3>2 DEF Named
  <2>4. job' \in [Threads -> Jobs] /\ CallsNamed'
    BY <1>2, <2>2, <2>3, DoneType, GoesType DEF CreateRun
  <2>. QED BY <1>2, <2>1, <2>4 DEF CreateRun, TypeOK
<1>3. CASE OpenSpend(t)
  <2>1. job' \in [Threads -> Jobs] /\ CallsNamed'
    BY <1>3, DoneType, StageType DEF OpenSpend, AtStage, Stages
  <2>2. purse' \in Purses
    BY <1>3, CallsType DEF OpenSpend, TypeOK
  <2>. QED BY <1>3, <2>1, <2>2 DEF OpenSpend, TypeOK, history
<1>4. CASE CallStart(t)
  <2>. DEFINE next == [job[t] EXCEPT !.stage = "opened",
                                     !.page = StartPage(job[t].body, job[t].adopted)]
  <2>1. job[t].stage = "calling" /\ job[t].run \in DOMAIN runs
    BY <1>4 DEF CallStart, AtStage
  <2>2. runs' \in Seq(Runs) /\ DOMAIN runs' = DOMAIN runs
    BY <1>4, <2>1, PatchType, CountedType DEF CallStart
  <2>3. next \in Jobs /\ Named(next, DOMAIN runs')
    <3>1. StartPage(job[t].body, job[t].adopted) \in Pages
      BY StartPageType
    <3>. QED BY ZenonT(40), <2>1, <2>2, <3>1 DEF Jobs, Stages, Named
  <2>4. job' \in [Threads -> Jobs] /\ CallsNamed'
    BY <1>4, <2>1, <2>2, <2>3, GoesType, ClosesType DEF CallStart, Stages
  <2>5. made' \in Nat
    BY <1>4, CallsType DEF CallStart, TypeOK
  <2>. QED BY <1>4, <2>2, <2>4, <2>5 DEF CallStart, TypeOK
<1>5. CASE OpenJob(t)
  <2>. DEFINE r == job[t].run
              opened == [runs[r] EXCEPT !.state = "running", !.total = job[t].page.total,
                                        !.processed = job[t].page.processed]
              next == [job[t] EXCEPT !.stage = "deciding", !.body = opened]
  <2>1. job[t].page.total \in Int /\ job[t].page.processed \in Nat
    BY DEF Pages
  <2>2. r \in DOMAIN runs /\ runs[r] \in Runs
    BY <1>5 DEF OpenJob, AtStage
  <2>3. opened \in Runs
    BY <2>1, <2>2 DEF Runs, States
  <2>4. Patch(r, opened) /\ Goes(t, next)
    BY <1>5 DEF OpenJob
  <2>. HIDE DEF opened
  <2>5. runs' \in Seq(Runs) /\ DOMAIN runs' = DOMAIN runs
    BY <2>3, <2>4, PatchType
  <2>6. next \in Jobs /\ Named(next, DOMAIN runs')
    BY ZenonT(40), <2>2, <2>3, <2>5 DEF Jobs, Stages, Named
  <2>7. job' \in [Threads -> Jobs] /\ CallsNamed'
    BY <2>4, <2>5, <2>6, GoesType
  <2>. QED BY <1>5, <2>5, <2>7 DEF OpenJob, TypeOK, history
<1>6. CASE Decide(t)
  <2>. DEFINE again == [job[t] EXCEPT !.stage = "opening", !.again = TRUE]
              on == [IdleJob EXCEPT !.stage = After(job[t].page), !.run = job[t].run,
                                    !.body = job[t].body, !.page = job[t].page]
  <2>1. job[t].stage = "deciding" /\ job[t].run \in DOMAIN runs
    BY <1>6 DEF Decide, AtStage
  <2>2. runs' \in Seq(Runs) /\ DOMAIN runs' = DOMAIN runs
    BY <1>6, <2>1, PatchType, CountedType DEF Decide
  <2>3. again \in Jobs /\ Named(again, DOMAIN runs')
    BY ZenonT(40), <2>1, <2>2 DEF Jobs, Stages, Named
  <2>4. on \in Jobs /\ Named(on, DOMAIN runs')
    <3>1. After(job[t].page) \in Stages
      BY DEF After, Stages
    <3>2. on \in Jobs
      <4>1. job[t].run \in Nat /\ job[t].body \in Runs /\ job[t].page \in Pages
        OBVIOUS
      <4>2. IdleJob \in Jobs
        BY BlankTypes
      <4>. QED BY <3>1, <4>1, <4>2 DEF Jobs
    <3>3. on.run = job[t].run
      BY DEF IdleJob
    <3>. HIDE DEF on
    <3>. QED BY <2>1, <2>2, <3>2, <3>3 DEF Named
  <2>5. job' \in [Threads -> Jobs] /\ CallsNamed'
    BY <1>6, <2>2, <2>3, <2>4, GoesType DEF Decide
  <2>. QED BY <1>6, <2>2, <2>5 DEF Decide, TypeOK, history
<1>. QED BY <1>1, <1>2, <1>3, <1>4, <1>5, <1>6

(* The steps of poll up to the page of the vendor, or of the replica. *)
LEMMA PollTypes ==
  ASSUME TypeInv, NEW t \in Threads,
         \/ ReadConnection(t) \/ CountPoll(t) \/ Charge(t) \/ Ask(t) \/ ListReplica(t)
         \/ Submit(t)
  PROVE  TypeInv'
<1>. USE JobType DEF TypeInv
<1>1. CASE ReadConnection(t)
  <2>. DEFINE next == [job[t] EXCEPT !.stage = "counting", !.purse = purse]
  <2>1. runs' = runs /\ Goes(t, next) /\ job[t].stage = "polling"
    BY <1>1 DEF ReadConnection, records, AtStage
  <2>2. next \in Jobs /\ Named(next, DOMAIN runs')
    <3>1. purse \in Purses
      BY DEF TypeOK
    <3>. QED BY ZenonT(40), <2>1, <3>1 DEF Jobs, Stages, Named
  <2>3. job' \in [Threads -> Jobs] /\ CallsNamed'
    BY <2>1, <2>2, GoesType
  <2>. QED BY <1>1, <2>3 DEF ReadConnection, TypeOK, records, history
<1>2. CASE CountPoll(t)
  <2>. DEFINE polls == IF job[t].body.polls < ReadyAfter THEN job[t].body.polls + 1
                       ELSE job[t].body.polls
              counted == [job[t].body EXCEPT !.polls = polls]
              next == [job[t] EXCEPT !.stage = "charging", !.body = counted]
  <2>1. job[t].stage = "counting" /\ job[t].run \in DOMAIN runs
    BY <1>2 DEF CountPoll, AtStage
  <2>2. counted \in Runs
    BY DEF Runs
  <2>3. Patch(job[t].run, Counted(job[t].run, counted))
        /\ (Closes(t, "stalling") \/ Goes(t, next))
    BY <1>2 DEF CountPoll, Runs
  <2>4. runs' \in Seq(Runs) /\ DOMAIN runs' = DOMAIN runs
    <3>. HIDE DEF counted
    <3>. QED BY <2>1, <2>2, <2>3, PatchType, CountedType
  <2>5. next \in Jobs /\ Named(next, DOMAIN runs')
    <3>. HIDE DEF counted
    <3>. QED BY ZenonT(40), <2>1, <2>2, <2>4 DEF Jobs, Stages, Named
  <2>6. job' \in [Threads -> Jobs] /\ CallsNamed'
    BY <2>1, <2>3, <2>4, <2>5, GoesType, ClosesType DEF Stages
  <2>. QED BY <1>2, <2>4, <2>6 DEF CountPoll, TypeOK, history
<1>3. CASE Charge(t)
  <2>1. job' \in [Threads -> Jobs] /\ CallsNamed'
    BY <1>3, DoneType, StageType DEF Charge, AtStage, Stages
  <2>2. purse' \in Purses
    BY <1>3, CallsType DEF Charge, TypeOK
  <2>. QED BY <1>3, <2>1, <2>2 DEF Charge, TypeOK, history
<1>4. CASE Ask(t)
  <2>. DEFINE page == ReadPage(job[t].body)
              next == [job[t] EXCEPT !.stage = After(page), !.page = page]
  <2>1. job[t].stage = "asking" /\ job[t].run \in DOMAIN runs /\ runs' = runs
    BY <1>4 DEF Ask, AtStage, records
  <2>2. page \in Pages
    BY ReadPageType
  <2>3. Goes(t, next) \/ Closes(t, "breaking")
    BY <1>4 DEF Ask
  <2>4. next \in Jobs /\ Named(next, DOMAIN runs')
    <3>. HIDE DEF page
    <3>. QED BY ZenonT(40), <2>1, <2>2 DEF Jobs, Stages, Named, After
  <2>5. job' \in [Threads -> Jobs] /\ CallsNamed'
    BY <2>1, <2>3, <2>4, GoesType, ClosesType DEF Stages
  <2>6. made' \in Nat
    BY <1>4, CallsType DEF Ask, TypeOK
  <2>. QED BY <1>4, <2>5, <2>6 DEF Ask, TypeOK, records
<1>5. CASE ListReplica(t)
  <2>. DEFINE listed == Listed(job[t].body.seen)
              size == Cardinality(Window(job[t].body.seen))
              page == [NoPage EXCEPT !.rows = listed, !.size = size, !.total = job[t].body.total,
                              !.processed = job[t].body.processed,
                              !.more = size = PageSize]
              next == [job[t] EXCEPT
                         !.pushing = TRUE,
                         !.stage = IF listed = {} THEN "finishing" ELSE "submitting",
                         !.page = page]
  <2>1. job[t].stage = "listing" /\ job[t].run \in DOMAIN runs /\ runs' = runs /\ Goes(t, next)
    BY <1>5 DEF ListReplica, AtStage, records
  <2>2. /\ job[t].body.total \in Int /\ job[t].body.processed \in Nat
        /\ job[t].body.seen \in Nat
    BY DEF Runs
  <2>3. listed \in SUBSET Rows /\ size \in Nat
    BY <2>2, WindowPlaces
  <2>4. page \in Pages
    <3>. HIDE DEF listed, size
    <3>. QED BY <2>2, <2>3, BlankTypes DEF Pages, NoPage
  <2>5. next \in Jobs /\ Named(next, DOMAIN runs')
    <3>. HIDE DEF listed, size, page
    <3>. QED BY ZenonT(40), <2>1, <2>4 DEF Jobs, Stages, Named
  <2>6. job' \in [Threads -> Jobs] /\ CallsNamed'
    BY <2>1, <2>5, GoesType
  <2>. QED BY <1>5, <2>6 DEF ListReplica, TypeOK, records, history
<1>6. CASE Submit(t)
  <2>1. job[t].stage = "submitting" /\ runs' = runs
    BY <1>6 DEF Submit, AtStage, records
  <2>2. outbox' \in Seq([sent : SUBSET Rows, moved : BOOLEAN])
    <3>. DEFINE r == job[t].run
                Sent == [sent : SUBSET Rows, moved : BOOLEAN]
                sent == [outbox[r] EXCEPT !.sent = @ \union job[t].page.rows]
    <3>1. r \in DOMAIN outbox => sent \in Sent
      <4>1. r \in DOMAIN outbox => outbox[r] \in Sent
        <5>1. outbox \in Seq(Sent)
          BY DEF TypeOK
        <5>. HIDE DEF Sent
        <5>. QED BY <5>1, RowType
      <4>. QED BY <4>1 DEF Pages
    <3>2. outbox' = outbox \/ outbox' = [outbox EXCEPT ![r] = sent]
      BY <1>6 DEF Submit
    <3>. HIDE DEF sent, Sent
    <3>3. outbox \in Seq(Sent)
      BY DEF TypeOK, Sent
    <3>. QED BY <3>1, <3>2, <3>3, ExceptType DEF Sent
  <2>3. job' \in [Threads -> Jobs] /\ CallsNamed'
    BY <1>6, <2>1, StageType, ClosesType DEF Submit, Stages
  <2>4. made' \in Nat
    BY <1>6, CallsType DEF Submit, TypeOK
  <2>. QED BY <1>6, <2>2, <2>3, <2>4 DEF Submit, TypeOK, records
<1>. QED BY <1>1, <1>2, <1>3, <1>4, <1>5, <1>6

LEMMA CursorType ==
  ASSUME TypeInv, NEW t \in Threads
  PROVE  NewCursor(t) \in Cursors
<1>1. job[t].page.token \in Int /\ day \in Nat
  BY JobType DEF Pages, TypeInv, TypeOK
<1>. QED BY <1>1 DEF NewCursor, NoCursor, Cursors

(* The steps of a call that ends by patching its run's record. *)
LEMMA EndTypes ==
  ASSUME TypeInv, NEW t \in Threads, NEW record \in Runs,
         Patch(job[t].run, record), Done(t),
         UNCHANGED <<account, purse, replica, stored, rows, day, history>>
  PROVE  TypeInv'
<1>1. runs' \in Seq(Runs) /\ DOMAIN runs' = DOMAIN runs
  BY PatchType
<1>2. job' \in [Threads -> Jobs] /\ CallsNamed'
  BY <1>1, DoneType
<1>. QED BY <1>1, <1>2 DEF TypeInv, TypeOK, history

(* The steps that land a page, and those that end a call. *)
LEMMA LandTypes ==
  ASSUME TypeInv, NEW t \in Threads,
         \/ Look(t) \/ Land(t) \/ Advance(t) \/ PatchRun(t) \/ Wait(t) \/ Finish(t)
         \/ Break(t) \/ Stall(t) \/ CancelRun(t)
  PROVE  TypeInv'
<1>. USE JobType DEF TypeInv
<1>1. CASE Look(t)
  <2>. DEFINE missing == job[t].page.rows \ Keys
              next == [job[t] EXCEPT !.missing = missing,
                                     !.stage = IF missing = {} THEN "advancing" ELSE "landing"]
  <2>1. job[t].stage = "looking" /\ runs' = runs /\ Goes(t, next) /\ job[t].run \in DOMAIN runs
    BY <1>1 DEF Look, AtStage, records
  <2>2. missing \in SUBSET Rows
    BY DEF Pages
  <2>3. next \in Jobs /\ Named(next, DOMAIN runs')
    <3>. HIDE DEF missing
    <3>. QED BY ZenonT(40), <2>1, <2>2 DEF Jobs, Stages, Named
  <2>4. job' \in [Threads -> Jobs] /\ CallsNamed'
    BY <2>1, <2>3, GoesType
  <2>. QED BY <1>1, <2>4 DEF Look, TypeOK, records, history
<1>2. CASE Land(t)
  <2>1. job' \in [Threads -> Jobs] /\ CallsNamed'
    BY <1>2, StageType DEF Land, AtStage, Stages
  <2>2. replica' \in Seq(Rows)
    BY <1>2, LandedType DEF Land
  <2>3. outbox' \in Seq([sent : SUBSET Rows, moved : BOOLEAN])
    <3>. DEFINE Sent == [sent : SUBSET Rows, moved : BOOLEAN]
                moved(r) == [outbox[r] EXCEPT !.moved = TRUE]
    <3>1. DOMAIN outbox = 1..Len(outbox) /\ Len(outbox) \in Nat
      BY DEF TypeOK
    <3>2. ASSUME NEW r \in 1..Len(outbox)
          PROVE  moved(r) \in Sent
      <4>1. outbox[r] \in Sent
        <5>1. outbox \in Seq(Sent)
          BY DEF TypeOK
        <5>. HIDE DEF Sent
        <5>. QED BY <3>1, <5>1, RowType
      <4>. QED BY <4>1
    <3>3. outbox' = [r \in 1..Len(outbox) |-> moved(r)]
      BY <1>2, <3>1 DEF Land
    <3>. HIDE DEF moved, Sent
    <3>4. outbox' \in [1..Len(outbox) -> Sent]
      BY <3>2, <3>3
    <3>5. outbox' \in Seq(Sent)
      BY <3>1, <3>4, SeqDef
    <3>. QED BY <3>5 DEF Sent
  <2>. QED BY <1>2, <2>1, <2>2, <2>3 DEF Land, TypeOK
<1>3. CASE Advance(t)
  <2>1. job' \in [Threads -> Jobs] /\ CallsNamed'
    BY <1>3, StageType DEF Advance, AtStage, Stages
  <2>. QED BY <1>3, <2>1, CursorType DEF Advance, TypeOK, history
<1>4. CASE PatchRun(t)
  <2>. DEFINE r == job[t].run
              page == job[t].page
              record == [runs[r] EXCEPT !.state = IF page.more THEN "running" ELSE "complete",
                                        !.total = page.total, !.processed = page.processed,
                                        !.cursor = NewCursor(t),
                                        !.seen = job[t].body.seen + page.size,
                                        !.polls = job[t].body.polls]
  <2>1. runs[r] \in Runs /\ Patch(r, record) /\ Done(t)
    BY <1>4 DEF PatchRun, AtStage
  <2>2. /\ page.total \in Int /\ page.processed \in Nat /\ job[t].body.polls \in Nat
        /\ job[t].body.seen + page.size \in Nat
    BY DEF Pages, Runs
  <2>3. record \in Runs
    <3>. HIDE DEF page
    <3>. QED BY <2>1, <2>2, CursorType DEF Runs, States
  <2>. HIDE DEF record
  <2>. QED BY <1>4, <2>1, <2>3, EndTypes DEF PatchRun
<1>5. CASE Wait(t)
  <2>1. [runs[job[t].run] EXCEPT !.state = "running",
           !.total = job[t].page.total, !.processed = job[t].page.processed] \in Runs
    BY <1>5 DEF Wait, AtStage, Runs, Pages, States
  <2>. QED BY <1>5, <2>1, EndTypes DEF Wait
<1>6. CASE Finish(t)
  <2>1. Counted(job[t].run, job[t].body) \in Runs
    BY <1>6, CountedType DEF Finish, AtStage
  <2>2. [Counted(job[t].run, job[t].body) EXCEPT !.state = "complete",
           !.total = job[t].page.total, !.processed = job[t].page.processed] \in Runs
    BY <2>1 DEF Runs, Pages, States
  <2>. QED BY <1>6, <2>2, EndTypes DEF Finish
<1>7. CASE Break(t)
  <2>1. [runs[job[t].run] EXCEPT !.state = "failed"] \in Runs
    BY <1>7 DEF Break, AtStage, Runs, States
  <2>. QED BY <1>7, <2>1, EndTypes DEF Break
<1>8. CASE Stall(t)
  <2>1. [runs[job[t].run] EXCEPT !.state = "stalled"] \in Runs
    BY <1>8 DEF Stall, AtStage, Runs, States
  <2>. QED BY <1>8, <2>1, EndTypes DEF Stall
<1>9. CASE CancelRun(t)
  <2>1. [runs[job[t].run] EXCEPT !.state = "cancelled"] \in Runs
    BY <1>9 DEF CancelRun, AtStage, Runs, States
  <2>. QED BY <1>9, <2>1, EndTypes DEF CancelRun
<1>. QED BY <1>1, <1>2, <1>3, <1>4, <1>5, <1>6, <1>7, <1>8, <1>9

(* A call of start begins. *)
LEMMA StartBegins ==
  ASSUME TypeInv, NEW t \in Threads,
         NEW direction \in {"pull", "push"}, NEW start \in ScopeStarts,
         NEW scratch \in BOOLEAN, NEW estimate \in {Unknown} \cup 0..MaxRows,
         Start(t, direction, start, scratch, estimate)
  PROVE  TypeInv'
<1>. USE DEF TypeInv
<1>. DEFINE body == [NoRun EXCEPT !.direction = direction, !.start = start, !.to = rows]
            call == [IdleJob EXCEPT !.stage = IF scratch THEN "creating" ELSE "starting",
                                    !.body = body, !.purse = purse, !.loose = (estimate = Unknown)]
<1>1. start \in Nat /\ rows \in Nat /\ purse \in Purses
  BY BoundAssumption DEF TypeOK
<1>2. body \in Runs
  BY <1>1, BlankTypes DEF Runs
<1>3. call \in Jobs
  <2>. HIDE DEF body
  <2>. QED BY <1>1, <1>2, BlankTypes DEF Jobs, Stages
<1>4. Named(call, DOMAIN runs)
  BY BlankTypes DEF Named, Jobs
<1>5. Begins(t, call)
  BY DEF Start
<1>. QED BY <1>3, <1>4, <1>5, BeginsType

(* The calls about a run. *)
LEMMA PollBegins ==
  ASSUME TypeInv, NEW t \in Threads, NEW r, Poll(t, r) \/ Resume(t, r) \/ Cancel(t, r)
  PROVE  TypeInv'
<1>. USE DEF TypeInv
<1>2. ASSUME r \in DOMAIN runs, NEW stage \in Stages
      PROVE  /\ [Polling(r) EXCEPT !.stage = stage] \in Jobs
             /\ Named([Polling(r) EXCEPT !.stage = stage], DOMAIN runs)
             /\ [IdleJob EXCEPT !.stage = stage, !.run = r] \in Jobs
             /\ Named([IdleJob EXCEPT !.stage = stage, !.run = r], DOMAIN runs)
  <2>1. runs[r] \in Runs /\ r \in Nat
    BY <1>2 DEF TypeOK
  <2>. QED BY <1>2, <2>1, BlankTypes DEF Polling, Jobs, Named
<1>3. CASE Poll(t, r)
  <2>1. [Polling(r) EXCEPT !.stage = "polling"] = Polling(r) /\ "polling" \in Stages
    BY BlankTypes DEF Polling, Jobs, Stages
  <2>. QED BY <1>2, <1>3, <2>1, BeginsType DEF Poll
<1>4. CASE Resume(t, r)
  BY <1>2, <1>4, BeginsType DEF Resume, Stages
<1>5. CASE Cancel(t, r)
  BY <1>2, <1>5, BeginsType DEF Cancel, Stages
<1>. QED BY <1>3, <1>4, <1>5

(* The steps of resume. *)
LEMMA ResumeTypes ==
  ASSUME TypeInv, NEW t \in Threads, CountResume(t) \/ PollResumed(t)
  PROVE  TypeInv'
<1>. USE JobType DEF TypeInv
<1>1. CASE CountResume(t)
  <2>1. job[t].stage = "resuming" /\ job[t].run \in DOMAIN runs
    BY <1>1 DEF CountResume, AtStage
  <2>2. runs' \in Seq(Runs) /\ DOMAIN runs' = DOMAIN runs
    BY <1>1, <2>1, PatchType, CountedType DEF CountResume
  <2>3. job' \in [Threads -> Jobs] /\ CallsNamed'
    BY <1>1, <2>1, <2>2, ClosesType DEF CountResume, Stages
  <2>. QED BY <1>1, <2>2, <2>3 DEF CountResume, TypeOK, history
<1>2. CASE PollResumed(t)
  <2>1. /\ job[t].run \in DOMAIN runs /\ runs[job[t].run] \in Runs /\ job[t].run \in Nat
        /\ runs' = runs
    BY <1>2 DEF PollResumed, AtStage, records
  <2>2. Polling(job[t].run) \in Jobs /\ Named(Polling(job[t].run), DOMAIN runs')
    BY <2>1, BlankTypes DEF Polling, Jobs, Stages, Named
  <2>3. job' \in [Threads -> Jobs] /\ CallsNamed'
    BY <1>2, <2>1, <2>2, DoneType, GoesType DEF PollResumed
  <2>. QED BY <1>2, <2>3 DEF PollResumed, TypeOK, records, history
<1>. QED BY <1>1, <1>2

LEMMA TypeStep == TypeInv /\ [Next]_vars => TypeInv'
<1>. SUFFICES ASSUME TypeInv, [Next]_vars PROVE TypeInv'
  OBVIOUS
<1>1. ASSUME NEW t \in Threads, NEW direction \in {"pull", "push"}, NEW start \in ScopeStarts,
             NEW scratch \in BOOLEAN, NEW estimate \in {Unknown} \cup 0..MaxRows,
             Start(t, direction, start, scratch, estimate)
      PROVE  TypeInv'
  BY <1>1, StartBegins
<1>2. ASSUME NEW t \in Threads, NEW r \in 1..MaxRuns, Poll(t, r) \/ Resume(t, r) \/ Cancel(t, r)
      PROVE  TypeInv'
  BY <1>2, PollBegins
<1>3. ASSUME NEW t \in Threads, Handler(t)
      PROVE  TypeInv'
  BY <1>3, StartTypes, PollTypes, LandTypes, ResumeTypes DEF Handler
<1>4. ASSUME NewRow
      PROVE  TypeInv'
  BY SMTT(20), <1>4, BoundAssumption DEF NewRow, TypeInv, TypeOK, CallsNamed, records, history
<1>5. ASSUME Tick
      PROVE  TypeInv'
  BY <1>5, BoundAssumption DEF Tick, TypeInv, TypeOK, CallsNamed, records
<1>6. ASSUME Crash
      PROVE  TypeInv'
  <2>1. job' \in [Threads -> Jobs] /\ CallsNamed'
    BY <1>6, BlankTypes DEF Crash, CallsNamed, Named, IdleJob
  <2>2. crashes' \in 0..MaxMishaps
    BY <1>6, BoundAssumption DEF Crash, TypeInv, TypeOK
  <2>. QED BY <1>6, <2>1, <2>2 DEF Crash, TypeInv, TypeOK, records
<1>7. CASE UNCHANGED vars
  BY <1>7 DEF vars, records, history, TypeInv, TypeOK, CallsNamed
<1>. QED BY <1>1, <1>2, <1>3, <1>4, <1>5, <1>6, <1>7 DEF Next

(* Type correctness: whatever calls overlap and wherever the process dies,  *)
(* every record, and all that a call holds of the store, has its type.      *)
THEOREM TypeCorrect == Spec => []TypeOK
<1>1. Spec => []TypeInv
  BY InitType, TypeStep, PTL DEF Spec
<1>. QED BY <1>1, PTL DEF TypeInv

-----------------------------------------------------------------------------
(* The resume point.  Rows on their way to the replica are those of a page  *)
(* that is not landed yet; with them, what a page has processed, and the    *)
(* token of a page of a change stream, are within the replica.  All scopes  *)
(* start at the oldest row.                                                 *)

Within(n, keys) == Upto(n) \subseteq keys

Pending(call) ==
  IF call.stage \in {"opened", "deciding", "looking"} THEN call.page.rows
  ELSE IF call.stage = "landing" THEN call.missing ELSE {}

GoodRun(run, vendor, keys) ==
  /\ run.start = 0
  /\ Within(Offset(run.cursor), keys)
  /\ vendor # "dataverse" => Within(run.processed, keys)

GoodPage(page, vendor, keys) ==
  IF vendor = "dataverse" THEN Within(page.token, keys) ELSE Within(page.processed, keys)

GoodJob(call, vendor, keys) ==
  /\ GoodRun(call.body, vendor, keys)
  /\ Within(Offset(call.adopted), keys)
  /\ (call.pushing => vendor # "dataverse")
     => GoodPage(call.page, vendor, keys \union Pending(call))
  /\ (call.stage = "opened" /\ vendor # "dataverse") => Within(call.page.processed, keys)
  /\ call.pushing => call.stage \in {"submitting", "advancing", "patching", "finishing"}

ResumeGood ==
  /\ Within(Offset(stored), Keys)
  /\ \A r \in DOMAIN runs : GoodRun(runs[r], account.vendor, Keys)
  /\ \A t \in Threads : GoodJob(job[t], account.vendor, Keys)

ResumeInv == TypeInv /\ ResumeGood

LEMMA WithinZero ==
  ASSUME NEW n \in Int, n <= 0, NEW keys
  PROVE  Within(n, keys)
BY BoundAssumption DEF Within, Upto, Rows

LEMMA WithinOffset ==
  ASSUME NEW cursor \in Cursors, NEW keys, Within(cursor.at, keys)
  PROVE  Within(Offset(cursor), keys)
BY WithinZero DEF Offset, Cursors

LEMMA WithinLess ==
  ASSUME NEW n \in Int, NEW m \in Int, m <= n, NEW keys, Within(n, keys)
  PROVE  Within(m, keys)
BY BoundAssumption DEF Within, Upto, Rows

LEMMA WithinMore ==
  ASSUME NEW n, NEW keys, NEW more, keys \subseteq more, Within(n, keys)
  PROVE  Within(n, more)
BY DEF Within

(* A replica that grows keeps what was good of a run or of a call. *)
LEMMA GoodMore ==
  ASSUME NEW vendor, NEW keys, NEW more, keys \subseteq more
  PROVE  /\ \A run : GoodRun(run, vendor, keys) => GoodRun(run, vendor, more)
         /\ \A call : GoodJob(call, vendor, keys) => GoodJob(call, vendor, more)
<1>1. \A run : GoodRun(run, vendor, keys) => GoodRun(run, vendor, more)
  BY WithinMore DEF GoodRun
<1>2. ASSUME NEW call, GoodJob(call, vendor, keys)
      PROVE  GoodJob(call, vendor, more)
  <2>1. keys \union Pending(call) \subseteq more \union Pending(call)
    OBVIOUS
  <2>. QED BY <1>1, <1>2, <2>1, WithinMore DEF GoodJob, GoodPage
<1>. QED BY <1>1, <1>2

(* A call that holds a good run and no page. *)
LEMMA BlankGood ==
  ASSUME NEW call \in Jobs, call.page = NoPage, call.adopted = NoCursor, ~call.pushing,
         NEW vendor, NEW keys, GoodRun(call.body, vendor, keys)
  PROVE  GoodJob(call, vendor, keys)
<1>1. Within(Offset(call.adopted), keys)
  BY BlankTypes, WithinZero, WithinOffset DEF NoCursor
<1>2. GoodPage(call.page, vendor, keys \union Pending(call)) /\ Within(call.page.processed, keys)
  BY WithinZero DEF GoodPage, NoPage
<1>. QED BY <1>1, <1>2 DEF GoodJob

LEMMA NoRunGood ==
  ASSUME NEW vendor, NEW keys
  PROVE  GoodRun(NoRun, vendor, keys) /\ GoodJob(IdleJob, vendor, keys)
<1>1. GoodRun(NoRun, vendor, keys)
  BY BlankTypes, WithinZero, WithinOffset DEF GoodRun, NoRun, NoCursor
<1>. QED BY <1>1, BlankTypes, BlankGood DEF IdleJob

(* A page read at an offset within the replica: up to what it has           *)
(* processed, and up to its token, every row is in the replica or in it.    *)
LEMMA PageAtGood ==
  ASSUME NEW run \in Runs, run.start = 0, NEW offset \in Nat, NEW total \in Int, NEW keys,
         Within(offset, keys)
  PROVE  LET page == PageAt(run, offset, total)
         IN /\ Within(page.processed, keys \union page.rows)
            /\ Within(page.token, keys \union page.rows)
<1>. DEFINE processed == offset + Cardinality(RowsAt(run, offset))
            page == PageAt(run, offset, total)
            more == keys \union RowsAt(run, offset)
<1>1. processed \in Nat
  BY RowsAtType
<1>2. Within(processed, more)
  BY PageCovers DEF Within
<1>3. page.processed = processed /\ page.rows = RowsAt(run, offset)
  BY DEF PageAt
<1>4. page.token = IF total # Unknown /\ processed < total THEN processed ELSE total
  BY DEF PageAt
<1>5. Within(page.token, more)
  <2>. HIDE DEF processed, page, more
  <2>1. CASE total # Unknown /\ processed < total
    BY <1>2, <1>4, <2>1
  <2>2. CASE total = Unknown
    BY <1>4, <2>2, WithinZero DEF Unknown
  <2>3. CASE total # Unknown /\ ~(processed < total)
    BY <1>1, <1>2, <1>4, <2>3, WithinLess
  <2>. QED BY <2>1, <2>2, <2>3
<1>. QED BY <1>2, <1>3, <1>5

LEMMA StartPageGood ==
  ASSUME NEW run \in Runs, run.start = 0, NEW adopted \in Cursors, NEW keys,
         Within(Offset(adopted), keys)
  PROVE  LET page == StartPage(run, adopted)
         IN /\ GoodPage(page, account.vendor, keys \union page.rows)
            /\ account.vendor # "dataverse" => Within(page.processed, keys)
<1>1. CASE account.vendor = "dataverse"
  <2>. DEFINE page == PageAt(run, Offset(adopted), InScope(run))
  <2>1. InScope(run) \in Int
    BY DEF InScope, Runs
  <2>2. page \in Pages /\ Within(page.processed, keys \union page.rows)
    BY <2>1, OffsetType, PageAtType, PageAtGood
  <2>3. StartPage(run, adopted) = [page EXCEPT !.token = page.processed]
    BY <1>1 DEF StartPage
  <2>. HIDE DEF page
  <2>. QED BY <1>1, <2>2, <2>3 DEF GoodPage, Pages
<1>2. CASE account.vendor # "dataverse"
  <2>1. StartPage(run, adopted).processed = 0
    BY <1>2 DEF StartPage, NotReady, NoPage, Runs
  <2>. QED BY <1>2, <2>1, WithinZero DEF GoodPage
<1>. QED BY <1>1, <1>2

LEMMA ReadPageGood ==
  ASSUME NEW run \in Runs, NEW keys, GoodRun(run, account.vendor, keys)
  PROVE  LET page == ReadPage(run)
         IN GoodPage(page, account.vendor, keys \union page.rows)
<1>1. /\ InScope(run) \in Int /\ run.total \in Int /\ run.processed \in Nat
      /\ run.cursor \in Cursors /\ Offset(run.cursor) \in Nat
  BY OffsetType DEF InScope, Runs
<1>2. CASE account.vendor = "dataverse"
  BY <1>1, <1>2, PageAtGood DEF ReadPage, GoodPage, GoodRun
<1>3. CASE account.vendor # "dataverse" /\ run.polls < ReadyAfter
  <2>1. ReadPage(run) = NotReady(run) /\ NotReady(run).processed = run.processed
    BY <1>3 DEF ReadPage, NotReady, NoPage
  <2>2. Within(run.processed, keys)
    BY <1>3 DEF GoodRun
  <2>. QED BY <1>3, <2>1, <2>2, WithinMore DEF GoodPage
<1>4. CASE account.vendor # "dataverse" /\ ~(run.polls < ReadyAfter)
  BY <1>1, <1>4, PageAtGood DEF ReadPage, GoodPage, GoodRun
<1>. QED BY <1>2, <1>3, <1>4

(* What a step leaves good: the call it moves, the runs it writes, the      *)
(* resume point.                                                            *)
LEMMA GoodStep ==
  ASSUME ResumeInv, NEW t \in Threads, NEW next, Goes(t, next), account' = account,
         Keys \subseteq Keys', Within(Offset(stored'), Keys'),
         \A r \in DOMAIN runs' : GoodRun(runs'[r], account.vendor, Keys'),
         GoodJob(next, account.vendor, Keys')
  PROVE  ResumeGood'
<1>1. job' = [job EXCEPT ![t] = next] /\ DOMAIN job = Threads
  BY DEF Goes, ResumeInv, TypeInv, TypeOK
<1>2. ASSUME NEW u \in Threads
      PROVE  GoodJob(job'[u], account.vendor, Keys')
  <2>1. CASE u = t
    BY <1>1, <2>1
  <2>2. CASE u # t
    BY <1>1, <2>2, GoodMore DEF ResumeInv, ResumeGood
  <2>. QED BY <2>1, <2>2
<1>. QED BY <1>2 DEF ResumeGood

(* A step that writes neither the replica nor the resume point. *)
LEMMA QuietStep ==
  ASSUME ResumeInv, NEW t \in Threads, NEW next, Goes(t, next),
         UNCHANGED <<account, replica, stored>>,
         \A r \in DOMAIN runs' : GoodRun(runs'[r], account.vendor, Keys),
         GoodJob(next, account.vendor, Keys)
  PROVE  ResumeGood'
<1>1. Keys' = Keys
  BY DEF Keys
<1>. QED BY <1>1, GoodStep DEF ResumeInv, ResumeGood

LEMMA PatchGood ==
  ASSUME ResumeInv, NEW r, NEW record, Patch(r, record), NEW keys, Keys \subseteq keys,
         r \in DOMAIN runs => GoodRun(record, account.vendor, keys)
  PROVE  \A i \in DOMAIN runs' : GoodRun(runs'[i], account.vendor, keys)
<1>1. DOMAIN runs' = DOMAIN runs /\ \A i \in DOMAIN runs : runs'[i] = IF i = r THEN record ELSE runs[i]
  BY DEF Patch
<1>2. \A i \in DOMAIN runs : GoodRun(runs[i], account.vendor, keys)
  BY GoodMore DEF ResumeInv, ResumeGood
<1>. QED BY <1>1, <1>2

(* The counters are no part of what is good of a run. *)
LEMMA CountedGood ==
  ASSUME ResumeInv, NEW r \in DOMAIN runs, NEW body \in Runs
  PROVE  GoodRun(Counted(r, body), account.vendor, Keys)
<1>1. runs[r] \in Runs /\ GoodRun(runs[r], account.vendor, Keys)
  BY DEF ResumeInv, ResumeGood, TypeInv, TypeOK
<1>. QED BY <1>1 DEF Counted, GoodRun, Runs

(* What a call holds that is good. *)
LEMMA JobGood ==
  ASSUME ResumeInv, NEW t \in Threads
  PROVE  /\ GoodJob(job[t], account.vendor, Keys)
         /\ GoodRun(job[t].body, account.vendor, Keys)
         /\ job[t].body.start = 0
         /\ Within(Offset(job[t].adopted), Keys)
         /\ ~job[t].pushing => GoodPage(job[t].page, account.vendor, Keys \union Pending(job[t]))
         /\ (job[t].stage = "opened" /\ account.vendor # "dataverse")
              => Within(job[t].page.processed, Keys)
         /\ job[t].pushing => job[t].stage \in {"submitting", "advancing", "patching", "finishing"}
         /\ \A r \in DOMAIN runs : GoodRun(runs[r], account.vendor, Keys)
         /\ Within(Offset(stored), Keys)
<1>1. /\ GoodJob(job[t], account.vendor, Keys)
      /\ \A r \in DOMAIN runs : GoodRun(runs[r], account.vendor, Keys)
      /\ Within(Offset(stored), Keys)
  BY DEF ResumeInv, ResumeGood
<1>2. /\ GoodRun(job[t].body, account.vendor, Keys)
      /\ Within(Offset(job[t].adopted), Keys)
      /\ ~job[t].pushing => GoodPage(job[t].page, account.vendor, Keys \union Pending(job[t]))
      /\ (job[t].stage = "opened" /\ account.vendor # "dataverse")
           => Within(job[t].page.processed, Keys)
      /\ job[t].pushing => job[t].stage \in {"submitting", "advancing", "patching", "finishing"}
  BY <1>1 DEF GoodJob
<1>3. job[t].body.start = 0
  BY <1>2 DEF GoodRun
<1>. QED BY <1>1, <1>2, <1>3

(* A step that only moves a call on, to one that holds no less. *)
LEMMA DoneGood ==
  ASSUME ResumeInv, NEW t \in Threads, Done(t), UNCHANGED <<account, replica, stored>>,
         \A r \in DOMAIN runs' : GoodRun(runs'[r], account.vendor, Keys)
  PROVE  ResumeGood'
BY QuietStep, NoRunGood DEF Done

LEMMA ClosesGood ==
  ASSUME ResumeInv, NEW t \in Threads, NEW stage \in Stages, Closes(t, stage),
         UNCHANGED <<account, replica, stored>>,
         \A r \in DOMAIN runs' : GoodRun(runs'[r], account.vendor, Keys)
  PROVE  ResumeGood'
<1>. DEFINE next == [IdleJob EXCEPT !.stage = stage, !.run = job[t].run]
<1>1. next \in Jobs /\ next.page = NoPage /\ next.adopted = NoCursor /\ next.body = NoRun
      /\ ~next.pushing
  BY JobType, BlankTypes DEF ResumeInv, Jobs, IdleJob
<1>2. GoodJob(next, account.vendor, Keys)
  BY <1>1, NoRunGood, BlankGood
<1>. QED BY <1>2, QuietStep DEF Closes

(* Moving to another stage keeps what is pending, or drops no row. *)
LEMMA StageGood ==
  ASSUME ResumeInv, NEW t \in Threads, NEW stage \in Stages \ {"opened"}, GoesTo(t, stage),
         job[t].stage \notin {"opened", "deciding", "looking", "landing"},
         job[t].pushing => stage = "advancing",
         UNCHANGED <<account, replica, stored>>,
         \A r \in DOMAIN runs' : GoodRun(runs'[r], account.vendor, Keys)
  PROVE  ResumeGood'
<1>. DEFINE next == [job[t] EXCEPT !.stage = stage]
<1>1. /\ next.body = job[t].body /\ next.adopted = job[t].adopted
      /\ next.page = job[t].page /\ next.pushing = job[t].pushing /\ next.stage = stage
  BY JobType DEF ResumeInv, Jobs
<1>2. Keys \union Pending(job[t]) \subseteq Keys \union Pending(next)
  BY DEF Pending
<1>3. GoodJob(next, account.vendor, Keys)
  <2>. HIDE DEF next
  <2>1. GoodJob(job[t], account.vendor, Keys)
    BY JobGood
  <2>2. (job[t].pushing => account.vendor # "dataverse")
        => GoodPage(next.page, account.vendor, Keys \union Pending(next))
    BY <1>1, <1>2, <2>1, WithinMore DEF GoodJob, GoodPage
  <2>. QED BY <1>1, <2>1, <2>2 DEF GoodJob
<1>. QED BY <1>3, QuietStep DEF GoesTo

(* The steps of start. *)
LEMMA StartGood ==
  ASSUME ResumeInv, NEW t \in Threads,
         \/ AdoptCursor(t) \/ CreateRun(t) \/ OpenSpend(t) \/ CallStart(t) \/ OpenJob(t)
         \/ Decide(t)
  PROVE  ResumeGood'
<1>. USE DEF ResumeInv
<1>1. CASE AdoptCursor(t)
  <2>1. UNCHANGED <<account, replica, stored>> /\ runs' = runs
    BY JobType, JobGood, <1>1 DEF AdoptCursor, records
  <2>2. CASE Done(t)
    BY JobType, JobGood, <2>1, <2>2, DoneGood
  <2>3. CASE ~Done(t)
    <3>1. PICK loose \in BOOLEAN :
            Goes(t, [job[t] EXCEPT !.stage = "creating", !.adopted = stored, !.loose = loose])
      BY <1>1, <2>3, AdoptedCall
    <3>. DEFINE next == [job[t] EXCEPT !.stage = "creating", !.adopted = stored, !.loose = loose]
    <3>2. /\ next.body = job[t].body /\ next.adopted = stored /\ next.page = job[t].page
          /\ ~next.pushing /\ ~job[t].pushing /\ next.stage # "opened"
          /\ Pending(next) = {} /\ Pending(job[t]) = {}
      BY JobType, JobGood, <1>1 DEF AdoptCursor, AtStage, Jobs, Pending
    <3>3. GoodJob(next, account.vendor, Keys)
      <4>. HIDE DEF next
      <4>. QED BY JobType, JobGood, <3>2 DEF GoodJob
    <3>. QED BY JobType, JobGood, <2>1, <3>1, <3>3, QuietStep
  <2>. QED BY JobType, JobGood, <2>2, <2>3
<1>2. CASE CreateRun(t)
  <2>. DEFINE next == [job[t] EXCEPT !.stage = "opening", !.run = Len(runs) + 1]
  <2>1. UNCHANGED <<account, replica, stored>> /\ runs' = Append(runs, job[t].body)
    BY JobType, JobGood, <1>2 DEF CreateRun
  <2>2. \A r \in DOMAIN runs' : GoodRun(runs'[r], account.vendor, Keys)
    <3>1. runs \in Seq(Runs)
      BY JobType, JobGood DEF TypeInv, TypeOK
    <3>2. /\ DOMAIN runs' = 1..Len(runs) + 1 /\ runs'[Len(runs) + 1] = job[t].body
          /\ \A r \in DOMAIN runs : runs'[r] = runs[r]
          /\ DOMAIN runs = 1..Len(runs) /\ Len(runs) \in Nat
      BY JobType, JobGood, <2>1, <3>1
    <3>3. ASSUME NEW r \in DOMAIN runs'
          PROVE  GoodRun(runs'[r], account.vendor, Keys)
      <4>1. CASE r \in DOMAIN runs
        BY <3>2, <4>1, JobGood
      <4>2. CASE r = Len(runs) + 1
        BY <3>2, <4>2, JobGood
      <4>. QED BY <3>2, <4>1, <4>2
    <3>. QED BY <3>3
  <2>3. /\ next.body = job[t].body /\ next.adopted = job[t].adopted /\ next.page = job[t].page
        /\ ~next.pushing /\ ~job[t].pushing /\ next.stage # "opened"
        /\ Pending(next) = {} /\ Pending(job[t]) = {}
    BY JobType, JobGood, <1>2 DEF CreateRun, AtStage, Jobs, Pending
  <2>4. GoodJob(next, account.vendor, Keys)
    <3>. HIDE DEF next
    <3>. QED BY JobType, JobGood, <2>3 DEF GoodJob
  <2>5. Done(t) \/ Goes(t, next)
    BY JobType, JobGood, <1>2 DEF CreateRun
  <2>. QED BY JobType, JobGood, <2>1, <2>2, <2>4, <2>5, DoneGood, QuietStep
<1>3. CASE OpenSpend(t)
  <2>1. /\ UNCHANGED <<account, replica, stored>> /\ runs' = runs /\ job[t].stage = "opening"
        /\ Done(t) \/ GoesTo(t, "calling")
        /\ ~job[t].pushing
    BY JobType, JobGood, <1>3 DEF OpenSpend, AtStage
  <2>. QED BY JobType, JobGood, <2>1, DoneGood, StageGood DEF Stages
<1>4. CASE CallStart(t)
  <2>. DEFINE page == StartPage(job[t].body, job[t].adopted)
              next == [job[t] EXCEPT !.stage = "opened", !.page = page]
  <2>1. /\ UNCHANGED <<account, replica, stored>> /\ job[t].run \in DOMAIN runs
        /\ Goes(t, next) \/ Closes(t, "breaking")
        /\ Patch(job[t].run, Counted(job[t].run, job[t].body))
    BY JobType, JobGood, <1>4 DEF CallStart, AtStage
  <2>2. \A r \in DOMAIN runs' : GoodRun(runs'[r], account.vendor, Keys)
    BY JobType, <2>1, CountedGood, PatchGood
  <2>3. /\ GoodPage(page, account.vendor, Keys \union page.rows)
        /\ account.vendor # "dataverse" => Within(page.processed, Keys)
    <3>1. /\ job[t].body \in Runs /\ job[t].body.start = 0 /\ job[t].adopted \in Cursors
          /\ Within(Offset(job[t].adopted), Keys)
      BY JobType, JobGood
    <3>. QED BY <3>1, StartPageGood
  <2>. HIDE DEF page
  <2>4. /\ next.body = job[t].body /\ next.adopted = job[t].adopted /\ next.page = page
        /\ Pending(next) = page.rows /\ ~next.pushing
    BY JobType, JobGood, <1>4 DEF CallStart, AtStage, Jobs, Pending
  <2>5. GoodJob(next, account.vendor, Keys)
    <3>. HIDE DEF next
    <3>. QED BY JobType, JobGood, <2>3, <2>4 DEF GoodJob
  <2>. QED BY JobType, JobGood, <2>1, <2>2, <2>5, QuietStep, ClosesGood DEF Stages
<1>5. CASE OpenJob(t)
  <2>. DEFINE r == job[t].run
              opened == [runs[r] EXCEPT !.state = "running", !.total = job[t].page.total,
                                        !.processed = job[t].page.processed]
              next == [job[t] EXCEPT !.stage = "deciding", !.body = opened]
  <2>1. /\ UNCHANGED <<account, replica, stored>> /\ job[t].stage = "opened"
        /\ r \in DOMAIN runs /\ runs[r] \in Runs /\ Patch(r, opened) /\ Goes(t, next)
    BY JobType, JobGood, <1>5 DEF OpenJob, AtStage
  <2>2. GoodRun(opened, account.vendor, Keys)
    BY JobType, JobGood, <2>1 DEF GoodRun, GoodJob, Runs
  <2>3. \A i \in DOMAIN runs' : GoodRun(runs'[i], account.vendor, Keys)
    <3>. HIDE DEF opened
    <3>. QED BY JobType, <2>1, <2>2, PatchGood
  <2>4. GoodJob(next, account.vendor, Keys)
    <3>. HIDE DEF opened
    <3>1. /\ next.body = opened /\ next.adopted = job[t].adopted /\ next.page = job[t].page
          /\ ~next.pushing /\ ~job[t].pushing /\ Pending(next) = Pending(job[t])
          /\ next.stage # "opened"
      BY JobType, JobGood, <2>1 DEF Jobs, Pending
    <3>. HIDE DEF next
    <3>. QED BY JobType, JobGood, <2>2, <3>1 DEF GoodJob
  <2>. QED BY JobType, JobGood, <2>1, <2>3, <2>4, QuietStep
<1>6. CASE Decide(t)
  <2>. DEFINE again == [job[t] EXCEPT !.stage = "opening", !.again = TRUE]
              on == [IdleJob EXCEPT !.stage = After(job[t].page), !.run = job[t].run,
                                    !.body = job[t].body, !.page = job[t].page]
  <2>1. /\ UNCHANGED <<account, replica, stored>> /\ job[t].stage = "deciding"
        /\ job[t].run \in DOMAIN runs
        /\ Patch(job[t].run, Counted(job[t].run, job[t].body))
        /\ (Goes(t, again) /\ job[t].page.rows = {}) \/ Goes(t, on)
    BY JobType, JobGood, <1>6 DEF Decide, AtStage, Reconsiders
  <2>2. \A r \in DOMAIN runs' : GoodRun(runs'[r], account.vendor, Keys)
    BY JobType, <2>1, CountedGood, PatchGood
  <2>3. job[t].page.rows = {} => GoodJob(again, account.vendor, Keys)
    <3>1. /\ again.body = job[t].body /\ again.adopted = job[t].adopted
          /\ again.page = job[t].page /\ ~again.pushing /\ ~job[t].pushing
          /\ again.stage # "opened" /\ Pending(again) = {} /\ Pending(job[t]) = job[t].page.rows
      BY JobType, JobGood, <2>1 DEF Jobs, Pending
    <3>. HIDE DEF again
    <3>. QED BY JobType, JobGood, <3>1 DEF GoodJob
  <2>4. GoodJob(on, account.vendor, Keys)
    <3>1. /\ on.body = job[t].body /\ on.adopted = NoCursor /\ on.page = job[t].page
          /\ ~on.pushing /\ on.stage # "opened" /\ Pending(on) = job[t].page.rows
          /\ Pending(job[t]) = job[t].page.rows
      BY JobType, JobGood, <2>1, BlankTypes DEF Jobs, Pending, After, IdleJob
    <3>2. ~job[t].pushing
      BY JobType, JobGood, <2>1
    <3>3. Within(Offset(NoCursor), Keys)
      BY JobType, JobGood, BlankTypes, WithinZero, WithinOffset DEF NoCursor
    <3>. HIDE DEF on
    <3>. QED BY JobType, JobGood, <3>1, <3>2, <3>3 DEF GoodJob
  <2>. QED BY JobType, JobGood, <2>1, <2>2, <2>3, <2>4, QuietStep
<1>. QED BY <1>1, <1>2, <1>3, <1>4, <1>5, <1>6

(* A poll up to the page it reads. *)
LEMMA PollGood ==
  ASSUME ResumeInv, NEW t \in Threads,
         \/ ReadConnection(t) \/ CountPoll(t) \/ Charge(t) \/ Ask(t) \/ ListReplica(t)
         \/ Submit(t)
  PROVE  ResumeGood'
<1>. USE DEF ResumeInv
<1>1. CASE ReadConnection(t)
  <2>. DEFINE next == [job[t] EXCEPT !.stage = "counting", !.purse = purse]
  <2>1. UNCHANGED <<account, replica, stored, runs>> /\ Goes(t, next)
    BY <1>1 DEF ReadConnection, records
  <2>2. /\ next.body = job[t].body /\ next.adopted = job[t].adopted /\ next.page = job[t].page
        /\ ~next.pushing /\ ~job[t].pushing /\ next.stage # "opened"
        /\ Pending(next) = {} /\ Pending(job[t]) = {}
    BY <1>1, JobType, JobGood DEF ReadConnection, AtStage, Jobs, Pending
  <2>3. GoodJob(next, account.vendor, Keys)
    <3>. HIDE DEF next
    <3>. QED BY <2>2, JobGood DEF GoodJob
  <2>. QED BY <2>1, <2>3, JobGood, QuietStep
<1>2. CASE CountPoll(t)
  <2>. DEFINE polls == IF job[t].body.polls < ReadyAfter THEN job[t].body.polls + 1
                       ELSE job[t].body.polls
              counted == [job[t].body EXCEPT !.polls = polls]
              next == [job[t] EXCEPT !.stage = "charging", !.body = counted]
  <2>1. /\ UNCHANGED <<account, replica, stored>> /\ job[t].stage = "counting"
        /\ job[t].run \in DOMAIN runs
    BY <1>2, JobType DEF CountPoll, AtStage
  <2>2. /\ Patch(job[t].run, Counted(job[t].run, counted))
        /\ Closes(t, "stalling") \/ Goes(t, next)
    BY <1>2, JobType DEF CountPoll, Runs
  <2>3. counted \in Runs /\ GoodRun(counted, account.vendor, Keys)
    <3>1. job[t].body \in Runs /\ GoodRun(job[t].body, account.vendor, Keys)
      BY JobType, JobGood
    <3>2. counted \in Runs /\ counted.start = job[t].body.start
          /\ counted.cursor = job[t].body.cursor /\ counted.processed = job[t].body.processed
      BY <3>1 DEF Runs
    <3>. HIDE DEF counted
    <3>. QED BY <3>1, <3>2 DEF GoodRun
  <2>. HIDE DEF counted
  <2>4. \A r \in DOMAIN runs' : GoodRun(runs'[r], account.vendor, Keys)
    BY <2>1, <2>2, <2>3, CountedGood, PatchGood
  <2>5. /\ next.body = counted /\ next.adopted = job[t].adopted /\ next.page = job[t].page
        /\ ~next.pushing /\ ~job[t].pushing /\ next.stage # "opened"
        /\ Pending(next) = {} /\ Pending(job[t]) = {}
    BY <2>1, JobType, JobGood DEF Jobs, Pending
  <2>6. GoodJob(next, account.vendor, Keys)
    <3>. HIDE DEF next
    <3>. QED BY <2>3, <2>5, JobGood DEF GoodJob
  <2>. QED BY <2>1, <2>2, <2>4, <2>6, QuietStep, ClosesGood DEF Stages
<1>3. CASE Charge(t)
  <2>1. /\ UNCHANGED <<account, replica, stored, runs>> /\ job[t].stage = "charging"
        /\ \/ Done(t)
           \/ GoesTo(t, IF job[t].body.direction = "push" THEN "listing" ELSE "asking")
    BY <1>3 DEF Charge, AtStage
  <2>2. ~job[t].pushing
    BY <2>1, JobGood
  <2>. QED BY <2>1, <2>2, JobGood, DoneGood, StageGood DEF Stages
<1>4. CASE Ask(t)
  <2>. DEFINE page == ReadPage(job[t].body)
              next == [job[t] EXCEPT !.stage = After(page), !.page = page]
  <2>1. /\ UNCHANGED <<account, replica, stored, runs>> /\ job[t].stage = "asking"
        /\ Goes(t, next) \/ Closes(t, "breaking")
    BY <1>4 DEF Ask, AtStage, records
  <2>2. GoodPage(page, account.vendor, Keys \union page.rows)
    <3>1. job[t].body \in Runs /\ GoodRun(job[t].body, account.vendor, Keys)
      BY JobType, JobGood
    <3>. QED BY <3>1, ReadPageGood
  <2>. HIDE DEF page
  <2>3. /\ next.body = job[t].body /\ next.adopted = job[t].adopted /\ next.page = page
        /\ ~next.pushing /\ next.stage # "opened" /\ Pending(next) = page.rows
    BY <2>1, JobType, JobGood DEF Jobs, Pending, After
  <2>4. GoodJob(next, account.vendor, Keys)
    <3>. HIDE DEF next
    <3>. QED BY <2>2, <2>3, JobGood DEF GoodJob
  <2>. QED BY <2>1, <2>4, JobGood, QuietStep, ClosesGood DEF Stages
<1>5. CASE ListReplica(t)
  <2>. DEFINE listed == Listed(job[t].body.seen)
              size == Cardinality(Window(job[t].body.seen))
              page == [NoPage EXCEPT !.rows = listed, !.size = size, !.total = job[t].body.total,
                              !.processed = job[t].body.processed,
                              !.more = size = PageSize]
              next == [job[t] EXCEPT
                         !.pushing = TRUE,
                         !.stage = IF listed = {} THEN "finishing" ELSE "submitting",
                         !.page = page]
  <2>1. UNCHANGED <<account, replica, stored, runs>> /\ Goes(t, next)
    BY <1>5 DEF ListReplica, AtStage, records
  <2>2. page.processed = job[t].body.processed
    BY DEF NoPage
  <2>. HIDE DEF listed, size, page
  <2>3. /\ next.body = job[t].body /\ next.adopted = job[t].adopted /\ next.page = page
        /\ next.pushing /\ next.stage \in {"submitting", "finishing"}
    BY JobType DEF Jobs
  <2>4. account.vendor # "dataverse" => Within(page.processed, Keys \union Pending(next))
    <3>1. account.vendor # "dataverse" => Within(job[t].body.processed, Keys)
      <4>1. GoodRun(job[t].body, account.vendor, Keys)
        BY JobGood
      <4>. QED BY <4>1 DEF GoodRun
    <3>2. Keys \subseteq Keys \union Pending(next)
      OBVIOUS
    <3>. HIDE DEF next
    <3>. QED BY <2>2, <3>1, <3>2, WithinMore
  <2>5. GoodJob(next, account.vendor, Keys)
    <3>. HIDE DEF next
    <3>. QED BY <2>3, <2>4, JobGood DEF GoodJob, GoodPage
  <2>. QED BY <2>1, <2>5, JobGood, QuietStep
<1>6. CASE Submit(t)
  <2>1. /\ UNCHANGED <<account, replica, stored, runs>> /\ job[t].stage = "submitting"
        /\ GoesTo(t, "advancing") \/ Closes(t, "breaking")
    BY <1>6 DEF Submit, AtStage, records
  <2>. QED BY <2>1, JobGood, ClosesGood, StageGood DEF Stages
<1>. QED BY <1>1, <1>2, <1>3, <1>4, <1>5, <1>6

LEMMA NewCursorGood ==
  ASSUME ResumeInv, NEW t \in Threads, job[t].stage \in {"advancing", "patching"}
  PROVE  Within(Offset(NewCursor(t)), Keys)
<1>1. NewCursor(t) \in Cursors
  BY CursorType DEF ResumeInv
<1>2. CASE job[t].pushing \/ account.vendor # "dataverse"
  <2>1. NewCursor(t).at = 0
    BY <1>2 DEF NewCursor, NoCursor
  <2>. QED BY <1>1, <2>1, WithinZero, WithinOffset
<1>3. CASE ~job[t].pushing /\ account.vendor = "dataverse"
  <2>1. NewCursor(t).at = job[t].page.token
    BY <1>3 DEF NewCursor
  <2>2. Keys \union Pending(job[t]) = Keys
    BY DEF Pending
  <2>3. Within(job[t].page.token, Keys)
    BY <1>3, <2>2, JobGood DEF GoodPage
  <2>. QED BY <1>1, <2>1, <2>3, WithinOffset
<1>. QED BY <1>2, <1>3

(* What a page has processed is in the replica once it is landed. *)
LEMMA ProcessedGood ==
  ASSUME ResumeInv, NEW t \in Threads,
         job[t].stage \in {"advancing", "patching", "waiting", "finishing"},
         account.vendor # "dataverse"
  PROVE  Within(job[t].page.processed, Keys)
<1>1. Keys \union Pending(job[t]) = Keys
  BY DEF Pending
<1>2. GoodJob(job[t], account.vendor, Keys)
  BY JobGood
<1>. QED BY <1>1, <1>2 DEF GoodJob, GoodPage

(* A call that ends by patching its run's record. *)
LEMMA EndGood ==
  ASSUME ResumeInv, NEW t \in Threads, NEW record, Patch(job[t].run, record), Done(t),
         UNCHANGED <<account, replica, stored>>, GoodRun(record, account.vendor, Keys)
  PROVE  ResumeGood'
BY PatchGood, DoneGood

(* The steps that land a page, and those that end a call. *)
LEMMA LandGood ==
  ASSUME ResumeInv, NEW t \in Threads,
         \/ Look(t) \/ Land(t) \/ Advance(t) \/ PatchRun(t) \/ Wait(t) \/ Finish(t)
         \/ Break(t) \/ Stall(t) \/ CancelRun(t)
  PROVE  ResumeGood'
<1>. USE DEF ResumeInv
<1>1. CASE Look(t)
  <2>. DEFINE missing == job[t].page.rows \ Keys
              next == [job[t] EXCEPT !.missing = missing,
                                     !.stage = IF missing = {} THEN "advancing" ELSE "landing"]
  <2>1. UNCHANGED <<account, replica, stored, runs>> /\ Goes(t, next) /\ job[t].stage = "looking"
    BY <1>1 DEF Look, AtStage, records
  <2>2. /\ next.body = job[t].body /\ next.adopted = job[t].adopted /\ next.page = job[t].page
        /\ ~next.pushing /\ ~job[t].pushing /\ next.stage # "opened"
        /\ Pending(next) = missing /\ Pending(job[t]) = job[t].page.rows
    <3>. HIDE DEF missing
    <3>. QED BY <2>1, JobType, JobGood DEF Jobs, Pending
  <2>3. Keys \union missing = Keys \union job[t].page.rows
    OBVIOUS
  <2>4. GoodJob(next, account.vendor, Keys)
    <3>. HIDE DEF next, missing
    <3>. QED BY <2>2, <2>3, JobGood DEF GoodJob
  <2>. QED BY <2>1, <2>4, JobGood, QuietStep
<1>2. CASE Land(t)
  <2>. DEFINE next == [job[t] EXCEPT !.stage = "advancing"]
  <2>1. /\ UNCHANGED <<account, stored, runs>> /\ Goes(t, next) /\ job[t].stage = "landing"
        /\ replica' \in Landed(job[t].missing)
    BY <1>2 DEF Land, AtStage, GoesTo
  <2>2. Keys' = Keys \union job[t].missing
    <3>1. {replica'[i] : i \in DOMAIN replica'} = Keys \union job[t].missing
      BY <2>1, JobType, LandedType DEF TypeInv
    <3>. QED BY <3>1 DEF Keys
  <2>3. /\ next.body = job[t].body /\ next.adopted = job[t].adopted /\ next.page = job[t].page
        /\ ~next.pushing /\ ~job[t].pushing /\ next.stage # "opened"
        /\ Pending(next) = {} /\ Pending(job[t]) = job[t].missing
    BY <2>1, JobType, JobGood DEF Jobs, Pending
  <2>4. GoodJob(job[t], account.vendor, Keys')
    BY <2>2, JobGood, GoodMore
  <2>5. Keys' \union Pending(next) = Keys \union Pending(job[t])
    BY <2>2, <2>3
  <2>6. GoodPage(job[t].page, account.vendor, Keys \union Pending(job[t]))
    BY <2>3, JobGood
  <2>7. GoodJob(next, account.vendor, Keys')
    <3>. HIDE DEF next
    <3>. QED BY <2>3, <2>4, <2>5, <2>6 DEF GoodJob
  <2>8. Within(Offset(stored'), Keys') /\ \A r \in DOMAIN runs' : GoodRun(runs'[r], account.vendor, Keys')
    BY <2>1, <2>2, JobGood, GoodMore, WithinMore
  <2>. QED BY <2>1, <2>2, <2>7, <2>8, GoodStep
<1>3. CASE Advance(t)
  <2>. DEFINE next == [job[t] EXCEPT !.stage = "patching"]
  <2>1. /\ UNCHANGED <<account, replica, runs>> /\ Goes(t, next) /\ job[t].stage = "advancing"
        /\ stored' = NewCursor(t)
    BY <1>3 DEF Advance, AtStage, GoesTo
  <2>2. Keys' = Keys
    BY <2>1 DEF Keys
  <2>3. /\ next.body = job[t].body /\ next.adopted = job[t].adopted /\ next.page = job[t].page
        /\ next.pushing = job[t].pushing /\ next.stage = "patching"
        /\ Pending(next) = {} /\ Pending(job[t]) = {}
    BY <2>1, JobType DEF Jobs, Pending
  <2>4. GoodJob(next, account.vendor, Keys)
    <3>. HIDE DEF next
    <3>. QED BY <2>3, JobGood DEF GoodJob
  <2>. QED BY <2>1, <2>2, <2>4, JobGood, NewCursorGood, GoodStep
<1>4. CASE PatchRun(t)
  <2>. DEFINE r == job[t].run
              page == job[t].page
              record == [runs[r] EXCEPT !.state = IF page.more THEN "running" ELSE "complete",
                                        !.total = page.total, !.processed = page.processed,
                                        !.cursor = NewCursor(t),
                                        !.seen = job[t].body.seen + page.size,
                                        !.polls = job[t].body.polls]
  <2>1. /\ UNCHANGED <<account, replica, stored>> /\ Patch(r, record) /\ Done(t)
        /\ job[t].stage = "patching" /\ r \in DOMAIN runs /\ runs[r] \in Runs
    BY <1>4, JobType DEF PatchRun, AtStage
  <2>2. record.start = runs[r].start /\ record.processed = page.processed /\ record.cursor = NewCursor(t)
    BY <2>1 DEF Runs
  <2>3. GoodRun(runs[r], account.vendor, Keys)
    BY <2>1, JobGood
  <2>4. GoodRun(record, account.vendor, Keys)
    <3>. HIDE DEF record
    <3>. QED BY <2>1, <2>2, <2>3, NewCursorGood, ProcessedGood DEF GoodRun
  <2>. HIDE DEF record
  <2>. QED BY <2>1, <2>4, EndGood
<1>5. CASE Wait(t)
  <2>. DEFINE r == job[t].run
              record == [runs[r] EXCEPT !.state = "running",
                           !.total = job[t].page.total, !.processed = job[t].page.processed]
  <2>1. /\ UNCHANGED <<account, replica, stored>> /\ Patch(r, record) /\ Done(t)
        /\ job[t].stage = "waiting" /\ r \in DOMAIN runs /\ runs[r] \in Runs
    BY <1>5, JobType DEF Wait, AtStage
  <2>2. GoodRun(runs[r], account.vendor, Keys)
    BY <2>1, JobGood
  <2>3. GoodRun(record, account.vendor, Keys)
    BY <2>1, <2>2, ProcessedGood DEF GoodRun, Runs
  <2>. HIDE DEF record
  <2>. QED BY <2>1, <2>3, EndGood
<1>6. CASE Finish(t)
  <2>. DEFINE r == job[t].run
              kept == Counted(r, job[t].body)
              record == [kept EXCEPT !.state = "complete",
                           !.total = job[t].page.total, !.processed = job[t].page.processed]
  <2>1. /\ UNCHANGED <<account, replica, stored>> /\ Patch(r, record) /\ Done(t)
        /\ job[t].stage = "finishing" /\ r \in DOMAIN runs
    BY <1>6, JobType DEF Finish, AtStage
  <2>2. kept \in Runs /\ GoodRun(kept, account.vendor, Keys)
    BY <2>1, JobType, CountedType, CountedGood
  <2>3. GoodRun(record, account.vendor, Keys)
    <3>. HIDE DEF kept
    <3>. QED BY <2>1, <2>2, ProcessedGood DEF GoodRun, Runs
  <2>. HIDE DEF record
  <2>. QED BY <2>1, <2>3, EndGood
<1>7. ASSUME NEW state, Patch(job[t].run, [runs[job[t].run] EXCEPT !.state = state]), Done(t),
             UNCHANGED <<account, replica, stored>>, job[t].run \in DOMAIN runs
      PROVE  ResumeGood'
  <2>. DEFINE record == [runs[job[t].run] EXCEPT !.state = state]
  <2>1. runs[job[t].run] \in Runs /\ GoodRun(runs[job[t].run], account.vendor, Keys)
    <3>1. runs \in Seq(Runs)
      BY DEF TypeInv, TypeOK
    <3>. QED BY <1>7, <3>1, RowType, JobGood
  <2>2. GoodRun(record, account.vendor, Keys)
    BY <2>1 DEF GoodRun, Runs
  <2>. HIDE DEF record
  <2>. QED BY <1>7, <2>2, EndGood DEF record
<1>8. CASE Break(t)
  BY <1>7, <1>8, JobType DEF Break, AtStage
<1>9. CASE Stall(t)
  BY <1>7, <1>9, JobType DEF Stall, AtStage
<1>10. CASE CancelRun(t)
  BY <1>7, <1>10, JobType DEF CancelRun, AtStage
<1>. QED BY <1>1, <1>2, <1>3, <1>4, <1>5, <1>6, <1>8, <1>9, <1>10

(* A call of start begins: its scope starts at the oldest row. *)
LEMMA StartBeginsGood ==
  ASSUME ResumeInv, ScopeStarts = {0}, NEW t \in Threads,
         NEW direction \in {"pull", "push"}, NEW start \in ScopeStarts,
         NEW scratch \in BOOLEAN, NEW estimate \in {Unknown} \cup 0..MaxRows,
         Start(t, direction, start, scratch, estimate)
  PROVE  ResumeGood'
<1>. DEFINE body == [NoRun EXCEPT !.direction = direction, !.start = start, !.to = rows]
            call == [IdleJob EXCEPT !.stage = IF scratch THEN "creating" ELSE "starting",
                                    !.body = body, !.purse = purse, !.loose = (estimate = Unknown)]
<1>1. rows \in Nat /\ purse \in Purses /\ start = 0
  BY BoundAssumption DEF ResumeInv, TypeInv, TypeOK
<1>2. body \in Runs /\ body.start = 0 /\ body.cursor = NoRun.cursor
      /\ body.processed = NoRun.processed
  BY <1>1, BlankTypes DEF Runs
<1>3. GoodRun(body, account.vendor, Keys)
  <2>. HIDE DEF body
  <2>. QED BY <1>2, NoRunGood DEF GoodRun
<1>4. /\ call \in Jobs /\ call.page = NoPage /\ call.adopted = NoCursor /\ ~call.pushing
      /\ call.body = body
  <2>. HIDE DEF body
  <2>. QED BY <1>1, <1>2, BlankTypes DEF Jobs, Stages, IdleJob
<1>5. GoodJob(call, account.vendor, Keys)
  <2>. HIDE DEF call
  <2>. QED BY <1>3, <1>4, BlankGood
<1>6. Goes(t, call) /\ UNCHANGED <<account, replica, stored, runs>>
  BY DEF Start, Begins, Goes, records
<1>. QED BY <1>5, <1>6, QuietStep, JobGood

(* A call about a run holds the run and no page. *)
LEMMA HeldGood ==
  ASSUME ResumeInv, NEW r \in DOMAIN runs, NEW stage \in Stages
  PROVE  /\ GoodJob(Polling(r), account.vendor, Keys)
         /\ GoodJob([Polling(r) EXCEPT !.stage = stage], account.vendor, Keys)
         /\ GoodJob([IdleJob EXCEPT !.stage = stage, !.run = r], account.vendor, Keys)
<1>1. runs[r] \in Runs /\ r \in Nat /\ GoodRun(runs[r], account.vendor, Keys)
  <2>1. runs \in Seq(Runs)
    BY DEF ResumeInv, TypeInv, TypeOK
  <2>. QED BY <2>1, RowType DEF ResumeInv, ResumeGood
<1>2. /\ Polling(r) \in Jobs /\ Polling(r).page = NoPage /\ Polling(r).adopted = NoCursor
      /\ ~Polling(r).pushing /\ Polling(r).body = runs[r]
  BY <1>1, BlankTypes DEF Polling, Jobs, Stages, IdleJob
<1>3. LET call == [Polling(r) EXCEPT !.stage = stage]
      IN call \in Jobs /\ call.page = NoPage /\ call.adopted = NoCursor
         /\ ~call.pushing /\ call.body = runs[r]
  BY <1>2 DEF Jobs
<1>4. LET call == [IdleJob EXCEPT !.stage = stage, !.run = r]
      IN call \in Jobs /\ call.page = NoPage /\ call.adopted = NoCursor
         /\ ~call.pushing /\ call.body = NoRun
  BY <1>1, BlankTypes DEF IdleJob, Jobs
<1>. QED BY <1>1, <1>2, <1>3, <1>4, NoRunGood, BlankGood

LEMMA PollBeginsGood ==
  ASSUME ResumeInv, NEW t \in Threads, NEW r, Poll(t, r) \/ Resume(t, r) \/ Cancel(t, r)
  PROVE  ResumeGood'
<1>1. UNCHANGED <<account, replica, stored, runs>> /\ r \in DOMAIN runs
  BY DEF Poll, Resume, Cancel, Begins, records
<1>2. \/ Goes(t, Polling(r))
      \/ Goes(t, [Polling(r) EXCEPT !.stage = "resuming"])
      \/ Goes(t, [IdleJob EXCEPT !.stage = "stalling", !.run = r])
      \/ Goes(t, [IdleJob EXCEPT !.stage = "cancelling", !.run = r])
  BY DEF Poll, Resume, Cancel, Begins, Goes
<1>. QED BY <1>1, <1>2, HeldGood, QuietStep, JobGood DEF Stages

(* The steps of resume. *)
LEMMA ResumeStepGood ==
  ASSUME ResumeInv, NEW t \in Threads, CountResume(t) \/ PollResumed(t)
  PROVE  ResumeGood'
<1>. USE DEF ResumeInv
<1>1. CASE CountResume(t)
  <2>1. /\ UNCHANGED <<account, replica, stored>> /\ Closes(t, "repolling")
        /\ Patch(job[t].run, Counted(job[t].run, job[t].body)) /\ job[t].run \in DOMAIN runs
    BY <1>1, JobType DEF CountResume, AtStage
  <2>2. \A r \in DOMAIN runs' : GoodRun(runs'[r], account.vendor, Keys)
    BY <2>1, JobType, CountedGood, PatchGood
  <2>. QED BY <2>1, <2>2, ClosesGood DEF Stages
<1>2. CASE PollResumed(t)
  <2>1. /\ UNCHANGED <<account, replica, stored, runs>> /\ job[t].run \in DOMAIN runs
        /\ Goes(t, Polling(job[t].run)) \/ Done(t)
    BY <1>2, JobType DEF PollResumed, AtStage, records
  <2>. QED BY <2>1, JobGood, HeldGood, QuietStep, DoneGood DEF Stages
<1>. QED BY <1>1, <1>2

LEMMA ResumeInit == Init => ResumeInv
<1>. SUFFICES ASSUME Init PROVE ResumeInv
  OBVIOUS
<1>1. TypeInv
  BY InitType
<1>2. stored = NoCursor /\ runs = <<>> /\ \A t \in Threads : job[t] = IdleJob
  BY DEF Init
<1>3. Within(Offset(stored), Keys)
  BY <1>2, BlankTypes, WithinZero, WithinOffset DEF NoCursor
<1>. QED BY <1>1, <1>2, <1>3, NoRunGood DEF ResumeInv, ResumeGood

LEMMA ResumeStep ==
  ASSUME ScopeStarts = {0}
  PROVE  ResumeInv /\ [Next]_vars => ResumeInv'
<1>. SUFFICES ASSUME ResumeInv, [Next]_vars PROVE ResumeGood'
  BY TypeStep DEF ResumeInv
<1>1. ASSUME NEW t \in Threads, NEW direction \in {"pull", "push"}, NEW start \in ScopeStarts,
             NEW scratch \in BOOLEAN, NEW estimate \in {Unknown} \cup 0..MaxRows,
             Start(t, direction, start, scratch, estimate)
      PROVE  ResumeGood'
  BY <1>1, StartBeginsGood
<1>2. ASSUME NEW t \in Threads, NEW r \in 1..MaxRuns, Poll(t, r) \/ Resume(t, r) \/ Cancel(t, r)
      PROVE  ResumeGood'
  BY <1>2, PollBeginsGood
<1>3. ASSUME NEW t \in Threads, Handler(t)
      PROVE  ResumeGood'
  BY <1>3, StartGood, PollGood, LandGood, ResumeStepGood DEF Handler
<1>4. ASSUME UNCHANGED <<account, replica, stored, runs, job>>
      PROVE  ResumeGood'
  BY <1>4 DEF ResumeInv, ResumeGood, Keys
<1>5. CASE NewRow \/ Tick \/ UNCHANGED vars
  BY <1>4, <1>5 DEF NewRow, Tick, vars, records
<1>6. CASE Crash
  <2>1. UNCHANGED <<account, replica, stored, runs>> /\ \A t \in Threads : job'[t] = IdleJob
    BY <1>6 DEF Crash, records
  <2>. QED BY <2>1, NoRunGood DEF ResumeInv, ResumeGood, Keys
<1>. QED BY <1>1, <1>2, <1>3, <1>5, <1>6 DEF Next

LEMMA ResumeSafe == ResumeInv => CursorNeverSkips
<1>. SUFFICES ASSUME ResumeInv PROVE CursorNeverSkips
  OBVIOUS
<1>1. Upto(Offset(stored)) \subseteq Keys
  BY DEF ResumeInv, ResumeGood, Within
<1>2. ASSUME NEW r \in DOMAIN runs
      PROVE  /\ Read(runs[r], Offset(runs[r].cursor)) \subseteq Keys
             /\ account.vendor # "dataverse" => Read(runs[r], runs[r].processed) \subseteq Keys
  <2>1. GoodRun(runs[r], account.vendor, Keys) /\ runs[r] \in Runs
    <3>1. runs \in Seq(Runs)
      BY DEF ResumeInv, TypeInv, TypeOK
    <3>. QED BY <3>1, RowType DEF ResumeInv, ResumeGood
  <2>2. Offset(runs[r].cursor) \in Nat /\ runs[r].processed \in Nat /\ runs[r].start = 0
    BY <2>1, OffsetType DEF Runs, GoodRun
  <2>3. ASSUME NEW n \in Nat
        PROVE  Read(runs[r], n) \subseteq Upto(n)
    BY <2>2, BoundAssumption DEF Read, Upto, Rows
  <2>. QED BY <2>1, <2>2, <2>3 DEF GoodRun, Within
<1>. QED BY <1>1, <1>2 DEF CursorNeverSkips

(* The resume point, of every run and of the connection, is never ahead of  *)
(* the rows in the replica, whatever calls overlap and wherever the process *)
(* dies, when every scope starts at the oldest row (_advance in engine.py). *)
THEOREM ResumeCorrect == ScopeStarts = {0} => (Spec => []CursorNeverSkips)
<1>. SUFFICES ASSUME ScopeStarts = {0} PROVE Spec => []CursorNeverSkips
  OBVIOUS
<1>1. ResumeInv /\ [Next]_vars => ResumeInv'
  BY ResumeStep
<1>. QED BY <1>1, ResumeInit, ResumeSafe, PTL DEF Spec

-----------------------------------------------------------------------------
(* Calls served one at a time.                                              *)

LEMMA GoesMoves ==
  ASSUME TypeInv, NEW t \in Threads, NEW next, Goes(t, next)
  PROVE  job'[t] = next /\ \A u \in Threads : u # t => job'[u] = job[u]
BY DEF TypeInv, TypeOK, Goes

(* The stage that a call goes to. *)
LEMMA StageMoves ==
  ASSUME TypeInv, NEW t \in Threads
  PROVE  /\ Done(t) => job'[t] = IdleJob /\ job'[t].stage = "idle"
         /\ \A stage : GoesTo(t, stage) =>
              job'[t] = [job[t] EXCEPT !.stage = stage] /\ job'[t].stage = stage
         /\ \A stage : Closes(t, stage) =>
              /\ job'[t] = [IdleJob EXCEPT !.stage = stage, !.run = job[t].run]
              /\ job'[t].stage = stage
         /\ \A next, stage : Goes(t, [next EXCEPT !.stage = stage]) /\ next \in Jobs =>
              job'[t].stage = stage
<1>1. job[t] \in Jobs /\ IdleJob \in Jobs
  BY JobType, BlankTypes
<1>2. Done(t) => job'[t] = IdleJob /\ job'[t].stage = "idle"
  BY GoesMoves DEF Done, IdleJob
<1>3. ASSUME NEW stage, GoesTo(t, stage)
      PROVE  job'[t] = [job[t] EXCEPT !.stage = stage] /\ job'[t].stage = stage
  BY <1>1, <1>3, GoesMoves DEF GoesTo, Jobs
<1>4. ASSUME NEW stage, Closes(t, stage)
      PROVE  /\ job'[t] = [IdleJob EXCEPT !.stage = stage, !.run = job[t].run]
             /\ job'[t].stage = stage
  <2>. DEFINE next == [IdleJob EXCEPT !.stage = stage, !.run = job[t].run]
  <2>1. Goes(t, next) /\ next.stage = stage
    BY <1>1, <1>4 DEF Closes, Jobs
  <2>. HIDE DEF next
  <2>2. job'[t] = next
    BY <2>1, GoesMoves
  <2>. QED BY <2>1, <2>2 DEF next
<1>5. ASSUME NEW next \in Jobs, NEW stage, Goes(t, [next EXCEPT !.stage = stage])
      PROVE  job'[t].stage = stage
  BY <1>5, GoesMoves DEF Jobs
<1>. QED BY <1>2, <1>3, <1>4, <1>5

(* A step of a call moves that call and no other, and starts none. *)
LEMMA HandlerMoves ==
  ASSUME TypeInv, NEW t \in Threads, Handler(t)
  PROVE  /\ job[t].stage # "idle"
         /\ \A u \in Threads : u # t => job'[u] = job[u]
         /\ UNCHANGED <<account, raced, day>>
<1>1. \E next : Goes(t, next)
  <2>1. CASE AdoptCursor(t) \/ CreateRun(t) \/ OpenSpend(t) \/ CallStart(t) \/ OpenJob(t) \/ Decide(t)
    BY <2>1 DEF AdoptCursor, CreateRun, OpenSpend, CallStart, OpenJob, Decide, GoesTo, Done, Closes
  <2>2. CASE \/ ReadConnection(t) \/ CountPoll(t) \/ Charge(t) \/ Ask(t) \/ ListReplica(t)
             \/ Submit(t)
    BY <2>2 DEF ReadConnection, CountPoll, Charge, Ask, ListReplica, Submit, GoesTo, Done, Closes
  <2>3. CASE \/ Look(t) \/ Land(t) \/ Advance(t) \/ PatchRun(t) \/ Wait(t) \/ Finish(t)
             \/ Break(t) \/ Stall(t) \/ CountResume(t) \/ PollResumed(t) \/ CancelRun(t)
    BY <2>3 DEF Look, Land, Advance, PatchRun, Wait, Finish, Break, Stall, CountResume, PollResumed,
                CancelRun, GoesTo, Done, Closes
  <2>. QED BY <2>1, <2>2, <2>3 DEF Handler
<1>2. job[t].stage # "idle" /\ UNCHANGED <<account, raced, day>>
  <2>1. CASE AdoptCursor(t) \/ CreateRun(t) \/ OpenSpend(t) \/ CallStart(t) \/ OpenJob(t) \/ Decide(t)
    BY <2>1 DEF AdoptCursor, CreateRun, OpenSpend, CallStart, OpenJob, Decide, AtStage, records, history
  <2>2. CASE \/ ReadConnection(t) \/ CountPoll(t) \/ Charge(t) \/ Ask(t) \/ ListReplica(t)
             \/ Submit(t)
    BY <2>2 DEF ReadConnection, CountPoll, Charge, Ask, ListReplica, Submit, AtStage, records, history
  <2>3. CASE \/ Look(t) \/ Land(t) \/ Advance(t) \/ PatchRun(t) \/ Wait(t) \/ Finish(t)
             \/ Break(t) \/ Stall(t) \/ CountResume(t) \/ PollResumed(t) \/ CancelRun(t)
    BY <2>3 DEF Look, Land, Advance, PatchRun, Wait, Finish, Break, Stall, CountResume, PollResumed,
                CancelRun, AtStage, records, history
  <2>. QED BY <2>1, <2>2, <2>3 DEF Handler
<1>. QED BY <1>1, <1>2, GoesMoves

Alone == \A t, u \in Threads : (job[t].stage # "idle" /\ job[u].stage # "idle") => t = u

(* What begins a call, or adds a call to those begun during another. *)
LEMMA BeginsMoves ==
  ASSUME TypeInv, [Next]_vars
  PROVE  \/ \E t \in Threads : Handler(t)
         \/ \E t \in Threads : \E call : Begins(t, call)
         \/ Tick
         \/ UNCHANGED <<records, job, day, history>>
         \/ Crash
BY DEF Next, Start, Poll, Resume, Cancel, NewRow, vars

LEMMA AloneStep ==
  ASSUME TypeInv, ~overlapped => Alone, [Next]_vars, ~overlapped'
  PROVE  ~overlapped /\ Alone'
<1>. SUFFICES raced = 0 /\ Alone'
  BY DEF overlapped
<1>1. raced \in Nat /\ raced' \in Nat
  BY TypeStep DEF TypeInv, TypeOK
<1>2. raced' = 0 /\ (raced = 0 => Alone)
  BY <1>1 DEF overlapped
<1>3. ASSUME NEW t \in Threads, Handler(t)
      PROVE  raced = 0 /\ Alone'
  BY <1>2, <1>3, HandlerMoves DEF Alone
<1>4. ASSUME NEW t \in Threads, NEW call, Begins(t, call)
      PROVE  raced = 0 /\ Alone'
  <2>1. Busy = {} /\ raced = 0
    BY <1>1, <1>2, <1>4 DEF Begins
  <2>2. \A u \in Threads : u # t => job'[u] = job[u]
    BY <1>4 DEF Begins, TypeInv, TypeOK
  <2>. QED BY <2>1, <2>2 DEF Alone, Busy
<1>5. CASE Tick \/ UNCHANGED <<records, job, day, history>>
  <2>1. raced' = raced /\ job' = job
    BY <1>5 DEF Tick, history
  <2>. QED BY <1>2, <2>1 DEF Alone
<1>6. CASE Crash
  <2>1. raced' = raced /\ \A u \in Threads : job'[u].stage = "idle"
    BY <1>6 DEF Crash, IdleJob
  <2>. QED BY <1>2, <2>1 DEF Alone
<1>. QED BY <1>3, <1>4, <1>5, <1>6, BeginsMoves

(* The rows of the replica, and those a call is about to land. *)
Unique == Cardinality(Keys) = Len(replica)
Missed == \A t \in Threads : job[t].stage = "landing" => job[t].missing \cap Keys = {}

UniqueInv == TypeInv /\ (~overlapped => Alone /\ Unique /\ Missed)

LEMMA LandedLength ==
  ASSUME TypeOK, Unique, NEW new \in SUBSET Rows, new \cap Keys = {}, NEW s \in Landed(new)
  PROVE  Cardinality({s[i] : i \in DOMAIN s}) = Len(s)
<1>1. /\ IsFiniteSet(new) /\ Cardinality(new) \in Nat
      /\ IsFiniteSet(Keys) /\ Cardinality(Keys) \in Nat
  <2>1. Keys \in SUBSET Rows
    BY RowType DEF Keys, TypeOK
  <2>. QED BY <2>1, RowsFinite
<1>2. Len(s) = Len(replica) + Cardinality(new)
  <2>1. Len(replica) + Cardinality(new) \in Nat
    BY <1>1 DEF TypeOK
  <2>2. DOMAIN s = 1..(Len(replica) + Cardinality(new))
    BY DEF Landed
  <2>3. s \in Seq(Rows)
    BY LandedType
  <2>. QED BY <2>1, <2>2, <2>3, LenProperties
<1>3. {s[i] : i \in DOMAIN s} = Keys \union new
  BY LandedType
<1>4. Cardinality(Keys \union new) = Cardinality(Keys) + Cardinality(new) - Cardinality(Keys \cap new)
  BY <1>1, FS_Union
<1>5. Cardinality(Keys \cap new) = 0
  <2>1. Keys \cap new = {}
    OBVIOUS
  <2>. QED BY <2>1, FS_EmptySet
<1>6. Cardinality(Keys) = Len(replica)
  BY DEF Unique
<1>7. Cardinality(Keys \union new) = Len(s)
  BY <1>1, <1>2, <1>4, <1>5, <1>6
<1>. QED BY <1>3, <1>7

(* Only Land writes the replica, and only Look goes there. *)
LEMMA LandingStep ==
  ASSUME TypeInv, NEW t \in Threads, Handler(t), ~Land(t)
  PROVE  replica' = replica /\ (Look(t) \/ job'[t].stage # "landing")
<1>1. CASE AdoptCursor(t) \/ CreateRun(t) \/ OpenSpend(t) \/ CallStart(t) \/ OpenJob(t) \/ Decide(t)
  <2>1. replica' = replica
    BY <1>1 DEF AdoptCursor, CreateRun, OpenSpend, CallStart, OpenJob, Decide, records
  <2>2. ASSUME AdoptCursor(t)
       PROVE  job'[t].stage \in {"idle", "creating"}
    <3>1. CASE Done(t)
      BY <3>1, StageMoves
    <3>2. CASE ~Done(t)
      <4>1. PICK loose \in BOOLEAN :
              Goes(t, [job[t] EXCEPT !.stage = "creating", !.adopted = stored, !.loose = loose])
        BY <2>2, <3>2, AdoptedCall
      <4>. DEFINE next == [job[t] EXCEPT !.stage = "creating", !.adopted = stored, !.loose = loose]
      <4>2. next.stage = "creating"
        BY JobType DEF Jobs
      <4>. HIDE DEF next
      <4>. QED BY <4>1, <4>2, GoesMoves DEF next
    <3>. QED BY <3>1, <3>2
  <2>3. ASSUME CreateRun(t)
       PROVE  job'[t].stage \in {"idle", "opening"}
    <3>. DEFINE next == [job[t] EXCEPT !.stage = "opening", !.run = Len(runs) + 1]
    <3>1. Goes(t, next) \/ Done(t)
      BY <2>3 DEF CreateRun
    <3>2. next.stage \in {"idle", "opening"}
      BY JobType DEF Jobs, After
    <3>. HIDE DEF next
    <3>. QED BY <3>1, <3>2, GoesMoves, StageMoves
  <2>4. OpenSpend(t) => job'[t].stage \in {"idle", "calling"}
    BY StageMoves DEF OpenSpend
  <2>5. ASSUME CallStart(t)
       PROVE  job'[t].stage \in {"opened", "breaking"}
    <3>. DEFINE page == StartPage(job[t].body, job[t].adopted)
                next == [job[t] EXCEPT !.stage = "opened", !.page = page]
    <3>1. Goes(t, next) \/ Closes(t, "breaking")
      BY <2>5 DEF CallStart
    <3>2. next.stage \in {"opened", "breaking"}
      BY JobType DEF Jobs, After
    <3>. HIDE DEF next
    <3>. QED BY <3>1, <3>2, GoesMoves, StageMoves
  <2>6. OpenJob(t) => job'[t].stage = "deciding"
    BY GoesMoves, JobType DEF OpenJob, Jobs
  <2>7. ASSUME Decide(t)
       PROVE  job'[t].stage \in {"opening", "looking", "waiting", "finishing"}
    <3>. DEFINE again == [job[t] EXCEPT !.stage = "opening", !.again = TRUE]
                on == [IdleJob EXCEPT !.stage = After(job[t].page), !.run = job[t].run,
                                      !.body = job[t].body, !.page = job[t].page]
    <3>1. Goes(t, again) \/ Goes(t, on)
      BY <2>7 DEF Decide
    <3>2. again.stage = "opening" /\ on.stage \in {"looking", "waiting", "finishing"}
      BY JobType, BlankTypes DEF Jobs, After
    <3>. HIDE DEF again, on
    <3>. QED BY <3>1, <3>2, GoesMoves
  <2>. QED BY <1>1, <2>1, <2>2, <2>3, <2>4, <2>5, <2>6, <2>7
<1>2. CASE \/ ReadConnection(t) \/ CountPoll(t) \/ Charge(t) \/ Ask(t) \/ ListReplica(t)
           \/ Submit(t)
  <2>1. replica' = replica
    BY <1>2 DEF ReadConnection, CountPoll, Charge, Ask, ListReplica, Submit, records
  <2>2. ReadConnection(t) => job'[t].stage = "counting"
    BY GoesMoves, JobType DEF ReadConnection, Jobs
  <2>3. ASSUME CountPoll(t)
       PROVE  job'[t].stage \in {"stalling", "charging"}
    <3>. DEFINE counted == [job[t].body EXCEPT !.polls = IF @ < ReadyAfter THEN @ + 1 ELSE @]
                next == [job[t] EXCEPT !.stage = "charging", !.body = counted]
    <3>1. Goes(t, next) \/ Closes(t, "stalling")
      BY <2>3 DEF CountPoll
    <3>2. next.stage \in {"stalling", "charging"}
      BY JobType DEF Jobs, After
    <3>. HIDE DEF next
    <3>. QED BY <3>1, <3>2, GoesMoves, StageMoves
  <2>4. Charge(t) => job'[t].stage \in {"idle", "listing", "asking"}
    BY StageMoves DEF Charge
  <2>5. ASSUME Ask(t)
       PROVE  job'[t].stage \in {"looking", "waiting", "finishing", "breaking"}
    <3>. DEFINE page == ReadPage(job[t].body)
                next == [job[t] EXCEPT !.stage = After(page), !.page = page]
    <3>1. Goes(t, next) \/ Closes(t, "breaking")
      BY <2>5 DEF Ask
    <3>2. next.stage \in {"looking", "waiting", "finishing", "breaking"}
      BY JobType DEF Jobs, After
    <3>. HIDE DEF next
    <3>. QED BY <3>1, <3>2, GoesMoves, StageMoves
  <2>6. ASSUME ListReplica(t)
       PROVE  job'[t].stage \in {"finishing", "submitting"}
    <3>. DEFINE listed == Listed(job[t].body.seen)
                size == Cardinality(Window(job[t].body.seen))
                page == [NoPage EXCEPT !.rows = listed, !.size = size, !.total = job[t].body.total,
                                       !.processed = job[t].body.processed, !.more = size = PageSize]
                next == [job[t] EXCEPT !.pushing = TRUE,
                          !.stage = IF listed = {} THEN "finishing" ELSE "submitting", !.page = page]
    <3>1. Goes(t, next)
      BY <2>6 DEF ListReplica
    <3>2. next.stage \in {"finishing", "submitting"}
      BY JobType DEF Jobs, After
    <3>. HIDE DEF next
    <3>. QED BY <3>1, <3>2, GoesMoves, StageMoves
  <2>7. Submit(t) => job'[t].stage \in {"advancing", "breaking"}
    BY StageMoves DEF Submit
  <2>. QED BY <1>2, <2>1, <2>2, <2>3, <2>4, <2>5, <2>6, <2>7
<1>3. CASE Look(t)
  BY <1>3 DEF Look, records
<1>4. CASE \/ Advance(t) \/ PatchRun(t) \/ Wait(t) \/ Finish(t)
           \/ Break(t) \/ Stall(t) \/ CountResume(t) \/ PollResumed(t) \/ CancelRun(t)
  <2>1. replica' = replica
    BY <1>4 DEF Advance, PatchRun, Wait, Finish, Break, Stall, CountResume, PollResumed,
      CancelRun, records
  <2>2. \/ Done(t) \/ GoesTo(t, "patching") \/ Closes(t, "repolling")
        \/ Goes(t, Polling(job[t].run))
    BY <1>4 DEF Advance, PatchRun, Wait, Finish, Break, Stall, CountResume, PollResumed, CancelRun
  <2>3. Polling(job[t].run).stage = "polling"
    BY DEF Polling, IdleJob
  <2>4. /\ Done(t) => job'[t].stage = "idle"
        /\ GoesTo(t, "patching") => job'[t].stage = "patching"
        /\ Closes(t, "repolling") => job'[t].stage = "repolling"
    BY StageMoves
  <2>5. Goes(t, Polling(job[t].run)) => job'[t].stage # "landing"
    BY <2>3, GoesMoves
  <2>. QED BY <2>1, <2>2, <2>4, <2>5
<1>. QED BY <1>1, <1>2, <1>3, <1>4 DEF Handler

LEMMA UniqueStep == UniqueInv /\ [Next]_vars => UniqueInv'
<1>. SUFFICES ASSUME UniqueInv, [Next]_vars, ~overlapped' PROVE (Unique /\ Missed)'
  BY TypeStep, AloneStep DEF UniqueInv
<1>1. TypeInv /\ Alone /\ Unique /\ Missed /\ Alone'
  BY AloneStep DEF UniqueInv
<1>2. ASSUME replica' = replica, \A t \in Threads : job'[t].stage = "landing" => job'[t] = job[t]
      PROVE  (Unique /\ Missed)'
  <2>1. Keys' = Keys
    BY <1>2 DEF Keys
  <2>. QED BY <1>1, <1>2, <2>1 DEF Unique, Missed
<1>3. ASSUME NEW t \in Threads, Land(t)
      PROVE  (Unique /\ Missed)'
  <2>1. job[t].stage = "landing" /\ replica' \in Landed(job[t].missing) /\ job'[t].stage = "advancing"
    BY <1>1, <1>3, GoesMoves, JobType DEF Land, AtStage, GoesTo, Jobs
  <2>2. job[t].missing \cap Keys = {} /\ job[t].missing \in SUBSET Rows
    BY <1>1, <2>1, JobType DEF Missed
  <2>3. Unique'
    BY <1>1, <2>1, <2>2, LandedLength DEF Unique, Keys, TypeInv
  <2>4. Missed'
    BY <1>1, <2>1 DEF Missed, Alone
  <2>. QED BY <2>3, <2>4
<1>4. ASSUME NEW t \in Threads, Look(t)
      PROVE  (Unique /\ Missed)'
  <2>1. /\ replica' = replica /\ job'[t].missing = job[t].page.rows \ Keys
        /\ \A u \in Threads : u # t => job'[u] = job[u]
    <3>. DEFINE missing == job[t].page.rows \ Keys
                next == [job[t] EXCEPT !.missing = missing,
                                       !.stage = IF missing = {} THEN "advancing" ELSE "landing"]
    <3>1. replica' = replica /\ Goes(t, next)
      BY <1>4 DEF Look, records
    <3>2. next.missing = missing
      BY <1>1, JobType DEF Jobs
    <3>. QED BY <1>1, <3>1, <3>2, GoesMoves
  <2>2. Keys' = Keys
    BY <2>1 DEF Keys
  <2>3. Missed'
    BY <1>1, <2>1, <2>2 DEF Missed
  <2>. QED BY <1>1, <2>1, <2>2, <2>3 DEF Unique
<1>5. ASSUME NEW t \in Threads, Handler(t)
      PROVE  (Unique /\ Missed)'
  <2>1. CASE ~Land(t) /\ ~Look(t)
    BY <1>1, <1>2, <1>5, <2>1, LandingStep, HandlerMoves
  <2>. QED BY <1>3, <1>4, <2>1
<1>6. ASSUME NEW t \in Threads, NEW call, Begins(t, call), call.stage # "landing"
      PROVE  (Unique /\ Missed)'
  <2>1. replica' = replica /\ Goes(t, call)
    BY <1>6 DEF Begins, Goes, records
  <2>. QED BY <1>1, <1>2, <1>6, <2>1, GoesMoves
<1>7. ASSUME NEW t \in Threads, NEW direction \in {"pull", "push"}, NEW start \in ScopeStarts,
             NEW scratch \in BOOLEAN, NEW estimate \in {Unknown} \cup 0..MaxRows,
             Start(t, direction, start, scratch, estimate)
      PROVE  (Unique /\ Missed)'
  <2>. DEFINE body == [NoRun EXCEPT !.direction = direction, !.start = start, !.to = rows]
              call == [IdleJob EXCEPT !.stage = IF scratch THEN "creating" ELSE "starting",
                                      !.body = body, !.purse = purse, !.loose = (estimate = Unknown)]
  <2>1. Begins(t, call)
    BY <1>7 DEF Start
  <2>2. call.stage # "landing"
    BY DEF IdleJob
  <2>. HIDE DEF call
  <2>. QED BY <1>6, <2>1, <2>2
<1>8. ASSUME NEW t \in Threads, NEW r, Poll(t, r) \/ Resume(t, r) \/ Cancel(t, r)
      PROVE  (Unique /\ Missed)'
  BY <1>6, <1>8 DEF Poll, Resume, Cancel, Polling, IdleJob
<1>9. CASE NewRow \/ Tick \/ UNCHANGED vars
  BY <1>2, <1>9 DEF NewRow, Tick, vars, records
<1>10. CASE Crash
  BY <1>2, <1>10 DEF Crash, records, IdleJob
<1>. QED BY <1>5, <1>7, <1>8, <1>9, <1>10 DEF Next

(* Served one at a time, a row has one record in the replica: a page is     *)
(* landed without the rows the replica was seen to have, and nobody lands   *)
(* any in between, crashes and repeated pages included (_land).             *)
THEOREM UniqueCorrect == Spec => []NoDuplicates
<1>1. Init => UniqueInv
  <2>. SUFFICES ASSUME Init PROVE UniqueInv
    OBVIOUS
  <2>1. TypeInv
    BY InitType
  <2>2. Keys = {} /\ Len(replica) = 0 /\ \A t \in Threads : job[t] = IdleJob
    BY DEF Init, Keys
  <2>. QED BY <2>1, <2>2, FS_EmptySet DEF UniqueInv, Unique, Missed, Alone, IdleJob
<1>2. UniqueInv => NoDuplicates
  BY DEF UniqueInv, Unique, NoDuplicates
<1>. QED BY <1>1, <1>2, UniqueStep, PTL DEF Spec

-----------------------------------------------------------------------------
(* The quota.  What a purse has counted on a day, and the calls it has to   *)
(* account for: all that were made but one of each run, which may be made   *)
(* without a charge when its job is reopened.  A call that charged the      *)
(* purse and has not asked the vendor yet owes the day one call, and one    *)
(* whose job may still be reopened another; until it charges, a call's      *)
(* purse is the stored one, and until its job is open, the stored one is    *)
(* its own with the call it charged.                                        *)

CountOf(kept, today) == IF kept.day = today THEN kept.calls ELSE 0
Net == made - Len(runs)

Owes(call) ==
  \/ call.stage \in {"asking", "listing", "submitting", "opening", "calling"}
  \/ call.stage \in {"opened", "deciding"} /\ ~call.again
OwesTwo(call) == call.stage = "calling" /\ ~call.again

Uncharged(call) ==
  \/ call.stage \in {"starting", "creating", "counting", "charging"}
  \/ call.stage = "opening" /\ ~call.again

Opening(call) ==
  \/ call.stage \in {"calling", "opened", "deciding"}
  \/ call.stage = "opening" /\ call.again

Charged(call, kept, today, calls) ==
  /\ call.again => call.stage \in {"opening", "calling", "opened", "deciding"}
  /\ Uncharged(call) => call.purse = kept
  /\ Opening(call) => kept = [day |-> today, calls |-> CountOf(call.purse, today) + 1]
  /\ Owes(call) => calls < CountOf(kept, today)
  /\ OwesTwo(call) => calls + 1 < CountOf(kept, today)

Afforded(kept, today, calls, limit) ==
  /\ kept.day <= today
  /\ calls <= CountOf(kept, today)
  /\ CountOf(kept, today) <= limit

Quota ==
  /\ Afforded(purse, day, Net, account.limit)
  /\ \A t \in Threads : Charged(job[t], purse, day, Net)

QuotaInv == TypeInv /\ (~overlapped => Alone /\ (account.limited => Quota))

LEMMA CountType ==
  ASSUME NEW kept \in Purses, NEW today \in Nat
  PROVE  CountOf(kept, today) \in Nat /\ CallsToday(kept) = CountOf(kept, day)
BY DEF CountOf, CallsToday, Purses

LEMMA NetType == TypeInv => Net \in Int /\ made \in Nat /\ Len(runs) \in Nat
BY DEF TypeInv, TypeOK, Net

(* Only a new run and a call to the vendor change what is to be accounted   *)
(* for.                                                                     *)
LEMMA NetStays ==
  ASSUME TypeInv, made' = made, runs' = runs \/ \E r, record : Patch(r, record)
  PROVE  Net' = Net
<1>1. \A r, record : Len([runs EXCEPT ![r] = record]) = Len(runs)
  BY DEF TypeInv, TypeOK
<1>. QED BY <1>1 DEF Patch, Net

LEMMA NetCalls ==
  ASSUME TypeInv, account.limited, Calls, runs' = runs \/ \E r, record : Patch(r, record)
  PROVE  Net' = Net + 1
<1>1. \A r, record : Len([runs EXCEPT ![r] = record]) = Len(runs)
  BY DEF TypeInv, TypeOK
<1>2. Len(runs') = Len(runs) /\ made' = made + 1
  BY <1>1 DEF Patch, Calls
<1>. QED BY <1>2, NetType DEF Net

LEMMA NetHandler ==
  ASSUME TypeInv, NEW t \in Threads,
         \/ AdoptCursor(t) \/ OpenSpend(t) \/ OpenJob(t) \/ Decide(t)
         \/ ReadConnection(t) \/ CountPoll(t) \/ Charge(t) \/ ListReplica(t)
         \/ Look(t) \/ Land(t) \/ Advance(t) \/ PatchRun(t) \/ Wait(t) \/ Finish(t)
         \/ Break(t) \/ Stall(t) \/ CountResume(t) \/ PollResumed(t) \/ CancelRun(t)
  PROVE  Net' = Net
<1>1. made' = made /\ (runs' = runs \/ \E r, record : Patch(r, record))
  <2>1. CASE AdoptCursor(t) \/ OpenSpend(t) \/ OpenJob(t) \/ Decide(t)
    BY <2>1 DEF AdoptCursor, OpenSpend, OpenJob, Decide, records, history
  <2>2. CASE ReadConnection(t) \/ CountPoll(t) \/ Charge(t) \/ ListReplica(t)
    BY <2>2 DEF ReadConnection, CountPoll, Charge, ListReplica, records, history
  <2>3. CASE \/ Look(t) \/ Land(t) \/ Advance(t) \/ PatchRun(t) \/ Wait(t) \/ Finish(t)
             \/ Break(t) \/ Stall(t) \/ CountResume(t) \/ PollResumed(t) \/ CancelRun(t)
    BY <2>3 DEF Look, Land, Advance, PatchRun, Wait, Finish, Break, Stall, CountResume,
                PollResumed, CancelRun, records, history
  <2>. QED BY <2>1, <2>2, <2>3
<1>. QED BY <1>1, NetStays

(* A call past its charge and its question, or at rest. *)
LEMMA PlainCharged ==
  ASSUME NEW call, ~call.again, NEW kept, NEW today, NEW calls,
         call.stage \notin {"starting", "creating", "counting", "charging", "opening", "calling",
                            "opened", "deciding", "asking", "listing", "submitting"}
  PROVE  Charged(call, kept, today, calls)
BY DEF Charged, Owes, OwesTwo, Uncharged, Opening

LEMMA IdleCharged ==
  ASSUME NEW call, call.stage = "idle", NEW kept, NEW today, NEW calls,
         Charged(call, kept, today, calls)
  PROVE  \A kept2, today2, calls2 : Charged(call, kept2, today2, calls2)
BY DEF Charged, Owes, OwesTwo, Uncharged, Opening

LEMMA RestCharged ==
  ASSUME NEW kept, NEW today, NEW calls, NEW stage,
         stage \notin {"starting", "creating", "counting", "charging", "opening", "calling",
                       "opened", "deciding", "asking", "listing", "submitting"}
  PROVE  /\ Charged(IdleJob, kept, today, calls)
         /\ \A r : Charged([IdleJob EXCEPT !.stage = stage, !.run = r], kept, today, calls)
<1>1. Charged(IdleJob, kept, today, calls)
  BY PlainCharged DEF IdleJob
<1>2. ASSUME NEW r
      PROVE  Charged([IdleJob EXCEPT !.stage = stage, !.run = r], kept, today, calls)
  <2>. DEFINE call == [IdleJob EXCEPT !.stage = stage, !.run = r]
  <2>1. ~call.again /\ call.stage = stage
    BY DEF IdleJob
  <2>. HIDE DEF call
  <2>2. Charged(call, kept, today, calls)
    BY <2>1, PlainCharged
  <2>. QED BY <2>2 DEF call
<1>. QED BY <1>1, <1>2

(* A step of the one call there is. *)
LEMMA QuotaMoves ==
  ASSUME QuotaInv, Alone, Quota, NEW t \in Threads, NEW next, Goes(t, next),
         job[t].stage # "idle", account' = account,
         Afforded(purse', day', Net', account.limit), Charged(next, purse', day', Net')
  PROVE  Quota'
<1>1. job'[t] = next /\ \A u \in Threads : u # t => job'[u] = job[u]
  BY GoesMoves DEF QuotaInv
<1>2. ASSUME NEW u \in Threads
      PROVE  Charged(job'[u], purse', day', Net')
  <2>1. CASE u = t
    BY <1>1, <2>1
  <2>2. CASE u # t
    <3>1. job[u].stage = "idle" /\ Charged(job[u], purse, day, Net)
      BY <2>2 DEF Alone, Quota
    <3>2. job'[u] = job[u]
      BY <1>1, <2>2
    <3>. QED BY <3>1, <3>2, IdleCharged
  <2>. QED BY <2>1, <2>2
<1>. QED BY <1>2 DEF Quota

(* A step that neither charges nor asks. *)
LEMMA QuotaQuiet ==
  ASSUME QuotaInv, Alone, Quota, NEW t \in Threads, NEW next, Goes(t, next),
         job[t].stage # "idle", UNCHANGED <<account, purse, day, Net>>,
         Charged(next, purse, day, Net)
  PROVE  Quota'
BY QuotaMoves DEF Quota

LEMMA QuotaDone ==
  ASSUME QuotaInv, Alone, Quota, NEW t \in Threads, Done(t),
         job[t].stage # "idle", UNCHANGED <<account, purse, day, Net>>
  PROVE  Quota'
<1>1. Charged(IdleJob, purse, day, Net)
  BY PlainCharged DEF IdleJob
<1>. QED BY <1>1, QuotaQuiet DEF Done

LEMMA QuotaCloses ==
  ASSUME QuotaInv, Alone, Quota, NEW t \in Threads,
         NEW stage \in {"breaking", "stalling", "repolling"}, Closes(t, stage),
         job[t].stage # "idle", UNCHANGED <<account, purse, day, Net>>
  PROVE  Quota'
BY QuotaQuiet, RestCharged DEF Closes

(* Charging the purse. *)
LEMMA SpendKept ==
  ASSUME QuotaInv, Quota, NEW kept \in Purses, account.limited, ~Spent(kept), SpendFrom(kept),
         UNCHANGED <<account, day, Net>>,
         Net <= CountOf(kept, day)
  PROVE  /\ Afforded(purse', day', Net', account.limit)
         /\ purse' = [day |-> day, calls |-> CountOf(kept, day) + 1]
         /\ Net < CountOf(purse', day)
         /\ Net < CountOf(kept, day) => Net + 1 < CountOf(purse', day)
<1>1. day \in Nat /\ Net \in Int /\ account.limit \in Int
  BY AccountAssumption, NetType DEF QuotaInv, TypeInv, TypeOK
<1>2. CountOf(kept, day) \in Nat /\ CallsToday(kept) = CountOf(kept, day)
  BY <1>1, CountType
<1>3. CountOf(kept, day) < account.limit
  BY <1>1, <1>2 DEF Spent, Remaining
<1>4. purse' = [day |-> day, calls |-> CountOf(kept, day) + 1]
  BY <1>2 DEF SpendFrom
<1>5. CountOf(purse', day) = CountOf(kept, day) + 1 /\ purse'.day = day
  BY <1>4 DEF CountOf
<1>. QED BY <1>1, <1>2, <1>3, <1>4, <1>5 DEF Afforded

(* Asking the vendor. *)
LEMMA CallKept ==
  ASSUME QuotaInv, Quota, account.limited, Net' = Net + 1, UNCHANGED <<account, day, purse>>,
         Net < CountOf(purse, day)
  PROVE  Afforded(purse', day', Net', account.limit)
<1>1. day \in Nat /\ Net \in Int /\ purse \in Purses
  BY NetType DEF QuotaInv, TypeInv, TypeOK
<1>2. CountOf(purse, day) \in Nat
  BY <1>1, CountType
<1>3. Net' = Net + 1
  OBVIOUS
<1>. QED BY <1>1, <1>2, <1>3 DEF Afforded, Quota

(* The steps of start. *)
LEMMA StartQuota ==
  ASSUME QuotaInv, Alone, Quota, account.limited, NEW t \in Threads,
         \/ AdoptCursor(t) \/ CreateRun(t) \/ OpenSpend(t) \/ CallStart(t) \/ OpenJob(t)
         \/ Decide(t)
  PROVE  Quota'
<1>. DEFINE call == job[t]
<1>0. /\ call \in Jobs /\ call.purse \in Purses /\ TypeInv
      /\ Charged(call, purse, day, Net)
  BY JobType DEF QuotaInv, Quota
<1>1. CASE AdoptCursor(t)
  <2>0. Net' = Net
    BY <1>0, <1>1, NetHandler
  <2>1. UNCHANGED <<account, purse, day, Net>> /\ call.stage = "starting"
    BY <1>1, <2>0 DEF AdoptCursor, AtStage, records, history
  <2>2. CASE Done(t)
    BY <2>1, <2>2, QuotaDone
  <2>3. CASE ~Done(t)
    <3>1. PICK loose \in BOOLEAN :
            Goes(t, [call EXCEPT !.stage = "creating", !.adopted = stored, !.loose = loose])
      BY <1>0, <1>1, <2>3, AdoptedCall
    <3>. DEFINE next == [call EXCEPT !.stage = "creating", !.adopted = stored, !.loose = loose]
    <3>2. next.again = call.again /\ next.stage = "creating" /\ next.purse = call.purse
      BY <1>0 DEF Jobs
    <3>. HIDE DEF next
    <3>3. Charged(next, purse, day, Net)
      BY <1>0, <2>1, <3>2 DEF Charged, Owes, OwesTwo, Uncharged, Opening
    <3>4. Goes(t, next)
      BY <3>1 DEF next
    <3>. QED BY <2>1, <3>3, <3>4, QuotaQuiet
  <2>. QED BY <2>2, <2>3
<1>2. CASE CreateRun(t)
  <2>. DEFINE next == [call EXCEPT !.stage = "opening", !.run = Len(runs) + 1]
  <2>1. /\ UNCHANGED <<account, purse, day, made>> /\ call.stage = "creating"
        /\ runs' = Append(runs, call.body)
        /\ Goes(t, IdleJob) \/ Goes(t, next)
    BY <1>2 DEF CreateRun, AtStage, Done
  <2>2. next.again = call.again /\ next.stage = "opening" /\ next.purse = call.purse
    BY <1>0 DEF Jobs
  <2>. HIDE DEF next
  <2>3. Net' = Net - 1
    <3>1. Len(runs') = Len(runs) + 1
      BY <1>0, <2>1 DEF TypeInv, TypeOK
    <3>. QED BY <1>0, <2>1, <3>1, NetType DEF Net
  <2>4. Net \in Int /\ CountOf(purse, day) \in Nat /\ Net <= CountOf(purse, day)
    BY <1>0, NetType, CountType DEF TypeInv, TypeOK, Quota, Afforded
  <2>5. Net' < CountOf(purse, day) /\ Net' <= CountOf(purse, day)
    BY <2>3, <2>4
  <2>6. Afforded(purse', day', Net', account.limit)
    BY <2>1, <2>5 DEF Quota, Afforded
  <2>7. Charged(next, purse', day', Net')
    BY <1>0, <2>1, <2>2, <2>5 DEF Charged, Owes, OwesTwo, Uncharged, Opening
  <2>8. Charged(IdleJob, purse', day', Net')
    BY PlainCharged DEF IdleJob
  <2>. QED BY <2>1, <2>6, <2>7, <2>8, QuotaMoves
<1>3. CASE OpenSpend(t)
  <2>0. Net' = Net
    BY <1>0, <1>3, NetHandler
  <2>1. UNCHANGED <<account, day, Net>> /\ call.stage = "opening"
    BY <1>3, <2>0 DEF OpenSpend, AtStage, history
  <2>2. CASE Spent(call.purse)
    BY <1>3, <2>1, <2>2, QuotaDone DEF OpenSpend
  <2>3. CASE ~Spent(call.purse)
    <3>. DEFINE next == [call EXCEPT !.stage = "calling"]
    <3>1. Goes(t, next) /\ SpendFrom(call.purse)
      BY <1>3, <2>3 DEF OpenSpend, GoesTo
    <3>2. next.again = call.again /\ next.stage = "calling" /\ next.purse = call.purse
      BY <1>0 DEF Jobs
    <3>. HIDE DEF next
    <3>3. day \in Nat /\ purse \in Purses /\ Net < CountOf(purse, day)
      BY <1>0, <2>1 DEF TypeInv, TypeOK, Charged, Owes
    <3>4. CASE ~call.again
      <4>1. call.purse = purse
        BY <1>0, <2>1, <3>4 DEF Charged, Uncharged
      <4>2. Net <= CountOf(call.purse, day)
        BY <4>1 DEF Quota, Afforded
      <4>3. /\ Afforded(purse', day', Net', account.limit)
            /\ purse' = [day |-> day, calls |-> CountOf(call.purse, day) + 1]
            /\ Net < CountOf(purse', day) /\ Net + 1 < CountOf(purse', day)
        BY <1>0, <2>1, <2>3, <3>1, <3>3, <4>1, <4>2, SpendKept
      <4>4. Charged(next, purse', day', Net')
        BY <2>1, <3>2, <4>3 DEF Charged, Owes, OwesTwo, Uncharged, Opening
      <4>. QED BY <2>1, <3>1, <4>3, <4>4, QuotaMoves
    <3>5. CASE call.again
      <4>1. purse = [day |-> day, calls |-> CountOf(call.purse, day) + 1]
        BY <1>0, <2>1, <3>5 DEF Charged, Opening
      <4>2. purse' = purse
        BY <1>0, <3>1, <4>1, CountType DEF SpendFrom, CountOf, CallsToday
      <4>3. Charged(next, purse, day, Net)
        BY <3>2, <3>3, <3>5, <4>1 DEF Charged, Owes, OwesTwo, Uncharged, Opening
      <4>. QED BY <2>1, <3>1, <4>2, <4>3, QuotaQuiet
    <3>. QED BY <3>4, <3>5
  <2>. QED BY <2>2, <2>3
<1>4. CASE CallStart(t)
  <2>. DEFINE page == StartPage(call.body, call.adopted)
              next == [call EXCEPT !.stage = "opened", !.page = page]
              closed == [IdleJob EXCEPT !.stage = "breaking", !.run = call.run]
  <2>1. /\ UNCHANGED <<account, purse, day>> /\ call.stage = "calling"
        /\ Calls /\ \E r, record : Patch(r, record)
        /\ Goes(t, next) \/ Goes(t, closed)
    BY <1>4 DEF CallStart, AtStage, Closes
  <2>2. next.again = call.again /\ next.stage = "opened" /\ next.purse = call.purse
    BY <1>0 DEF Jobs
  <2>3. Charged(closed, purse', day', Net')
    BY RestCharged
  <2>. HIDE DEF next, closed
  <2>4. Net' = Net + 1 /\ Net \in Int
    BY <1>0, <2>1, NetCalls, NetType
  <2>5. Net < CountOf(purse, day) /\ (~call.again => Net + 1 < CountOf(purse, day))
    BY <1>0, <2>1 DEF Charged, Owes, OwesTwo
  <2>6. Charged(next, purse', day', Net')
    BY <1>0, <2>1, <2>2, <2>4, <2>5 DEF Charged, Owes, OwesTwo, Uncharged, Opening
  <2>7. Afforded(purse', day', Net', account.limit)
    BY <2>1, <2>4, <2>5, CallKept
  <2>. QED BY <2>1, <2>3, <2>6, <2>7, QuotaMoves
<1>5. CASE OpenJob(t)
  <2>. DEFINE opened == [runs[call.run] EXCEPT !.state = "running", !.total = call.page.total,
                                               !.processed = call.page.processed]
              next == [call EXCEPT !.stage = "deciding", !.body = opened]
  <2>0. Net' = Net
    BY <1>0, <1>5, NetHandler
  <2>1. UNCHANGED <<account, purse, day, Net>> /\ call.stage = "opened" /\ Goes(t, next)
    BY <1>5, <2>0 DEF OpenJob, AtStage, history
  <2>2. next.again = call.again /\ next.stage = "deciding" /\ next.purse = call.purse
    BY <1>0 DEF Jobs
  <2>. HIDE DEF next
  <2>3. Charged(next, purse, day, Net)
    BY <1>0, <2>1, <2>2 DEF Charged, Owes, OwesTwo, Uncharged, Opening
  <2>. QED BY <2>1, <2>3, QuotaQuiet
<1>6. CASE Decide(t)
  <2>. DEFINE again == [call EXCEPT !.stage = "opening", !.again = TRUE]
              on == [IdleJob EXCEPT !.stage = After(call.page), !.run = call.run,
                                    !.body = call.body, !.page = call.page]
  <2>0. Net' = Net
    BY <1>0, <1>6, NetHandler
  <2>1. /\ UNCHANGED <<account, purse, day, Net>> /\ call.stage = "deciding"
        /\ (Goes(t, again) /\ ~call.again) \/ Goes(t, on)
    BY <1>6, <2>0 DEF Decide, AtStage, history, Reconsiders
  <2>2. again.again /\ again.stage = "opening" /\ again.purse = call.purse
    BY <1>0 DEF Jobs
  <2>3. ~on.again /\ on.stage \in {"looking", "waiting", "finishing"}
    BY DEF IdleJob, After
  <2>. HIDE DEF again, on
  <2>4. ~call.again => Charged(again, purse, day, Net)
    BY <1>0, <2>1, <2>2 DEF Charged, Owes, OwesTwo, Uncharged, Opening
  <2>5. Charged(on, purse, day, Net)
    BY <2>3, PlainCharged
  <2>. QED BY <2>1, <2>4, <2>5, QuotaQuiet
<1>. QED BY <1>1, <1>2, <1>3, <1>4, <1>5, <1>6

(* The steps of poll up to the page. *)
LEMMA PollQuota ==
  ASSUME QuotaInv, Alone, Quota, account.limited, NEW t \in Threads,
         \/ ReadConnection(t) \/ CountPoll(t) \/ Charge(t) \/ Ask(t) \/ ListReplica(t)
         \/ Submit(t)
  PROVE  Quota'
<1>. DEFINE call == job[t]
<1>0. /\ call \in Jobs /\ call.purse \in Purses /\ TypeInv
      /\ Charged(call, purse, day, Net)
      /\ call.stage \in {"polling", "counting", "charging", "asking", "listing", "submitting"}
           => ~call.again
  BY JobType DEF QuotaInv, Quota, Charged
<1>1. CASE ReadConnection(t)
  <2>. DEFINE next == [call EXCEPT !.stage = "counting", !.purse = purse]
  <2>0. Net' = Net
    BY <1>0, <1>1, NetHandler
  <2>1. UNCHANGED <<account, purse, day, Net>> /\ call.stage = "polling" /\ Goes(t, next)
    BY <1>1, <2>0 DEF ReadConnection, AtStage, records, history
  <2>2. next.again = call.again /\ next.stage = "counting" /\ next.purse = purse
    BY <1>0 DEF Jobs
  <2>. HIDE DEF next
  <2>3. Charged(next, purse, day, Net)
    BY <1>0, <2>1, <2>2 DEF Charged, Owes, OwesTwo, Uncharged, Opening
  <2>. QED BY <2>1, <2>3, QuotaQuiet
<1>2. CASE CountPoll(t)
  <2>. DEFINE counted == [call.body EXCEPT !.polls = IF @ < ReadyAfter THEN @ + 1 ELSE @]
              next == [call EXCEPT !.stage = "charging", !.body = counted]
  <2>0. Net' = Net
    BY <1>0, <1>2, NetHandler
  <2>1. /\ UNCHANGED <<account, purse, day, Net>> /\ call.stage = "counting"
        /\ Closes(t, "stalling") \/ Goes(t, next)
    BY <1>2, <2>0 DEF CountPoll, AtStage, history
  <2>2. next.again = call.again /\ next.stage = "charging" /\ next.purse = call.purse
    BY <1>0 DEF Jobs
  <2>. HIDE DEF next
  <2>3. Charged(next, purse, day, Net)
    BY <1>0, <2>1, <2>2 DEF Charged, Owes, OwesTwo, Uncharged, Opening
  <2>. QED BY <2>1, <2>3, QuotaQuiet, QuotaCloses
<1>3. CASE Charge(t)
  <2>0. Net' = Net
    BY <1>0, <1>3, NetHandler
  <2>1. UNCHANGED <<account, day, Net>> /\ call.stage = "charging"
    BY <1>3, <2>0 DEF Charge, AtStage, history
  <2>2. CASE Spent(call.purse)
    BY <1>3, <2>1, <2>2, QuotaDone DEF Charge
  <2>3. CASE ~Spent(call.purse)
    <3>1. PICK stage \in {"listing", "asking"} : GoesTo(t, stage)
      BY <1>3, <2>3 DEF Charge
    <3>. DEFINE next == [call EXCEPT !.stage = stage]
    <3>2. Goes(t, next) /\ SpendFrom(call.purse)
      BY <1>3, <2>3, <3>1 DEF Charge, GoesTo
    <3>3. next.again = call.again /\ next.stage = stage
      BY <1>0 DEF Jobs
    <3>. HIDE DEF next
    <3>4. call.purse = purse
      BY <1>0, <2>1 DEF Charged, Uncharged
    <3>5. Net <= CountOf(call.purse, day)
      BY <3>4 DEF Quota, Afforded
    <3>6. /\ Afforded(purse', day', Net', account.limit)
          /\ Net < CountOf(purse', day)
      BY <1>0, <2>1, <2>3, <3>2, <3>5, SpendKept
    <3>7. Charged(next, purse', day', Net')
      BY <1>0, <2>1, <3>1, <3>3, <3>6 DEF Charged, Owes, OwesTwo, Uncharged, Opening
    <3>. QED BY <2>1, <3>2, <3>6, <3>7, QuotaMoves
  <2>. QED BY <2>2, <2>3
<1>4. CASE Ask(t)
  <2>. DEFINE page == ReadPage(call.body)
              next == [call EXCEPT !.stage = After(page), !.page = page]
              closed == [IdleJob EXCEPT !.stage = "breaking", !.run = call.run]
  <2>1. /\ UNCHANGED <<account, purse, day, runs>> /\ call.stage = "asking" /\ Calls
        /\ Goes(t, next) \/ Goes(t, closed)
    BY <1>4 DEF Ask, AtStage, Closes, records
  <2>2. next.again = call.again /\ next.stage \in {"looking", "waiting", "finishing"}
    BY <1>0 DEF Jobs, After
  <2>3. Charged(closed, purse', day', Net')
    BY RestCharged
  <2>. HIDE DEF next, closed
  <2>4. Charged(next, purse', day', Net')
    BY <1>0, <2>1, <2>2, PlainCharged
  <2>5. Net < CountOf(purse, day) /\ Net' = Net + 1
    BY <1>0, <2>1, NetCalls DEF Charged, Owes
  <2>6. Afforded(purse', day', Net', account.limit)
    BY <2>1, <2>5, CallKept
  <2>. QED BY <2>1, <2>3, <2>4, <2>6, QuotaMoves
<1>5. CASE ListReplica(t)
  <2>. DEFINE listed == Listed(call.body.seen)
              size == Cardinality(Window(call.body.seen))
              page == [NoPage EXCEPT !.rows = listed, !.size = size, !.total = call.body.total,
                                     !.processed = call.body.processed, !.more = size = PageSize]
              next == [call EXCEPT !.pushing = TRUE,
                         !.stage = IF listed = {} THEN "finishing" ELSE "submitting", !.page = page]
  <2>0. Net' = Net
    BY <1>0, <1>5, NetHandler
  <2>1. UNCHANGED <<account, purse, day, Net>> /\ call.stage = "listing" /\ Goes(t, next)
    BY <1>5, <2>0 DEF ListReplica, AtStage, records, history
  <2>. HIDE DEF listed, size, page
  <2>2. next.again = call.again /\ next.stage \in {"finishing", "submitting"}
    BY <1>0 DEF Jobs
  <2>. HIDE DEF next
  <2>3. Charged(next, purse, day, Net)
    BY <1>0, <2>1, <2>2 DEF Charged, Owes, OwesTwo, Uncharged, Opening
  <2>. QED BY <2>1, <2>3, QuotaQuiet
<1>6. CASE Submit(t)
  <2>1. PICK next : /\ Goes(t, next) /\ ~next.again
                    /\ next.stage \in {"advancing", "breaking"}
    <3>1. [call EXCEPT !.stage = "advancing"].again = call.again
          /\ [call EXCEPT !.stage = "advancing"].stage = "advancing"
      BY <1>0 DEF Jobs
    <3>2. LET closed == [IdleJob EXCEPT !.stage = "breaking", !.run = call.run]
          IN ~closed.again /\ closed.stage = "breaking"
      BY DEF IdleJob
    <3>3. call.stage = "submitting" /\ (GoesTo(t, "advancing") \/ Closes(t, "breaking"))
      BY <1>6 DEF Submit, AtStage
    <3>. QED BY <1>0, <3>1, <3>2, <3>3 DEF GoesTo, Closes
  <2>2. UNCHANGED <<account, purse, day, runs>> /\ call.stage = "submitting" /\ Calls
    BY <1>6 DEF Submit, AtStage, records
  <2>3. Net < CountOf(purse, day) /\ Net' = Net + 1
    BY <1>0, <2>2, NetCalls DEF Charged, Owes
  <2>4. Afforded(purse', day', Net', account.limit)
    BY <2>2, <2>3, CallKept
  <2>5. Charged(next, purse', day', Net')
    BY <2>1, PlainCharged
  <2>. QED BY <2>1, <2>2, <2>4, <2>5, QuotaMoves
<1>. QED BY <1>1, <1>2, <1>3, <1>4, <1>5, <1>6

(* The steps that land a page, those that end a call, and those of resume. *)
LEMMA LandQuota ==
  ASSUME QuotaInv, Alone, Quota, NEW t \in Threads,
         \/ Look(t) \/ Land(t) \/ Advance(t) \/ PatchRun(t) \/ Wait(t) \/ Finish(t)
         \/ Break(t) \/ Stall(t) \/ CountResume(t) \/ PollResumed(t) \/ CancelRun(t)
  PROVE  Quota'
<1>0. job[t] \in Jobs /\ Charged(job[t], purse, day, Net)
  BY JobType DEF QuotaInv, Quota
<1>1. ASSUME NEW next, next.again = job[t].again, next.stage \in {"advancing", "landing", "patching"},
             Goes(t, next), job[t].stage \in {"looking", "landing", "advancing"},
             UNCHANGED <<account, purse, day, Net>>
      PROVE  Quota'
  <2>1. ~next.again
    BY <1>0, <1>1 DEF Charged
  <2>2. Charged(next, purse, day, Net)
    BY <1>1, <2>1, PlainCharged
  <2>. QED BY <1>1, <2>2, QuotaQuiet
<1>2. CASE Look(t)
  <2>. DEFINE missing == job[t].page.rows \ Keys
              next == [job[t] EXCEPT !.missing = missing,
                                     !.stage = IF missing = {} THEN "advancing" ELSE "landing"]
  <2>0. Net' = Net
    BY <1>0, <1>2, NetHandler DEF QuotaInv
  <2>1. UNCHANGED <<account, purse, day, Net>> /\ job[t].stage = "looking" /\ Goes(t, next)
    BY <1>2, <2>0 DEF Look, AtStage, records, history
  <2>. HIDE DEF missing
  <2>2. next.again = job[t].again /\ next.stage \in {"advancing", "landing"}
    BY <1>0 DEF Jobs
  <2>. HIDE DEF next
  <2>. QED BY <1>1, <2>1, <2>2
<1>3. CASE Land(t) \/ Advance(t)
  <2>1. PICK stage \in {"advancing", "patching"} : Goes(t, [job[t] EXCEPT !.stage = stage])
    BY <1>3 DEF Land, Advance, GoesTo
  <2>. DEFINE next == [job[t] EXCEPT !.stage = stage]
  <2>2. next.again = job[t].again /\ next.stage = stage
    BY <1>0 DEF Jobs
  <2>0. Net' = Net
    BY <1>0, <1>3, NetHandler DEF QuotaInv
  <2>3. UNCHANGED <<account, purse, day, Net>> /\ job[t].stage \in {"landing", "advancing"}
    BY <1>3, <2>0 DEF Land, Advance, AtStage, history
  <2>4. Goes(t, next)
    BY <2>1
  <2>. HIDE DEF next
  <2>. QED BY <1>1, <2>1, <2>2, <2>3, <2>4
<1>4. CASE PatchRun(t) \/ Wait(t) \/ Finish(t) \/ Break(t) \/ Stall(t) \/ CancelRun(t)
  <2>0. Net' = Net
    BY <1>0, <1>4, NetHandler DEF QuotaInv
  <2>1. UNCHANGED <<account, purse, day, Net>> /\ job[t].stage # "idle" /\ Done(t)
    BY <1>4, <2>0 DEF PatchRun, Wait, Finish, Break, Stall, CancelRun, AtStage, history
  <2>. QED BY <2>1, QuotaDone
<1>5. CASE CountResume(t)
  <2>0. Net' = Net
    BY <1>0, <1>5, NetHandler DEF QuotaInv
  <2>1. UNCHANGED <<account, purse, day, Net>> /\ job[t].stage # "idle" /\ Closes(t, "repolling")
    BY <1>5, <2>0 DEF CountResume, AtStage, history
  <2>. QED BY <2>1, QuotaCloses
<1>6. CASE PollResumed(t)
  <2>0. Net' = Net
    BY <1>0, <1>6, NetHandler DEF QuotaInv
  <2>1. /\ UNCHANGED <<account, purse, day, Net>> /\ job[t].stage # "idle"
        /\ Done(t) \/ Goes(t, Polling(job[t].run))
    BY <1>6, <2>0 DEF PollResumed, AtStage, records, history
  <2>2. Charged(Polling(job[t].run), purse, day, Net)
    <3>1. ~Polling(job[t].run).again /\ Polling(job[t].run).stage = "polling"
      BY DEF Polling, IdleJob
    <3>. QED BY <3>1, PlainCharged
  <2>. QED BY <2>1, <2>2, QuotaDone, QuotaQuiet
<1>. QED BY <1>2, <1>3, <1>4, <1>5, <1>6

(* A call begins while no other one is served. *)
LEMMA BeginsQuota ==
  ASSUME QuotaInv, Quota, Alone', NEW t \in Threads, NEW call, Begins(t, call),
         Charged(call, purse, day, Net), Busy = {}
  PROVE  Quota'
<1>1. /\ job'[t] = call /\ \A u \in Threads : u # t => job'[u] = job[u]
      /\ UNCHANGED <<account, purse, day, Net>>
  BY GoesMoves DEF QuotaInv, Begins, Goes, records, Net
<1>2. ASSUME NEW u \in Threads
      PROVE  Charged(job'[u], purse, day, Net)
  <2>1. CASE u = t
    BY <1>1, <2>1
  <2>2. CASE u # t
    BY <1>1, <2>2 DEF Quota
  <2>. QED BY <2>1, <2>2
<1>. QED BY <1>1, <1>2 DEF Quota

LEMMA QuotaStep == QuotaInv /\ [Next]_vars => QuotaInv'
<1>. SUFFICES ASSUME QuotaInv, [Next]_vars, ~overlapped', account'.limited PROVE Quota'
  BY TypeStep, AloneStep DEF QuotaInv
<1>0. account' = account
  <2>1. UNCHANGED account \/ \E t \in Threads : Handler(t)
    BY BeginsMoves DEF QuotaInv, Begins, Tick, Crash, records
  <2>. QED BY <2>1, HandlerMoves DEF QuotaInv
<1>1. TypeInv /\ Alone /\ Quota /\ Alone' /\ account.limited /\ ~overlapped
  BY <1>0, AloneStep DEF QuotaInv
<1>2. ASSUME NEW t \in Threads, Handler(t)
      PROVE  Quota'
  BY <1>1, <1>2, StartQuota, PollQuota, LandQuota DEF Handler
<1>3. ASSUME NEW t \in Threads, NEW call, Begins(t, call), Charged(call, purse, day, Net)
      PROVE  Quota'
  <2>1. Busy = {}
    <3>1. raced' = 0 /\ raced = 0
      BY <1>1, TypeStep DEF overlapped, TypeInv, TypeOK
    <3>. QED BY <1>3, <3>1 DEF Begins
  <2>. QED BY <1>1, <1>3, <2>1, BeginsQuota
<1>4. ASSUME NEW t \in Threads, NEW direction \in {"pull", "push"}, NEW start \in ScopeStarts,
             NEW scratch \in BOOLEAN, NEW estimate \in {Unknown} \cup 0..MaxRows,
             Start(t, direction, start, scratch, estimate)
      PROVE  Quota'
  <2>. DEFINE body == [NoRun EXCEPT !.direction = direction, !.start = start, !.to = rows]
              call == [IdleJob EXCEPT !.stage = IF scratch THEN "creating" ELSE "starting",
                                      !.body = body, !.purse = purse, !.loose = (estimate = Unknown)]
  <2>1. Begins(t, call)
    BY <1>4 DEF Start
  <2>. HIDE DEF body
  <2>2. ~call.again /\ call.stage \in {"creating", "starting"} /\ call.purse = purse
    BY DEF IdleJob
  <2>. HIDE DEF call
  <2>3. Charged(call, purse, day, Net)
    BY <2>2 DEF Charged, Owes, OwesTwo, Uncharged, Opening
  <2>. QED BY <1>3, <2>1, <2>3
<1>5. ASSUME NEW t \in Threads, NEW r, Poll(t, r) \/ Resume(t, r) \/ Cancel(t, r)
      PROVE  Quota'
  <2>1. \/ Begins(t, Polling(r))
        \/ Begins(t, [Polling(r) EXCEPT !.stage = "resuming"])
        \/ Begins(t, [IdleJob EXCEPT !.stage = "stalling", !.run = r])
        \/ Begins(t, [IdleJob EXCEPT !.stage = "cancelling", !.run = r])
    BY <1>5 DEF Poll, Resume, Cancel
  <2>2. Charged(Polling(r), purse, day, Net)
    <3>1. ~Polling(r).again /\ Polling(r).stage = "polling"
      BY DEF Polling, IdleJob
    <3>. QED BY <3>1, PlainCharged
  <2>3. Charged([Polling(r) EXCEPT !.stage = "resuming"], purse, day, Net)
    <3>. DEFINE call == [Polling(r) EXCEPT !.stage = "resuming"]
    <3>1. ~call.again /\ call.stage = "resuming"
      BY DEF Polling, IdleJob
    <3>. HIDE DEF call
    <3>2. Charged(call, purse, day, Net)
      BY <3>1, PlainCharged
    <3>. QED BY <3>2 DEF call
  <2>4. /\ Charged([IdleJob EXCEPT !.stage = "stalling", !.run = r], purse, day, Net)
        /\ Charged([IdleJob EXCEPT !.stage = "cancelling", !.run = r], purse, day, Net)
    BY RestCharged
  <2>. QED BY <1>3, <2>1, <2>2, <2>3, <2>4
<1>6. ASSUME UNCHANGED <<account, purse, day, made, runs, job>>
      PROVE  Quota'
  BY <1>1, <1>6 DEF Quota, Net
<1>7. CASE NewRow \/ UNCHANGED vars
  BY <1>6, <1>7 DEF NewRow, vars, records, history
<1>8. CASE Tick
  <2>1. /\ Busy = {} /\ job' = job /\ day' = day + 1 /\ Net' <= 0 /\ UNCHANGED <<account, purse>>
    BY <1>1, <1>8, NetType DEF Tick, records, Net
  <2>2. Afforded(purse', day', Net', account'.limit)
    <3>1. day \in Nat /\ purse.day \in Nat /\ purse.day <= day /\ account.limit \in Nat
      BY <1>1, AccountAssumption DEF TypeInv, TypeOK, Purses, Quota, Afforded
    <3>2. CountOf(purse, day + 1) = 0
      BY <3>1 DEF CountOf
    <3>. QED BY <2>1, <3>1, <3>2 DEF Afforded
  <2>3. ASSUME NEW u \in Threads
        PROVE  Charged(job[u], purse', day', Net')
    <3>1. job[u].stage = "idle" /\ Charged(job[u], purse, day, Net)
      BY <1>1, <2>1 DEF Busy, Quota
    <3>. QED BY <3>1, IdleCharged
  <2>. QED BY <2>1, <2>2, <2>3 DEF Quota
<1>9. CASE Crash
  <2>1. UNCHANGED <<account, purse, day, Net>> /\ \A u \in Threads : job'[u] = IdleJob
    BY <1>9 DEF Crash, records, Net
  <2>2. Charged(IdleJob, purse, day, Net)
    BY PlainCharged DEF IdleJob
  <2>. QED BY <1>1, <2>1, <2>2 DEF Quota
<1>. QED BY <1>2, <1>4, <1>5, <1>7, <1>8, <1>9 DEF Next

(* Served one at a time, no more calls are charged in a day than the limit, *)
(* and every call made is charged but one of each run, that of its reopened *)
(* job: any other call that asks the vendor has charged the purse first,    *)
(* and the purse it charged was the stored one (_spend, _budget_left and    *)
(* _open_job in engine.py).                                                 *)
THEOREM QuotaCorrect == Spec => []QuotaKept
<1>1. Init => QuotaInv
  <2>. SUFFICES ASSUME Init, account.limited PROVE QuotaInv
    BY InitType DEF QuotaInv, Init, Alone, IdleJob
  <2>1. TypeInv
    BY InitType
  <2>2. /\ purse = [day |-> 0, calls |-> 0] /\ day = 1 /\ Net = 0
        /\ \A t \in Threads : job[t] = IdleJob
    <3>1. made = 0 /\ runs = <<>>
      BY DEF Init
    <3>2. Net = 0
      <4>1. Len(runs) = 0
        BY <3>1
      <4>2. made = 0
        BY <3>1
      <4>. QED BY <4>1, <4>2 DEF Net
    <3>3. /\ purse = [day |-> 0, calls |-> 0] /\ day = 1
          /\ \A t \in Threads : job[t] = IdleJob
      BY DEF Init
    <3>. QED BY <3>2, <3>3
  <2>3. Afforded(purse, day, Net, account.limit)
    <3>1. account.limit \in Nat
      BY <2>1, AccountAssumption DEF TypeInv, TypeOK
    <3>. QED BY <2>2, <3>1 DEF Afforded, CountOf
  <2>4. Charged(IdleJob, purse, day, Net)
    BY PlainCharged DEF IdleJob
  <2>. QED BY <2>1, <2>2, <2>3, <2>4 DEF QuotaInv, Quota, Alone, IdleJob
<1>2. QuotaInv => QuotaKept
  <2>. SUFFICES ASSUME QuotaInv, ~overlapped, account.limited
                PROVE  /\ CallsToday(purse) <= account.limit
                       /\ made <= CallsToday(purse) + Len(runs)
    BY DEF QuotaKept
  <2>1. CallsToday(purse) = CountOf(purse, day)
    BY DEF CountOf, CallsToday
  <2>2. Net <= CountOf(purse, day) /\ CountOf(purse, day) <= account.limit
    BY DEF QuotaInv, Quota, Afforded
  <2>3. CountOf(purse, day) \in Nat /\ made \in Nat /\ Len(runs) \in Nat
    BY CountType, NetType DEF QuotaInv, TypeInv, TypeOK
  <2>. QED BY <2>1, <2>2, <2>3 DEF Net
<1>. QED BY <1>1, <1>2, QuotaStep, PTL DEF Spec

-----------------------------------------------------------------------------
(* The rows of a push.  As long as nothing is landed, a run has sent the    *)
(* rows of the places it has seen, and all rows if it is complete; a call   *)
(* holds what the run had when it read it, and the page it is about to send *)
(* brings it to the end of the page.                                        *)

ReachedOf(list, n) == {list[i] : i \in {j \in DOMAIN list : j <= n}}
AllOf(list) == {list[i] : i \in DOMAIN list}

Past(call) == call.stage \notin {"idle", "starting", "creating"}
Holding(call) == call.stage \in {"opening", "calling", "opened", "deciding", "resuming", "polling",
                                 "counting", "charging", "asking", "listing", "submitting",
                                 "looking", "landing", "advancing", "patching", "waiting",
                                 "finishing"}

(* A call that has no run yet, and one that has. *)
Fresh(call) ==
  call.stage \in {"starting", "creating"}
    => call.body.seen = 0 /\ call.body.state = "created" /\ ~call.pushing

Sided(call, direction) ==
  /\ Holding(call) => call.body.direction = direction
  /\ call.stage = "listing" => direction = "push"
  /\ call.stage = "asking" => direction = "pull"
  /\ call.pushing => direction = "push"

PushedRun(run, out, list) ==
  (run.direction = "push" /\ out.moved = FALSE) =>
     /\ ReachedOf(list, run.seen) \subseteq out.sent
     /\ run.state = "complete" => AllOf(list) \subseteq out.sent

PushedPage(call, sent, list) ==
  /\ ReachedOf(list, call.body.seen + call.page.size) \subseteq sent
  /\ ~call.page.more => AllOf(list) \subseteq sent

PushedCall(call, out, list) ==
  (call.body.direction = "push" /\ out.moved = FALSE) =>
     /\ ReachedOf(list, call.body.seen) \subseteq out.sent
     /\ call.stage = "submitting" => PushedPage(call, out.sent \union call.page.rows, list)
     /\ call.stage \in {"advancing", "patching"} => PushedPage(call, out.sent, list)
     /\ call.stage = "finishing" => AllOf(list) \subseteq out.sent
     /\ call.stage \in {"opened", "deciding"} => call.page.rows = {} /\ call.page.more
     /\ call.stage \notin {"looking", "landing"}

PushGood ==
  /\ DOMAIN outbox = DOMAIN runs
  /\ \A t \in Threads : Fresh(job[t])
  /\ \A t \in Threads : Past(job[t]) => Sided(job[t], runs[job[t].run].direction)
  /\ account.vendor # "dataverse" =>
       /\ \A r \in DOMAIN runs : PushedRun(runs[r], outbox[r], replica)
       /\ \A t \in Threads : Past(job[t]) => PushedCall(job[t], outbox[job[t].run], replica)

PushInv == TypeInv /\ PushGood

(* Sending more keeps what was sent; landing rows ends the claim. *)
LEMMA MoreRun ==
  ASSUME NEW run, NEW out, NEW more, NEW list, NEW longer, out.sent \subseteq more.sent,
         more.moved = FALSE => out.moved = FALSE /\ longer = list, PushedRun(run, out, list)
  PROVE  PushedRun(run, more, longer)
BY DEF PushedRun

LEMMA MorePage ==
  ASSUME NEW call, NEW few, NEW many, few \subseteq many, NEW list, PushedPage(call, few, list)
  PROVE  PushedPage(call, many, list)
BY DEF PushedPage

LEMMA MoreCall ==
  ASSUME NEW call, NEW out, NEW more, NEW list, NEW longer, out.sent \subseteq more.sent,
         more.moved = FALSE => out.moved = FALSE /\ longer = list, PushedCall(call, out, list)
  PROVE  PushedCall(call, more, longer)
<1>. SUFFICES ASSUME call.body.direction = "push", more.moved = FALSE
              PROVE  /\ ReachedOf(longer, call.body.seen) \subseteq more.sent
                     /\ call.stage = "submitting"
                          => PushedPage(call, more.sent \union call.page.rows, longer)
                     /\ call.stage \in {"advancing", "patching"} => PushedPage(call, more.sent, longer)
                     /\ call.stage = "finishing" => AllOf(longer) \subseteq more.sent
                     /\ call.stage \in {"opened", "deciding"} => call.page.rows = {} /\ call.page.more
                     /\ call.stage \notin {"looking", "landing"}
  BY DEF PushedCall
<1>1. out.moved = FALSE /\ longer = list
  OBVIOUS
<1>2. out.sent \union call.page.rows \subseteq more.sent \union call.page.rows
  OBVIOUS
<1>. QED BY <1>1, <1>2, MorePage DEF PushedCall

(* What a step leaves of the runs and of what was sent. *)
Kept ==
  /\ account' = account
  /\ DOMAIN outbox' = DOMAIN runs' /\ DOMAIN runs \subseteq DOMAIN runs'
  /\ \A r \in DOMAIN runs :
       /\ runs'[r].direction = runs[r].direction
       /\ outbox[r].sent \subseteq outbox'[r].sent
       /\ outbox'[r].moved = FALSE => outbox[r].moved = FALSE /\ replica' = replica

LEMMA PushStep ==
  ASSUME PushInv, NEW t \in Threads, NEW next, Goes(t, next), Kept, Fresh(next),
         Past(next) => Sided(next, runs'[next.run].direction),
         account.vendor # "dataverse" =>
           /\ \A r \in DOMAIN runs' : PushedRun(runs'[r], outbox'[r], replica')
           /\ Past(next) => PushedCall(next, outbox'[next.run], replica')
  PROVE  PushGood'
<1>1. job'[t] = next /\ \A u \in Threads : u # t => job'[u] = job[u]
  BY GoesMoves DEF PushInv
<1>2. ASSUME NEW u \in Threads
      PROVE  /\ Fresh(job'[u])
             /\ Past(job'[u]) => Sided(job'[u], runs'[job'[u].run].direction)
             /\ (account.vendor # "dataverse" /\ Past(job'[u]))
                  => PushedCall(job'[u], outbox'[job'[u].run], replica')
  <2>1. CASE u = t
    BY <1>1, <2>1
  <2>2. CASE u # t
    <3>. DEFINE call == job[u]
                r == job[u].run
    <3>1. job'[u] = call /\ Fresh(call)
      BY <1>1, <2>2 DEF PushInv, PushGood
    <3>2. Past(call) => r \in DOMAIN runs
      BY JobType DEF Past, PushInv
    <3>3. Past(call) => Sided(call, runs[r].direction)
      BY DEF PushInv, PushGood
    <3>4. (account.vendor # "dataverse" /\ Past(call)) => PushedCall(call, outbox[r], replica)
      BY DEF PushInv, PushGood
    <3>5. Past(call) => /\ runs'[r].direction = runs[r].direction
                        /\ outbox[r].sent \subseteq outbox'[r].sent
                        /\ outbox'[r].moved = FALSE => outbox[r].moved = FALSE /\ replica' = replica
      BY <3>2 DEF Kept
    <3>6. ASSUME account.vendor # "dataverse", Past(call)
          PROVE  PushedCall(call, outbox'[r], replica')
      <4>1. PushedCall(call, outbox[r], replica)
        BY <3>4, <3>6
      <4>2. /\ outbox[r].sent \subseteq outbox'[r].sent
            /\ outbox'[r].moved = FALSE => outbox[r].moved = FALSE /\ replica' = replica
        BY <3>5, <3>6
      <4>. HIDE DEF call, r
      <4>. QED BY <4>1, <4>2, MoreCall
    <3>. HIDE DEF call, r
    <3>7. Past(call) => Sided(call, runs'[r].direction)
      BY <3>3, <3>5
    <3>. QED BY <3>1, <3>6, <3>7 DEF call, r
  <2>. QED BY <2>1, <2>2
<1>. QED BY <1>2 DEF PushGood, Kept

(* A step that writes neither the runs nor what was sent. *)
LEMMA PushQuiet ==
  ASSUME PushInv, NEW t \in Threads, NEW next, Goes(t, next),
         UNCHANGED <<account, replica, runs, outbox>>, Fresh(next),
         Past(next) => Sided(next, runs[next.run].direction),
         (account.vendor # "dataverse" /\ Past(next)) => PushedCall(next, outbox[next.run], replica)
  PROVE  PushGood'
<1>1. Kept
  BY DEF Kept, PushInv, PushGood
<1>2. account.vendor # "dataverse" =>
        \A r \in DOMAIN runs' : PushedRun(runs'[r], outbox'[r], replica')
  BY DEF PushInv, PushGood
<1>. QED BY <1>1, <1>2, PushStep

(* A step that writes one run's record. *)
LEMMA PushPatch ==
  ASSUME PushInv, NEW t \in Threads, NEW next, Goes(t, next),
         NEW r \in DOMAIN runs, NEW record, Patch(r, record),
         UNCHANGED <<account, replica, outbox>>, Fresh(next), next.run = r \/ ~Past(next),
         record.direction = runs[r].direction,
         Past(next) => Sided(next, runs[r].direction),
         account.vendor # "dataverse" =>
           /\ PushedRun(record, outbox[r], replica)
           /\ Past(next) => PushedCall(next, outbox[r], replica)
  PROVE  PushGood'
<1>1. DOMAIN runs' = DOMAIN runs /\ \A i \in DOMAIN runs : runs'[i] = IF i = r THEN record ELSE runs[i]
  BY DEF Patch
<1>2. Kept
  BY <1>1 DEF Kept, PushInv, PushGood
<1>3. account.vendor # "dataverse" =>
        \A i \in DOMAIN runs' : PushedRun(runs'[i], outbox'[i], replica')
  BY <1>1 DEF PushInv, PushGood
<1>4. Past(next) => Sided(next, runs'[next.run].direction)
  BY <1>1
<1>5. (account.vendor # "dataverse" /\ Past(next)) => PushedCall(next, outbox'[next.run], replica')
  OBVIOUS
<1>. QED BY <1>2, <1>3, <1>4, <1>5, PushStep

(* A call that holds nothing of a run. *)
LEMMA BlankPushed ==
  ASSUME NEW call, call.stage \in {"idle", "breaking", "stalling", "repolling", "cancelling"},
         call.body = NoRun, ~call.pushing, NEW direction, NEW out, NEW list
  PROVE  Fresh(call) /\ Sided(call, direction) /\ PushedCall(call, out, list)
<1>1. call.body.direction = "pull"
  BY DEF NoRun
<1>2. Fresh(call) /\ Sided(call, direction)
  BY DEF Fresh, Sided, Holding
<1>3. PushedCall(call, out, list)
  BY <1>1 DEF PushedCall
<1>. QED BY <1>2, <1>3

LEMMA IdlePushed == Fresh(IdleJob) /\ ~Past(IdleJob)
BY DEF Fresh, Past, IdleJob

(* A call that ends, without a write, by writing its run's record, or by a  *)
(* last step that holds nothing.                                            *)
LEMMA DonePushed ==
  ASSUME PushInv, NEW t \in Threads, Done(t), UNCHANGED <<account, replica, runs, outbox>>
  PROVE  PushGood'
BY IdlePushed, PushQuiet DEF Done

LEMMA EndPushed ==
  ASSUME PushInv, NEW t \in Threads, Done(t), Past(job[t]), UNCHANGED <<account, replica, outbox>>,
         NEW record, Patch(job[t].run, record), record.direction = runs[job[t].run].direction,
         account.vendor # "dataverse" => PushedRun(record, outbox[job[t].run], replica)
  PROVE  PushGood'
<1>1. job[t].run \in DOMAIN runs
  BY JobType DEF PushInv, Past
<1>. QED BY <1>1, IdlePushed, PushPatch DEF Done

LEMMA ClosesPushed ==
  ASSUME PushInv, NEW t \in Threads, Past(job[t]), UNCHANGED <<account, replica, outbox>>,
         NEW stage \in {"breaking", "stalling", "repolling"}, Closes(t, stage),
         NEW record, Patch(job[t].run, record), record.direction = runs[job[t].run].direction,
         account.vendor # "dataverse" => PushedRun(record, outbox[job[t].run], replica)
  PROVE  PushGood'
<1>. DEFINE next == [IdleJob EXCEPT !.stage = stage, !.run = job[t].run]
<1>1. job[t].run \in DOMAIN runs
  BY JobType DEF PushInv, Past
<1>2. /\ Fresh(next) /\ Sided(next, runs[job[t].run].direction)
      /\ PushedCall(next, outbox[job[t].run], replica) /\ next.run = job[t].run
  <2>1. /\ next.stage = stage /\ next.body = NoRun /\ ~next.pushing
        /\ next.run = job[t].run
    BY DEF IdleJob
  <2>. HIDE DEF next
  <2>. QED BY <2>1, BlankPushed
<1>3. Goes(t, next)
  BY DEF Closes
<1>. HIDE DEF next
<1>. QED BY <1>1, <1>2, <1>3, PushPatch

(* What is known of a call with a run. *)
LEMMA PushFacts ==
  ASSUME PushInv, NEW t \in Threads, Past(job[t])
  PROVE  LET r == job[t].run
         IN /\ r \in DOMAIN runs /\ runs[r] \in Runs
            /\ Sided(job[t], runs[r].direction)
            /\ account.vendor # "dataverse" =>
                 PushedRun(runs[r], outbox[r], replica) /\ PushedCall(job[t], outbox[r], replica)
<1>1. job[t].run \in DOMAIN runs /\ runs[job[t].run] \in Runs
  BY JobType DEF PushInv, Past
<1>. QED BY <1>1 DEF PushInv, PushGood

(* Writing the counters a call holds. *)
LEMMA CountedPushed ==
  ASSUME PushInv, NEW t \in Threads, Past(job[t]), Holding(job[t]),
         NEW body \in Runs, body.seen = job[t].body.seen
  PROVE  LET r == job[t].run
         IN /\ Counted(r, body).direction = runs[r].direction
            /\ Counted(r, body).state = runs[r].state
            /\ Counted(r, body).seen = body.seen
            /\ account.vendor # "dataverse" => PushedRun(Counted(r, body), outbox[r], replica)
<1>. DEFINE r == job[t].run
<1>1. /\ Counted(r, body).direction = runs[r].direction
      /\ Counted(r, body).state = runs[r].state
      /\ Counted(r, body).seen = body.seen
  BY PushFacts DEF Counted, Runs
<1>2. ASSUME account.vendor # "dataverse"
      PROVE  PushedRun(Counted(r, body), outbox[r], replica)
  <2>1. /\ job[t].body.direction = runs[r].direction
        /\ PushedRun(runs[r], outbox[r], replica) /\ PushedCall(job[t], outbox[r], replica)
    BY <1>2, PushFacts DEF Sided
  <2>. QED BY <1>1, <2>1 DEF PushedRun, PushedCall
<1>. QED BY <1>1, <1>2

(* The places of the replica before a page, those of the page, and the end. *)
LEMMA ReachedZero ==
  ASSUME NEW S, NEW list \in Seq(S)
  PROVE  ReachedOf(list, 0) = {}
BY DEF ReachedOf

LEMMA ListedReached ==
  ASSUME TypeOK, NEW offset \in Nat
  PROVE  LET size == Cardinality(Window(offset))
         IN /\ ReachedOf(replica, offset + size) \subseteq ReachedOf(replica, offset) \union Listed(offset)
            /\ size # PageSize => AllOf(replica) \subseteq ReachedOf(replica, offset + size)
            /\ Listed(offset) = {} => AllOf(replica) \subseteq ReachedOf(replica, offset)
<1>. DEFINE size == Cardinality(Window(offset))
<1>1. /\ size \in Nat
      /\ \A i \in DOMAIN replica : i <= offset + size <=> i <= offset \/ i \in Window(offset)
      /\ size # PageSize => Len(replica) <= offset + size
      /\ Window(offset) = {} => Len(replica) <= offset
  BY WindowPlaces
<1>2. DOMAIN replica = 1..Len(replica) /\ Len(replica) \in Nat
  BY DEF TypeOK
<1>3. Listed(offset) = {} => Window(offset) = {}
  BY DEF Listed
<1>. HIDE DEF size
<1>4. ReachedOf(replica, offset + size) \subseteq ReachedOf(replica, offset) \union Listed(offset)
  BY <1>1 DEF ReachedOf, Listed
<1>5. ASSUME NEW n \in Nat, Len(replica) <= n
      PROVE  AllOf(replica) \subseteq ReachedOf(replica, n)
  BY <1>2, <1>5 DEF AllOf, ReachedOf
<1>6. size # PageSize => AllOf(replica) \subseteq ReachedOf(replica, offset + size)
  BY <1>1, <1>5
<1>7. Listed(offset) = {} => AllOf(replica) \subseteq ReachedOf(replica, offset)
  BY <1>1, <1>3, <1>5
<1>. QED BY <1>4, <1>6, <1>7 DEF size

(* The steps of start. *)
LEMMA StartPush ==
  ASSUME PushInv, NEW t \in Threads,
         \/ AdoptCursor(t) \/ CreateRun(t) \/ OpenSpend(t) \/ CallStart(t) \/ OpenJob(t)
         \/ Decide(t)
  PROVE  PushGood'
<1>. DEFINE call == job[t]
            r == job[t].run
<1>0. call \in Jobs /\ call.body \in Runs /\ TypeInv
  BY JobType DEF PushInv
<1>1. CASE AdoptCursor(t)
  <2>1. UNCHANGED <<account, replica, runs, outbox>> /\ call.stage = "starting"
    BY <1>1 DEF AdoptCursor, AtStage, records, history
  <2>2. CASE Done(t)
    BY <2>1, <2>2, DonePushed
  <2>3. CASE ~Done(t)
    <3>1. PICK loose \in BOOLEAN :
            Goes(t, [call EXCEPT !.stage = "creating", !.adopted = stored, !.loose = loose])
      BY <1>0, <1>1, <2>3, AdoptedCall
    <3>. DEFINE next == [call EXCEPT !.stage = "creating", !.adopted = stored, !.loose = loose]
    <3>2. next.body = call.body /\ next.stage = "creating" /\ next.pushing = call.pushing
      BY <1>0 DEF Jobs
    <3>3. Goes(t, next)
      BY <3>1
    <3>. HIDE DEF next
    <3>4. Fresh(next) /\ ~Past(next)
      BY <2>1, <3>2 DEF PushInv, PushGood, Fresh, Past
    <3>. QED BY <2>1, <3>3, <3>4, PushQuiet
  <2>. QED BY <2>2, <2>3
<1>2. CASE CreateRun(t)
  <2>. DEFINE next == [call EXCEPT !.stage = "opening", !.run = Len(runs) + 1]
  <2>1. /\ UNCHANGED <<account, replica>> /\ call.stage = "creating"
        /\ runs' = Append(runs, call.body)
        /\ outbox' = Append(outbox, [sent |-> {}, moved |-> FALSE])
        /\ Goes(t, next) \/ Goes(t, IdleJob)
    BY <1>2 DEF CreateRun, AtStage, Done
  <2>2. call.body.seen = 0 /\ call.body.state = "created" /\ ~call.pushing
    BY <2>1 DEF PushInv, PushGood, Fresh
  <2>3. Len(runs) = Len(outbox) /\ Len(runs) \in Nat /\ DOMAIN runs = 1..Len(runs)
    BY DEF PushInv, PushGood, TypeInv, TypeOK
  <2>4. /\ DOMAIN runs' = 1..(Len(runs) + 1) /\ DOMAIN outbox' = 1..(Len(runs) + 1)
        /\ \A i \in 1..Len(runs) : runs'[i] = runs[i] /\ outbox'[i] = outbox[i]
        /\ runs'[Len(runs) + 1] = call.body
        /\ outbox'[Len(runs) + 1] = [sent |-> {}, moved |-> FALSE]
    <3>1. runs \in Seq(Runs) /\ outbox \in Seq([sent : SUBSET Rows, moved : BOOLEAN])
      BY DEF PushInv, TypeInv, TypeOK
    <3>. QED BY <2>1, <2>3, <3>1, AppendProperties
  <2>5. Kept
    BY <2>1, <2>3, <2>4 DEF Kept
  <2>6. ReachedOf(replica, 0) = {}
    BY ReachedZero DEF PushInv, TypeInv, TypeOK
  <2>7. PushedRun(call.body, outbox'[Len(runs) + 1], replica)
    BY <2>2, <2>6 DEF PushedRun
  <2>8. ASSUME account.vendor # "dataverse", NEW i \in DOMAIN runs'
        PROVE  PushedRun(runs'[i], outbox'[i], replica')
    <3>1. CASE i \in 1..Len(runs)
      BY <2>1, <2>3, <2>4, <2>8, <3>1 DEF PushInv, PushGood
    <3>2. CASE i = Len(runs) + 1
      BY <2>1, <2>4, <2>7, <3>2
    <3>. QED BY <2>3, <2>4, <3>1, <3>2
  <2>9. /\ next.body = call.body /\ next.stage = "opening" /\ next.pushing = call.pushing
        /\ next.run = Len(runs) + 1
    BY <1>0 DEF Jobs
  <2>. HIDE DEF next
  <2>10. Fresh(next) /\ Sided(next, runs'[next.run].direction)
    BY <2>2, <2>4, <2>9 DEF Fresh, Sided
  <2>11. PushedCall(next, outbox'[next.run], replica')
    BY <2>1, <2>2, <2>6, <2>9 DEF PushedCall
  <2>12. Goes(t, next) => PushGood'
    BY <2>5, <2>8, <2>10, <2>11, PushStep
  <2>13. Goes(t, IdleJob) => PushGood'
    BY <2>5, <2>8, IdlePushed, PushStep
  <2>. QED BY <2>1, <2>12, <2>13
<1>3. CASE OpenSpend(t)
  <2>. DEFINE next == [call EXCEPT !.stage = "calling"]
  <2>1. /\ UNCHANGED <<account, replica, runs, outbox>> /\ call.stage = "opening"
        /\ Done(t) \/ Goes(t, next)
    BY <1>3 DEF OpenSpend, AtStage, GoesTo, history
  <2>2. /\ next.body = call.body /\ next.stage = "calling" /\ next.pushing = call.pushing
        /\ next.run = r
    BY <1>0 DEF Jobs
  <2>. HIDE DEF next
  <2>3. Past(call) /\ Holding(call)
    BY <2>1 DEF Past, Holding
  <2>4. Fresh(next)
    BY <2>2 DEF Fresh
  <2>5. Sided(next, runs[r].direction)
    BY <2>1, <2>2, <2>3, PushFacts DEF Sided, Holding
  <2>6. account.vendor # "dataverse" => PushedCall(next, outbox[r], replica)
    BY <2>1, <2>2, <2>3, PushFacts DEF PushedCall
  <2>. QED BY <2>1, <2>2, <2>4, <2>5, <2>6, DonePushed, PushQuiet
<1>4. CASE CallStart(t)
  <2>. DEFINE page == StartPage(call.body, call.adopted)
              next == [call EXCEPT !.stage = "opened", !.page = page]
  <2>1. /\ UNCHANGED <<account, replica, outbox>> /\ call.stage = "calling"
        /\ Patch(r, Counted(r, call.body))
        /\ Goes(t, next) \/ Closes(t, "breaking")
    BY <1>4 DEF CallStart, AtStage
  <2>2. Past(call) /\ Holding(call)
    BY <2>1 DEF Past, Holding
  <2>3. /\ Counted(r, call.body).direction = runs[r].direction
        /\ account.vendor # "dataverse" => PushedRun(Counted(r, call.body), outbox[r], replica)
    BY <1>0, <2>2, CountedPushed
  <2>4. account.vendor # "dataverse" => page.rows = {} /\ page.more
    BY DEF StartPage, NotReady, NoPage
  <2>. HIDE DEF page
  <2>5. /\ next.body = call.body /\ next.stage = "opened" /\ next.pushing = call.pushing
        /\ next.run = r /\ next.page = page
    BY <1>0 DEF Jobs
  <2>. HIDE DEF next
  <2>6. Fresh(next)
    BY <2>5 DEF Fresh
  <2>7. Sided(next, runs[r].direction)
    BY <2>1, <2>2, <2>5, PushFacts DEF Sided, Holding
  <2>8. account.vendor # "dataverse" => PushedCall(next, outbox[r], replica)
    BY <2>1, <2>2, <2>4, <2>5, PushFacts DEF PushedCall
  <2>9. r \in DOMAIN runs
    BY <2>2, PushFacts
  <2>10. Goes(t, next) => PushGood'
    BY <2>1, <2>3, <2>5, <2>6, <2>7, <2>8, <2>9, PushPatch
  <2>11. Closes(t, "breaking") => PushGood'
    BY <2>1, <2>2, <2>3, ClosesPushed
  <2>. QED BY <2>1, <2>10, <2>11
<1>5. CASE OpenJob(t)
  <2>. DEFINE opened == [runs[r] EXCEPT !.state = "running", !.total = call.page.total,
                                        !.processed = call.page.processed]
              next == [call EXCEPT !.stage = "deciding", !.body = opened]
  <2>1. /\ UNCHANGED <<account, replica, outbox>> /\ call.stage = "opened"
        /\ Patch(r, opened) /\ Goes(t, next)
    BY <1>5 DEF OpenJob, AtStage, history
  <2>2. Past(call) /\ Holding(call)
    BY <2>1 DEF Past, Holding
  <2>3. r \in DOMAIN runs /\ runs[r] \in Runs
    BY <2>2, PushFacts
  <2>4. opened.direction = runs[r].direction /\ opened.seen = runs[r].seen /\ opened.state = "running"
    BY <2>3 DEF Runs
  <2>. HIDE DEF opened
  <2>5. /\ next.body = opened /\ next.stage = "deciding" /\ next.pushing = call.pushing
        /\ next.run = r /\ next.page = call.page
    BY <1>0 DEF Jobs
  <2>. HIDE DEF next
  <2>6. Sided(call, runs[r].direction) /\ call.body.direction = runs[r].direction
    BY <2>2, PushFacts DEF Sided
  <2>7. Fresh(next) /\ Sided(next, runs[r].direction)
    BY <2>4, <2>5, <2>6 DEF Fresh, Sided
  <2>8. ASSUME account.vendor # "dataverse"
        PROVE  PushedRun(opened, outbox[r], replica) /\ PushedCall(next, outbox[r], replica)
    <3>1. PushedRun(runs[r], outbox[r], replica) /\ PushedCall(call, outbox[r], replica)
      BY <2>2, <2>8, PushFacts
    <3>2. PushedRun(opened, outbox[r], replica)
      BY <2>4, <3>1 DEF PushedRun
    <3>3. PushedCall(next, outbox[r], replica)
      BY <2>1, <2>4, <2>5, <2>6, <3>1 DEF PushedRun, PushedCall
    <3>. QED BY <3>2, <3>3
  <2>. QED BY <2>1, <2>3, <2>4, <2>5, <2>7, <2>8, PushPatch
<1>6. CASE Decide(t)
  <2>. DEFINE again == [call EXCEPT !.stage = "opening", !.again = TRUE]
              on == [IdleJob EXCEPT !.stage = After(call.page), !.run = r,
                                    !.body = call.body, !.page = call.page]
  <2>1. /\ UNCHANGED <<account, replica, outbox>> /\ call.stage = "deciding"
        /\ Patch(r, Counted(r, call.body))
        /\ Goes(t, again) \/ Goes(t, on)
    BY <1>6 DEF Decide, AtStage, history
  <2>2. Past(call) /\ Holding(call)
    BY <2>1 DEF Past, Holding
  <2>3. /\ Counted(r, call.body).direction = runs[r].direction
        /\ account.vendor # "dataverse" => PushedRun(Counted(r, call.body), outbox[r], replica)
    BY <1>0, <2>2, CountedPushed
  <2>4. /\ again.body = call.body /\ again.stage = "opening" /\ again.pushing = call.pushing
        /\ again.run = r
    BY <1>0 DEF Jobs
  <2>5. /\ on.body = call.body /\ on.stage = After(call.page) /\ ~on.pushing
        /\ on.run = r /\ on.page = call.page
    BY DEF IdleJob
  <2>. HIDE DEF again, on
  <2>6. /\ r \in DOMAIN runs /\ Sided(call, runs[r].direction)
        /\ account.vendor # "dataverse" => PushedCall(call, outbox[r], replica)
    BY <2>2, PushFacts
  <2>7. Goes(t, again) => PushGood'
    <3>1. Fresh(again) /\ Sided(again, runs[r].direction)
      BY <2>2, <2>4, <2>6 DEF Fresh, Sided
    <3>2. account.vendor # "dataverse" => PushedCall(again, outbox[r], replica)
      BY <2>4, <2>6 DEF PushedCall
    <3>. QED BY <2>1, <2>3, <2>4, <2>6, <3>1, <3>2, PushPatch
  <2>8. Goes(t, on) => PushGood'
    <3>1. on.stage \in {"looking", "waiting", "finishing"}
      BY <2>5 DEF After
    <3>2. Fresh(on) /\ Sided(on, runs[r].direction)
      BY <2>2, <2>5, <2>6, <3>1 DEF Fresh, Sided
    <3>3. account.vendor # "dataverse" => PushedCall(on, outbox[r], replica)
      BY <2>1, <2>5, <2>6 DEF PushedCall, After
    <3>. QED BY <2>1, <2>3, <2>5, <2>6, <3>2, <3>3, PushPatch
  <2>. QED BY <2>1, <2>7, <2>8
<1>. QED BY <1>1, <1>2, <1>3, <1>4, <1>5, <1>6

(* The steps of poll up to the page. *)
LEMMA PollPush ==
  ASSUME PushInv, NEW t \in Threads,
         \/ ReadConnection(t) \/ CountPoll(t) \/ Charge(t) \/ Ask(t) \/ ListReplica(t)
         \/ Submit(t)
  PROVE  PushGood'
<1>. DEFINE call == job[t]
            r == job[t].run
<1>0. /\ call \in Jobs /\ call.body \in Runs /\ TypeInv
      /\ call.body.direction \in {"pull", "push"}
  BY JobType DEF PushInv, Runs
<1>a. ASSUME call.stage \in {"polling", "counting", "charging", "asking", "listing", "submitting"}
      PROVE  /\ Past(call) /\ Holding(call) /\ r \in DOMAIN runs
             /\ Sided(call, runs[r].direction) /\ call.body.direction = runs[r].direction
             /\ account.vendor # "dataverse" => PushedCall(call, outbox[r], replica)
  <2>1. Past(call) /\ Holding(call)
    BY <1>a DEF Past, Holding
  <2>. QED BY <2>1, PushFacts DEF Sided
<1>b. ASSUME call.stage \in {"asking", "submitting"}, UNCHANGED <<account, replica, runs, outbox>>,
             Closes(t, "breaking")
      PROVE  PushGood'
  <2>. DEFINE next == [IdleJob EXCEPT !.stage = "breaking", !.run = r]
  <2>1. next.stage = "breaking" /\ next.body = NoRun /\ ~next.pushing
    BY DEF IdleJob
  <2>2. Goes(t, next)
    BY <1>b DEF Closes
  <2>. HIDE DEF next
  <2>3. /\ Fresh(next) /\ Sided(next, runs[next.run].direction)
        /\ PushedCall(next, outbox[next.run], replica)
    BY <2>1, BlankPushed
  <2>. QED BY <1>b, <2>2, <2>3, PushQuiet
<1>1. CASE ReadConnection(t)
  <2>. DEFINE next == [call EXCEPT !.stage = "counting", !.purse = purse]
  <2>1. UNCHANGED <<account, replica, runs, outbox>> /\ call.stage = "polling" /\ Goes(t, next)
    BY <1>1 DEF ReadConnection, AtStage, records, history
  <2>2. /\ next.body = call.body /\ next.stage = "counting" /\ next.pushing = call.pushing
        /\ next.run = r
    BY <1>0 DEF Jobs
  <2>. HIDE DEF next
  <2>3. Fresh(next) /\ Sided(next, runs[r].direction)
    BY <1>a, <2>1, <2>2 DEF Fresh, Sided
  <2>4. account.vendor # "dataverse" => PushedCall(next, outbox[r], replica)
    BY <1>a, <2>1, <2>2 DEF PushedCall
  <2>. QED BY <2>1, <2>2, <2>3, <2>4, PushQuiet
<1>2. CASE CountPoll(t)
  <2>. DEFINE polls == IF call.body.polls < ReadyAfter THEN call.body.polls + 1
                       ELSE call.body.polls
              counted == [call.body EXCEPT !.polls = polls]
              next == [call EXCEPT !.stage = "charging", !.body = counted]
  <2>1. UNCHANGED <<account, replica, outbox>> /\ call.stage = "counting"
    BY <1>2 DEF CountPoll, AtStage, history
  <2>2. /\ Patch(r, Counted(r, counted))
        /\ Closes(t, "stalling") \/ Goes(t, next)
    BY <1>2 DEF CountPoll, Runs
  <2>3. /\ counted \in Runs /\ counted.seen = call.body.seen
        /\ counted.direction = call.body.direction
    BY <1>0 DEF Runs
  <2>. HIDE DEF counted
  <2>4. /\ Counted(r, counted).direction = runs[r].direction
        /\ account.vendor # "dataverse" => PushedRun(Counted(r, counted), outbox[r], replica)
    BY <1>a, <2>1, <2>3, CountedPushed
  <2>5. /\ next.body = counted /\ next.stage = "charging" /\ next.pushing = call.pushing
        /\ next.run = r
    BY <1>0 DEF Jobs
  <2>. HIDE DEF next
  <2>6. Fresh(next) /\ Sided(next, runs[r].direction)
    BY <1>a, <2>1, <2>3, <2>5 DEF Fresh, Sided
  <2>7. account.vendor # "dataverse" => PushedCall(next, outbox[r], replica)
    BY <1>a, <2>1, <2>3, <2>5 DEF PushedCall
  <2>8. Goes(t, next) => PushGood'
    BY <1>a, <2>1, <2>2, <2>4, <2>5, <2>6, <2>7, PushPatch
  <2>9. Closes(t, "stalling") => PushGood'
    BY <1>a, <2>1, <2>2, <2>4, ClosesPushed
  <2>. QED BY <2>2, <2>8, <2>9
<1>3. CASE Charge(t)
  <2>. DEFINE stage == IF call.body.direction = "push" THEN "listing" ELSE "asking"
              next == [call EXCEPT !.stage = stage]
  <2>1. /\ UNCHANGED <<account, replica, runs, outbox>> /\ call.stage = "charging"
        /\ Done(t) \/ Goes(t, next)
    BY <1>3 DEF Charge, AtStage, GoesTo, history
  <2>2. next.body = call.body /\ next.stage = stage /\ next.pushing = call.pushing /\ next.run = r
    BY <1>0 DEF Jobs
  <2>. HIDE DEF next
  <2>3. Fresh(next) /\ Sided(next, runs[r].direction)
    BY <1>0, <1>a, <2>1, <2>2 DEF Fresh, Sided
  <2>4. account.vendor # "dataverse" => PushedCall(next, outbox[r], replica)
    BY <1>a, <2>1, <2>2 DEF PushedCall
  <2>5. Goes(t, next) => PushGood'
    BY <2>1, <2>2, <2>3, <2>4, PushQuiet
  <2>. QED BY <2>1, <2>5, DonePushed
<1>4. CASE Ask(t)
  <2>. DEFINE page == ReadPage(call.body)
              next == [call EXCEPT !.stage = After(page), !.page = page]
  <2>1. /\ UNCHANGED <<account, replica, runs, outbox>> /\ call.stage = "asking"
        /\ Goes(t, next) \/ Closes(t, "breaking")
    BY <1>4 DEF Ask, AtStage, records
  <2>2. After(page) \in {"looking", "waiting", "finishing"}
    BY DEF After
  <2>. HIDE DEF page
  <2>3. /\ next.body = call.body /\ next.stage \in {"looking", "waiting", "finishing"}
        /\ next.pushing = call.pushing /\ next.run = r
    BY <1>0, <2>2 DEF Jobs
  <2>. HIDE DEF next
  <2>4. runs[r].direction = "pull" /\ call.body.direction = "pull"
    BY <1>a, <2>1 DEF Sided
  <2>5. Fresh(next) /\ Sided(next, runs[r].direction)
    BY <1>a, <2>1, <2>3 DEF Fresh, Sided
  <2>6. PushedCall(next, outbox[r], replica)
    BY <2>3, <2>4 DEF PushedCall
  <2>7. Goes(t, next) => PushGood'
    BY <2>1, <2>3, <2>5, <2>6, PushQuiet
  <2>. QED BY <1>b, <2>1, <2>7
<1>5. CASE ListReplica(t)
  <2>. DEFINE listed == Listed(call.body.seen)
              size == Cardinality(Window(call.body.seen))
              page == [NoPage EXCEPT !.rows = listed, !.size = size, !.total = call.body.total,
                              !.processed = call.body.processed,
                              !.more = size = PageSize]
              next == [call EXCEPT
                         !.pushing = TRUE,
                         !.stage = IF listed = {} THEN "finishing" ELSE "submitting",
                         !.page = page]
  <2>1. UNCHANGED <<account, replica, runs, outbox>> /\ Goes(t, next) /\ call.stage = "listing"
    BY <1>5 DEF ListReplica, AtStage, records, history
  <2>2. call.body.seen \in Nat
    BY <1>0 DEF Runs
  <2>3. /\ ReachedOf(replica, call.body.seen + size) \subseteq ReachedOf(replica, call.body.seen) \union listed
        /\ size # PageSize => AllOf(replica) \subseteq ReachedOf(replica, call.body.seen + size)
        /\ listed = {} => AllOf(replica) \subseteq ReachedOf(replica, call.body.seen)
    BY <1>0, <2>2, ListedReached DEF TypeInv
  <2>. HIDE DEF listed, size
  <2>4. page.rows = listed /\ page.size = size /\ (page.more <=> size = PageSize)
    BY DEF NoPage
  <2>. HIDE DEF page
  <2>5. /\ next.body = call.body /\ next.pushing /\ next.run = r /\ next.page = page
        /\ next.stage = IF listed = {} THEN "finishing" ELSE "submitting"
    BY <1>0 DEF Jobs
  <2>. HIDE DEF next
  <2>6. Fresh(next) /\ Sided(next, runs[r].direction)
    BY <1>a, <2>1, <2>5 DEF Fresh, Sided
  <2>7. ASSUME account.vendor # "dataverse"
        PROVE  PushedCall(next, outbox[r], replica)
    <3>1. PushedCall(call, outbox[r], replica)
      BY <1>a, <2>1, <2>7
    <3>2. CASE listed = {}
      BY <2>3, <2>5, <3>1, <3>2 DEF PushedCall
    <3>3. CASE listed # {}
      <4>. SUFFICES ASSUME call.body.direction = "push", outbox[r].moved = FALSE
                    PROVE  /\ ReachedOf(replica, call.body.seen) \subseteq outbox[r].sent
                           /\ PushedPage(next, outbox[r].sent \union listed, replica)
        BY <2>4, <2>5, <3>3 DEF PushedCall
      <4>1. ReachedOf(replica, call.body.seen) \subseteq outbox[r].sent
        BY <3>1 DEF PushedCall
      <4>2. ReachedOf(replica, call.body.seen + size) \subseteq outbox[r].sent \union listed
        BY <2>3, <4>1
      <4>3. ~page.more => AllOf(replica) \subseteq outbox[r].sent \union listed
        BY <2>3, <2>4, <4>2
      <4>. QED BY <2>4, <2>5, <4>1, <4>2, <4>3 DEF PushedPage
    <3>. QED BY <3>2, <3>3
  <2>. QED BY <2>1, <2>5, <2>6, <2>7, PushQuiet
<1>6. CASE Submit(t)
  <2>1. /\ UNCHANGED <<account, replica, runs>> /\ call.stage = "submitting"
        /\ \/ /\ outbox' = [outbox EXCEPT ![r].sent = @ \union call.page.rows]
              /\ GoesTo(t, "advancing")
           \/ Closes(t, "breaking") /\ UNCHANGED outbox
    BY <1>6 DEF Submit, AtStage, records
  <2>2. CASE Closes(t, "breaking") /\ UNCHANGED outbox
    BY <1>b, <2>1, <2>2
  <2>3. CASE /\ outbox' = [outbox EXCEPT ![r].sent = @ \union call.page.rows]
             /\ GoesTo(t, "advancing")
    <3>. DEFINE next == [call EXCEPT !.stage = "advancing"]
    <3>1. Goes(t, next)
      BY <2>3 DEF GoesTo
    <3>2. /\ next.body = call.body /\ next.stage = "advancing" /\ next.pushing = call.pushing
          /\ next.run = r /\ next.page = call.page
      BY <1>0 DEF Jobs
    <3>. HIDE DEF next
    <3>3. /\ r \in DOMAIN outbox /\ DOMAIN outbox = DOMAIN runs
          /\ \A i \in DOMAIN outbox : outbox[i] \in [sent : SUBSET Rows, moved : BOOLEAN]
      <4>1. r \in DOMAIN outbox /\ DOMAIN outbox = DOMAIN runs
        BY <1>a, <2>1 DEF PushInv, PushGood
      <4>2. outbox \in Seq([sent : SUBSET Rows, moved : BOOLEAN])
        BY DEF PushInv, TypeInv, TypeOK
      <4>. QED BY <4>1, <4>2, RowType
    <3>4. /\ DOMAIN outbox' = DOMAIN outbox
          /\ \A i \in DOMAIN outbox :
               /\ outbox'[i].moved = outbox[i].moved
               /\ outbox'[i].sent = IF i = r THEN outbox[i].sent \union call.page.rows ELSE outbox[i].sent
      BY <2>3, <3>3
    <3>5. Kept
      BY <2>1, <3>3, <3>4 DEF Kept
    <3>6. ASSUME account.vendor # "dataverse", NEW i \in DOMAIN runs'
          PROVE  PushedRun(runs'[i], outbox'[i], replica')
      <4>1. PushedRun(runs[i], outbox[i], replica)
        BY <2>1, <3>6 DEF PushInv, PushGood
      <4>2. outbox[i].sent \subseteq outbox'[i].sent /\ outbox'[i].moved = outbox[i].moved
        BY <2>1, <3>3, <3>4, <3>6
      <4>. QED BY <2>1, <4>1, <4>2, MoreRun
    <3>7. Fresh(next) /\ Sided(next, runs'[r].direction)
      BY <1>a, <2>1, <3>2 DEF Fresh, Sided
    <3>8. ASSUME account.vendor # "dataverse"
          PROVE  PushedCall(next, outbox'[r], replica')
      <4>. SUFFICES ASSUME call.body.direction = "push", outbox'[r].moved = FALSE
                    PROVE  /\ ReachedOf(replica, call.body.seen) \subseteq outbox'[r].sent
                           /\ PushedPage(next, outbox'[r].sent, replica)
        BY <2>1, <3>2 DEF PushedCall
      <4>1. outbox[r].moved = FALSE /\ outbox'[r].sent = outbox[r].sent \union call.page.rows
        BY <3>3, <3>4
      <4>2. /\ ReachedOf(replica, call.body.seen) \subseteq outbox[r].sent
            /\ PushedPage(call, outbox[r].sent \union call.page.rows, replica)
        BY <1>a, <2>1, <3>8, <4>1 DEF PushedCall
      <4>. QED BY <3>2, <4>1, <4>2 DEF PushedPage
    <3>. QED BY <3>1, <3>2, <3>5, <3>6, <3>7, <3>8, PushStep
  <2>. QED BY <2>1, <2>2, <2>3
<1>. QED BY <1>1, <1>2, <1>3, <1>4, <1>5, <1>6

(* The steps that land a page, those that end a call, and those of resume. *)
LEMMA LandPush ==
  ASSUME PushInv, NEW t \in Threads,
         \/ Look(t) \/ Land(t) \/ Advance(t) \/ PatchRun(t) \/ Wait(t) \/ Finish(t)
         \/ Break(t) \/ Stall(t) \/ CountResume(t) \/ PollResumed(t) \/ CancelRun(t)
  PROVE  PushGood'
<1>. DEFINE call == job[t]
            r == job[t].run
<1>0. call \in Jobs /\ call.body \in Runs /\ TypeInv
  BY JobType DEF PushInv
<1>a. ASSUME Past(call)
      PROVE  /\ r \in DOMAIN runs /\ runs[r] \in Runs
             /\ Sided(call, runs[r].direction)
             /\ account.vendor # "dataverse" =>
                  PushedRun(runs[r], outbox[r], replica) /\ PushedCall(call, outbox[r], replica)
  BY <1>a, PushFacts
<1>1. CASE Look(t)
  <2>. DEFINE missing == call.page.rows \ Keys
              next == [call EXCEPT !.missing = missing,
                                   !.stage = IF missing = {} THEN "advancing" ELSE "landing"]
  <2>1. UNCHANGED <<account, replica, runs, outbox>> /\ Goes(t, next) /\ call.stage = "looking"
    BY <1>1 DEF Look, AtStage, records, history
  <2>. HIDE DEF missing
  <2>2. /\ next.body = call.body /\ next.stage \in {"advancing", "landing"}
        /\ next.pushing = call.pushing /\ next.run = r
    BY <1>0 DEF Jobs
  <2>. HIDE DEF next
  <2>3. Past(call) /\ Holding(call)
    BY <2>1 DEF Past, Holding
  <2>4. Fresh(next) /\ Sided(next, runs[r].direction)
    BY <1>a, <2>2, <2>3 DEF Fresh, Sided
  <2>5. account.vendor # "dataverse" => PushedCall(next, outbox[r], replica)
    BY <1>a, <2>1, <2>2, <2>3 DEF PushedCall
  <2>. QED BY <2>1, <2>2, <2>4, <2>5, PushQuiet
<1>2. CASE Land(t)
  <2>. DEFINE next == [call EXCEPT !.stage = "advancing"]
  <2>1. /\ UNCHANGED <<account, runs>> /\ Goes(t, next) /\ call.stage = "landing"
        /\ outbox' = [i \in DOMAIN outbox |-> [outbox[i] EXCEPT !.moved = TRUE]]
    BY <1>2 DEF Land, AtStage, GoesTo
  <2>2. /\ next.body = call.body /\ next.stage = "advancing"
        /\ next.pushing = call.pushing /\ next.run = r
    BY <1>0 DEF Jobs
  <2>. HIDE DEF next
  <2>3. Past(call) /\ Holding(call)
    BY <2>1 DEF Past, Holding
  <2>4. /\ DOMAIN outbox' = DOMAIN runs /\ DOMAIN outbox = DOMAIN runs
        /\ \A i \in DOMAIN outbox :
             outbox'[i].moved = TRUE /\ outbox[i].sent \subseteq outbox'[i].sent
    <3>1. outbox \in Seq([sent : SUBSET Rows, moved : BOOLEAN])
      BY DEF PushInv, TypeInv, TypeOK
    <3>2. \A i \in DOMAIN outbox : outbox[i] \in [sent : SUBSET Rows, moved : BOOLEAN]
      BY <3>1, RowType
    <3>. QED BY <2>1, <3>2 DEF PushInv, PushGood
  <2>5. Kept
    BY <2>1, <2>4 DEF Kept
  <2>6. \A i \in DOMAIN runs' : PushedRun(runs'[i], outbox'[i], replica')
    BY <2>1, <2>4 DEF PushedRun
  <2>7. Fresh(next) /\ Sided(next, runs'[r].direction)
    BY <1>a, <2>1, <2>2, <2>3 DEF Fresh, Sided
  <2>8. PushedCall(next, outbox'[r], replica')
    BY <1>a, <2>3, <2>4 DEF PushedCall
  <2>. QED BY <2>1, <2>2, <2>5, <2>6, <2>7, <2>8, PushStep
<1>3. CASE Advance(t)
  <2>. DEFINE next == [call EXCEPT !.stage = "patching"]
  <2>1. UNCHANGED <<account, replica, runs, outbox>> /\ Goes(t, next) /\ call.stage = "advancing"
    BY <1>3 DEF Advance, AtStage, GoesTo, history
  <2>2. /\ next.body = call.body /\ next.stage = "patching"
        /\ next.pushing = call.pushing /\ next.run = r /\ next.page = call.page
    BY <1>0 DEF Jobs
  <2>. HIDE DEF next
  <2>3. Past(call) /\ Holding(call)
    BY <2>1 DEF Past, Holding
  <2>4. Fresh(next) /\ Sided(next, runs[r].direction)
    BY <1>a, <2>2, <2>3 DEF Fresh, Sided
  <2>5. account.vendor # "dataverse" => PushedCall(next, outbox[r], replica)
    BY <1>a, <2>1, <2>2, <2>3 DEF PushedCall, PushedPage
  <2>. QED BY <2>1, <2>2, <2>4, <2>5, PushQuiet
<1>4. CASE PatchRun(t)
  <2>. DEFINE record == [runs[r] EXCEPT !.state = IF call.page.more THEN "running" ELSE "complete",
                                        !.total = call.page.total,
                                        !.processed = call.page.processed,
                                        !.cursor = NewCursor(t),
                                        !.seen = call.body.seen + call.page.size,
                                        !.polls = call.body.polls]
  <2>1. /\ UNCHANGED <<account, replica, outbox>> /\ Patch(r, record) /\ Done(t)
        /\ call.stage = "patching"
    BY <1>4 DEF PatchRun, AtStage, history
  <2>2. Past(call) /\ Holding(call)
    BY <2>1 DEF Past, Holding
  <2>3. /\ record.direction = runs[r].direction /\ record.seen = call.body.seen + call.page.size
        /\ record.state = "complete" => ~call.page.more
    BY <1>a, <2>2 DEF Runs
  <2>. HIDE DEF record
  <2>4. ASSUME account.vendor # "dataverse"
        PROVE  PushedRun(record, outbox[r], replica)
    <3>1. PushedCall(call, outbox[r], replica) /\ call.body.direction = runs[r].direction
      BY <1>a, <2>2, <2>4 DEF Sided
    <3>. QED BY <2>1, <2>3, <3>1 DEF PushedRun, PushedCall, PushedPage
  <2>. QED BY <2>1, <2>2, <2>3, <2>4, EndPushed
<1>5. CASE Finish(t)
  <2>. DEFINE kept == Counted(r, call.body)
              record == [kept EXCEPT !.state = "complete", !.total = call.page.total,
                                     !.processed = call.page.processed]
  <2>1. /\ UNCHANGED <<account, replica, outbox>> /\ Patch(r, record) /\ Done(t)
        /\ call.stage = "finishing"
    BY <1>5 DEF Finish, AtStage, history
  <2>2. Past(call) /\ Holding(call)
    BY <2>1 DEF Past, Holding
  <2>3. kept.direction = runs[r].direction /\ kept.seen = call.body.seen /\ kept \in Runs
    BY <1>0, <1>a, <2>2, CountedPushed, CountedType
  <2>. HIDE DEF kept
  <2>4. record.direction = runs[r].direction /\ record.seen = call.body.seen
    BY <2>3 DEF Runs
  <2>. HIDE DEF record
  <2>5. ASSUME account.vendor # "dataverse"
        PROVE  PushedRun(record, outbox[r], replica)
    <3>1. PushedCall(call, outbox[r], replica) /\ call.body.direction = runs[r].direction
      BY <1>a, <2>2, <2>5 DEF Sided
    <3>. QED BY <2>1, <2>4, <3>1 DEF PushedRun, PushedCall
  <2>. QED BY <2>1, <2>2, <2>4, <2>5, EndPushed
<1>6. ASSUME NEW record, Patch(r, record), Done(t), Past(call),
             UNCHANGED <<account, replica, outbox>>,
             record.direction = runs[r].direction, record.seen = runs[r].seen,
             record.state # "complete"
      PROVE  PushGood'
  <2>1. account.vendor # "dataverse" => PushedRun(record, outbox[r], replica)
    BY <1>6, <1>a DEF PushedRun
  <2>. QED BY <1>6, <2>1, EndPushed
<1>7. CASE Wait(t)
  <2>. DEFINE record == [runs[r] EXCEPT !.state = "running",
                           !.total = call.page.total, !.processed = call.page.processed]
  <2>1. /\ UNCHANGED <<account, replica, outbox>> /\ Patch(r, record) /\ Done(t) /\ Past(call)
    BY <1>7 DEF Wait, AtStage, Past, history
  <2>2. /\ record.direction = runs[r].direction /\ record.seen = runs[r].seen
        /\ record.state = "running"
    BY <1>a, <2>1 DEF Runs
  <2>. HIDE DEF record
  <2>. QED BY <1>6, <2>1, <2>2
<1>8. CASE Break(t) \/ Stall(t) \/ CancelRun(t)
  <2>1. PICK state \in {"failed", "stalled", "cancelled"} :
          Patch(r, [runs[r] EXCEPT !.state = state])
    BY <1>8 DEF Break, Stall, CancelRun
  <2>. DEFINE record == [runs[r] EXCEPT !.state = state]
  <2>2. UNCHANGED <<account, replica, outbox>> /\ Done(t) /\ Past(call)
    BY <1>8 DEF Break, Stall, CancelRun, AtStage, Past, history
  <2>3. /\ record.direction = runs[r].direction /\ record.seen = runs[r].seen
        /\ record.state = state
    BY <1>a, <2>2 DEF Runs
  <2>4. Patch(r, record)
    BY <2>1
  <2>. HIDE DEF record
  <2>. QED BY <1>6, <2>2, <2>3, <2>4
<1>9. CASE CountResume(t)
  <2>1. /\ UNCHANGED <<account, replica, outbox>> /\ Closes(t, "repolling")
        /\ Patch(r, Counted(r, call.body)) /\ call.stage = "resuming"
    BY <1>9 DEF CountResume, AtStage, history
  <2>2. Past(call) /\ Holding(call)
    BY <2>1 DEF Past, Holding
  <2>3. /\ Counted(r, call.body).direction = runs[r].direction
        /\ account.vendor # "dataverse" => PushedRun(Counted(r, call.body), outbox[r], replica)
    BY <1>0, <2>2, CountedPushed
  <2>. QED BY <2>1, <2>2, <2>3, ClosesPushed
<1>10. CASE PollResumed(t)
  <2>. DEFINE next == Polling(r)
  <2>1. /\ UNCHANGED <<account, replica, runs, outbox>> /\ call.stage = "repolling"
        /\ Done(t) \/ Goes(t, next)
    BY <1>10 DEF PollResumed, AtStage, records, history
  <2>2. next.stage = "polling" /\ next.run = r /\ next.body = runs[r] /\ ~next.pushing
    BY DEF Polling, IdleJob
  <2>. HIDE DEF next
  <2>3. Past(call)
    BY <2>1 DEF Past
  <2>4. Fresh(next) /\ Sided(next, runs[r].direction)
    BY <2>2 DEF Fresh, Sided
  <2>5. account.vendor # "dataverse" => PushedCall(next, outbox[r], replica)
    BY <1>a, <2>2, <2>3 DEF PushedRun, PushedCall
  <2>. QED BY <2>1, <2>2, <2>4, <2>5, PushQuiet, DonePushed
<1>. QED BY <1>1, <1>2, <1>3, <1>4, <1>5, <1>7, <1>8, <1>9, <1>10

LEMMA PushedStep == PushInv /\ [Next]_vars => PushInv'
<1>. SUFFICES ASSUME PushInv, [Next]_vars PROVE PushGood'
  BY TypeStep DEF PushInv
<1>1. ASSUME NEW t \in Threads, NEW direction \in {"pull", "push"}, NEW start \in ScopeStarts,
             NEW scratch \in BOOLEAN, NEW estimate \in {Unknown} \cup 0..MaxRows,
             Start(t, direction, start, scratch, estimate)
      PROVE  PushGood'
  <2>. DEFINE body == [NoRun EXCEPT !.direction = direction, !.start = start, !.to = rows]
              call == [IdleJob EXCEPT !.stage = IF scratch THEN "creating" ELSE "starting",
                                      !.body = body, !.purse = purse, !.loose = (estimate = Unknown)]
  <2>1. Goes(t, call) /\ UNCHANGED <<account, replica, runs, outbox>>
    BY <1>1 DEF Start, Begins, Goes, records
  <2>2. body.seen = 0 /\ body.state = "created"
    BY DEF NoRun
  <2>. HIDE DEF body
  <2>3. call.stage \in {"creating", "starting"} /\ call.body = body /\ ~call.pushing
    BY DEF IdleJob
  <2>. HIDE DEF call
  <2>4. Fresh(call) /\ ~Past(call)
    BY <2>2, <2>3 DEF Fresh, Past
  <2>. QED BY <2>1, <2>4, PushQuiet
<1>2. ASSUME NEW t \in Threads, NEW r, Poll(t, r) \/ Resume(t, r) \/ Cancel(t, r)
      PROVE  PushGood'
  <2>1. r \in DOMAIN runs /\ UNCHANGED <<account, replica, runs, outbox>>
    BY <1>2 DEF Poll, Resume, Cancel, Begins, records
  <2>2. ASSUME NEW next, Goes(t, next), next.run = r, next.body = runs[r], ~next.pushing,
               next.stage \in {"polling", "resuming"}
        PROVE  PushGood'
    <3>1. Fresh(next) /\ Sided(next, runs[r].direction)
      BY <2>2 DEF Fresh, Sided
    <3>2. account.vendor # "dataverse" => PushedCall(next, outbox[r], replica)
      BY <2>1, <2>2 DEF PushInv, PushGood, PushedRun, PushedCall
    <3>. QED BY <2>1, <2>2, <3>1, <3>2, PushQuiet
  <2>3. ASSUME NEW next, Goes(t, next), next.run = r, next.body = NoRun, ~next.pushing,
               next.stage \in {"stalling", "cancelling"}
        PROVE  PushGood'
    <3>1. Fresh(next) /\ Sided(next, runs[r].direction) /\ PushedCall(next, outbox[r], replica)
      BY <2>3, BlankPushed
    <3>. QED BY <2>1, <2>3, <3>1, PushQuiet
  <2>4. LET next == Polling(r)
        IN next.run = r /\ next.body = runs[r] /\ ~next.pushing /\ next.stage = "polling"
    BY DEF Polling, IdleJob
  <2>5. LET next == [Polling(r) EXCEPT !.stage = "resuming"]
        IN next.run = r /\ next.body = runs[r] /\ ~next.pushing /\ next.stage = "resuming"
    BY DEF Polling, IdleJob
  <2>6. \A stage :
        LET next == [IdleJob EXCEPT !.stage = stage, !.run = r]
        IN next.run = r /\ next.body = NoRun /\ ~next.pushing /\ next.stage = stage
    BY DEF IdleJob
  <2>7. \/ Goes(t, Polling(r))
        \/ Goes(t, [Polling(r) EXCEPT !.stage = "resuming"])
        \/ Goes(t, [IdleJob EXCEPT !.stage = "stalling", !.run = r])
        \/ Goes(t, [IdleJob EXCEPT !.stage = "cancelling", !.run = r])
    BY <1>2 DEF Poll, Resume, Cancel, Begins, Goes
  <2>. QED BY <2>2, <2>3, <2>4, <2>5, <2>6, <2>7
<1>3. ASSUME NEW t \in Threads, Handler(t)
      PROVE  PushGood'
  BY <1>3, StartPush, PollPush, LandPush DEF Handler
<1>4. CASE NewRow \/ Tick \/ UNCHANGED vars
  <2>1. UNCHANGED <<account, replica, runs, outbox, job>>
    BY <1>4 DEF NewRow, Tick, vars, records, history
  <2>. QED BY <2>1 DEF PushInv, PushGood
<1>5. CASE Crash
  <2>1. UNCHANGED <<account, replica, runs, outbox>> /\ \A u \in Threads : job'[u] = IdleJob
    BY <1>5 DEF Crash, records
  <2>. QED BY <2>1, IdlePushed DEF PushInv, PushGood
<1>. QED BY <1>1, <1>2, <1>3, <1>4, <1>5 DEF Next

(* The Dataverse adapter has no submit_page: nothing is ever sent to it. *)
NothingSent == account.vendor = "dataverse" => \A r \in DOMAIN outbox : outbox[r].sent = {}

LEMMA NothingStep == TypeInv /\ NothingSent /\ [Next]_vars => NothingSent'
<1>. SUFFICES ASSUME TypeInv, NothingSent, [Next]_vars, account'.vendor = "dataverse"
              PROVE  \A r \in DOMAIN outbox' : outbox'[r].sent = {}
  BY DEF NothingSent
<1>0. account' = account /\ \A r \in DOMAIN outbox : outbox[r].sent = {}
  <2>1. account' = account
    BY BeginsMoves, HandlerMoves DEF Begins, Tick, Crash, records
  <2>. QED BY <2>1 DEF NothingSent
<1>1. outbox \in Seq([sent : SUBSET Rows, moved : BOOLEAN])
  BY DEF TypeInv, TypeOK
<1>2. CASE outbox' = outbox
  BY <1>0, <1>2
<1>3. ASSUME NEW t \in Threads, CreateRun(t)
      PROVE  \A r \in DOMAIN outbox' : outbox'[r].sent = {}
  <2>1. outbox' = Append(outbox, [sent |-> {}, moved |-> FALSE])
    BY <1>3 DEF CreateRun
  <2>2. /\ DOMAIN outbox' = DOMAIN outbox \cup {Len(outbox) + 1}
        /\ \A r \in DOMAIN outbox : outbox'[r] = outbox[r]
        /\ outbox'[Len(outbox) + 1] = [sent |-> {}, moved |-> FALSE]
    BY <1>1, <2>1
  <2>. QED BY <1>0, <2>2
<1>4. ASSUME NEW t \in Threads, Submit(t)
      PROVE  outbox' = outbox
  BY <1>0, <1>4 DEF Submit
<1>5. ASSUME NEW t \in Threads, Land(t)
      PROVE  \A r \in DOMAIN outbox' : outbox'[r].sent = {}
  <2>1. outbox' = [r \in DOMAIN outbox |-> [outbox[r] EXCEPT !.moved = TRUE]]
    BY <1>5 DEF Land
  <2>2. \A r \in DOMAIN outbox : [outbox[r] EXCEPT !.moved = TRUE].sent = outbox[r].sent
    BY <1>1, RowType
  <2>. QED BY <1>0, <2>1, <2>2
<1>6. ASSUME NEW t \in Threads, Handler(t), ~CreateRun(t), ~Submit(t), ~Land(t)
      PROVE  outbox' = outbox
  <2>1. CASE AdoptCursor(t) \/ OpenSpend(t) \/ CallStart(t) \/ OpenJob(t) \/ Decide(t)
    BY <2>1 DEF AdoptCursor, OpenSpend, CallStart, OpenJob, Decide, history
  <2>2. CASE ReadConnection(t) \/ CountPoll(t) \/ Charge(t) \/ Ask(t) \/ ListReplica(t)
    BY <2>2 DEF ReadConnection, CountPoll, Charge, Ask, ListReplica, history
  <2>3. CASE \/ Look(t) \/ Advance(t) \/ PatchRun(t) \/ Wait(t) \/ Finish(t)
             \/ Break(t) \/ Stall(t) \/ CountResume(t) \/ PollResumed(t) \/ CancelRun(t)
    BY <2>3 DEF Look, Advance, PatchRun, Wait, Finish, Break, Stall, CountResume, PollResumed,
                CancelRun, history
  <2>. QED BY <1>6, <2>1, <2>2, <2>3 DEF Handler
<1>7. (\A t \in Threads : ~Handler(t)) => outbox' = outbox
  BY BeginsMoves DEF Begins, Tick, Crash, history
<1>. QED BY <1>2, <1>3, <1>4, <1>5, <1>6, <1>7

(* Whatever calls overlap and wherever the process dies, a push that is     *)
(* complete has sent every row of the replica, unless rows were landed      *)
(* after it was created: what a run has seen, and what a call read of it,   *)
(* was sent (_push_page in engine.py).  A push to Dataverse has sent none,  *)
(* complete or not.                                                         *)
THEOREM PushCorrect == Spec => []PushedAll
<1>1. Init => PushInv
  <2>. SUFFICES ASSUME Init PROVE PushInv
    OBVIOUS
  <2>1. runs = <<>> /\ outbox = <<>> /\ \A u \in Threads : job[u] = IdleJob
    BY DEF Init
  <2>. QED BY <2>1, InitType, IdlePushed DEF PushInv, PushGood
<1>2. PushInv /\ NothingSent => PushedAll
  <2>. SUFFICES ASSUME PushInv, NothingSent, NEW r \in DOMAIN runs,
                       runs[r].state = "complete", runs[r].direction = "push", ~outbox[r].moved
                PROVE  IF account.vendor = "dataverse" THEN outbox[r].sent = {}
                                                       ELSE Keys \subseteq outbox[r].sent
    BY DEF PushedAll
  <2>0. account.vendor = "dataverse" => outbox[r].sent = {}
    BY DEF NothingSent, PushInv, PushGood
  <2>1. outbox[r].moved = FALSE
    <3>1. outbox \in Seq([sent : SUBSET Rows, moved : BOOLEAN]) /\ r \in DOMAIN outbox
      BY DEF PushInv, PushGood, TypeInv, TypeOK
    <3>2. outbox[r] \in [sent : SUBSET Rows, moved : BOOLEAN]
      BY <3>1, RowType
    <3>. QED BY <3>2
  <2>2. account.vendor # "dataverse" => PushedRun(runs[r], outbox[r], replica)
    BY DEF PushInv, PushGood
  <2>. QED BY <2>0, <2>1, <2>2 DEF PushedRun, AllOf, Keys
<1>3. Init => NothingSent
  BY DEF Init, NothingSent
<1>4. PushInv /\ NothingSent /\ [Next]_vars => PushInv' /\ NothingSent'
  BY PushedStep, NothingStep DEF PushInv
<1>. QED BY <1>1, <1>2, <1>3, <1>4, PTL DEF Spec

-----------------------------------------------------------------------------
(* The totals.  A scope is fixed when its run is created, and a total that  *)
(* is known, of a run, of a call's copy of it or of a page, is that of the  *)
(* scope.                                                                   *)

Known(total, run) == total = Unknown \/ total = InScope(run)

Uncreated(call) ==
  call.stage \in {"starting", "creating"} => call.body.total = Unknown /\ call.page.total = Unknown

Scoped(call, run) ==
  /\ call.body.start = run.start /\ call.body.to = run.to
  /\ Known(call.body.total, run) /\ Known(call.page.total, run)

TotalGood ==
  /\ \A r \in DOMAIN runs : Known(runs[r].total, runs[r])
  /\ \A t \in Threads : Uncreated(job[t])
  /\ \A t \in Threads : Holding(job[t]) => Scoped(job[t], runs[job[t].run])

TotalInv == TypeInv /\ TotalGood

LEMMA SameScope ==
  ASSUME NEW run, NEW other, other.start = run.start, other.to = run.to
  PROVE  /\ \A total : Known(total, run) <=> Known(total, other)
         /\ \A call : Scoped(call, run) <=> Scoped(call, other)
BY DEF Known, Scoped, InScope

LEMMA TotalStep ==
  ASSUME TotalInv, NEW t \in Threads, NEW next, Goes(t, next),
         \A r \in DOMAIN runs : runs'[r].start = runs[r].start /\ runs'[r].to = runs[r].to,
         \A r \in DOMAIN runs' : Known(runs'[r].total, runs'[r]),
         Uncreated(next), Holding(next) => Scoped(next, runs'[next.run])
  PROVE  TotalGood'
<1>1. job'[t] = next /\ \A u \in Threads : u # t => job'[u] = job[u]
  BY GoesMoves DEF TotalInv
<1>2. ASSUME NEW u \in Threads
      PROVE  /\ Uncreated(job'[u])
             /\ Holding(job'[u]) => Scoped(job'[u], runs'[job'[u].run])
  <2>1. CASE u = t
    BY <1>1, <2>1
  <2>2. CASE u # t
    <3>1. job'[u] = job[u] /\ Uncreated(job[u])
      BY <1>1, <2>2 DEF TotalInv, TotalGood
    <3>2. ASSUME Holding(job[u])
          PROVE  Scoped(job[u], runs'[job[u].run])
      <4>1. job[u].run \in DOMAIN runs
        BY <3>2, JobType DEF Holding, TotalInv
      <4>2. Scoped(job[u], runs[job[u].run])
        BY <3>2 DEF TotalInv, TotalGood
      <4>. QED BY <4>1, <4>2, SameScope
    <3>. QED BY <3>1, <3>2
  <2>. QED BY <2>1, <2>2
<1>. QED BY <1>2 DEF TotalGood

(* A step that leaves the runs alone, and one that writes a run's record.   *)
LEMMA TotalQuiet ==
  ASSUME TotalInv, NEW t \in Threads, NEW next, Goes(t, next), UNCHANGED runs,
         Uncreated(next), Holding(next) => Scoped(next, runs[next.run])
  PROVE  TotalGood'
BY TotalStep DEF TotalInv, TotalGood

LEMMA TotalPatch ==
  ASSUME TotalInv, NEW t \in Threads, NEW next, Goes(t, next),
         NEW r \in DOMAIN runs, NEW record, Patch(r, record),
         record.start = runs[r].start, record.to = runs[r].to, Known(record.total, runs[r]),
         Uncreated(next), Holding(next) => next.run = r /\ Scoped(next, runs[r])
  PROVE  TotalGood'
<1>1. DOMAIN runs' = DOMAIN runs /\ \A i \in DOMAIN runs : runs'[i] = IF i = r THEN record ELSE runs[i]
  BY DEF Patch
<1>2. \A i \in DOMAIN runs : runs'[i].start = runs[i].start /\ runs'[i].to = runs[i].to
  BY <1>1
<1>3. ASSUME NEW i \in DOMAIN runs'
      PROVE  Known(runs'[i].total, runs'[i])
  <2>1. Known(runs'[i].total, runs[i])
    BY <1>1 DEF TotalInv, TotalGood
  <2>. QED BY <1>1, <1>2, <2>1, SameScope
<1>4. Holding(next) => Scoped(next, runs'[next.run])
  BY <1>1, SameScope
<1>. QED BY <1>2, <1>3, <1>4, TotalStep

(* A call that goes on with the run and the page it holds, or with neither. *)
LEMMA KeptTotal ==
  ASSUME TotalInv, NEW t \in Threads, Holding(job[t]), NEW next,
         next.body = job[t].body, next.page = job[t].page,
         next.stage \notin {"starting", "creating"}
  PROVE  Uncreated(next) /\ Scoped(next, runs[job[t].run])
BY DEF TotalInv, TotalGood, Scoped, Uncreated

LEMMA BareTotal ==
  ASSUME NEW stage \in {"breaking", "stalling", "cancelling", "repolling"}, NEW r
  PROVE  LET gone == [IdleJob EXCEPT !.stage = stage, !.run = r]
         IN /\ Uncreated(gone) /\ ~Holding(gone)
            /\ Uncreated(IdleJob) /\ ~Holding(IdleJob)
<1>. DEFINE gone == [IdleJob EXCEPT !.stage = stage, !.run = r]
<1>1. gone.stage = stage /\ IdleJob.stage = "idle"
  BY DEF IdleJob
<1>. HIDE DEF gone
<1>2. Uncreated(gone) /\ ~Holding(gone) /\ Uncreated(IdleJob) /\ ~Holding(IdleJob)
  BY <1>1 DEF Uncreated, Holding
<1>. QED BY <1>2 DEF gone

(* A run named by a call, and what writing its counters keeps. *)
LEMMA TotalFacts ==
  ASSUME TotalInv, NEW t \in Threads
  PROVE  /\ TypeInv /\ job[t] \in Jobs /\ job[t].body \in Runs /\ job[t].page \in Pages
         /\ Past(job[t]) =>
              LET r == job[t].run
              IN r \in DOMAIN runs /\ runs[r] \in Runs /\ Known(runs[r].total, runs[r])
         /\ Holding(job[t]) => Past(job[t]) /\ Scoped(job[t], runs[job[t].run])
<1>1. TypeInv /\ job[t] \in Jobs /\ job[t].body \in Runs /\ job[t].page \in Pages
  BY JobType DEF TotalInv
<1>2. Past(job[t]) => job[t].run \in DOMAIN runs /\ runs[job[t].run] \in Runs
  BY <1>1, JobType DEF Past
<1>3. Holding(job[t]) => Past(job[t])
  BY DEF Holding, Past
<1>. QED BY <1>1, <1>2, <1>3 DEF TotalInv, TotalGood

LEMMA CountedTotal ==
  ASSUME TotalInv, NEW r \in DOMAIN runs, NEW body \in Runs
  PROVE  LET record == Counted(r, body)
         IN /\ record.start = runs[r].start /\ record.to = runs[r].to
            /\ Known(record.total, runs[r])
<1>1. runs[r] \in Runs /\ Known(runs[r].total, runs[r])
  BY DEF TotalInv, TypeInv, TypeOK, TotalGood
<1>2. /\ Counted(r, body).start = runs[r].start /\ Counted(r, body).to = runs[r].to
      /\ Counted(r, body).total = runs[r].total
  BY <1>1 DEF Counted, Runs
<1>. QED BY <1>1, <1>2

(* The pages of the vendors. *)
LEMMA PageTotals ==
  ASSUME NEW run \in Runs, NEW adopted
  PROVE  /\ StartPage(run, adopted).total = InScope(run)
         /\ ReadPage(run).total \in {run.total, InScope(run)}
<1>1. \A offset, total : PageAt(run, offset, total).total = total
  BY DEF PageAt
<1>2. \A other : NotReady(other).total = other.total
  BY DEF NotReady, NoPage
<1>3. StartPage(run, adopted).total = InScope(run)
  <2>1. CASE account.vendor = "dataverse"
    <3>. DEFINE page == PageAt(run, Offset(adopted), InScope(run))
    <3>1. page.total = InScope(run) /\ StartPage(run, adopted) = [page EXCEPT !.token = page.processed]
      BY <1>1, <2>1 DEF StartPage
    <3>2. [page EXCEPT !.token = page.processed].total = page.total
      BY DEF PageAt
    <3>. HIDE DEF page
    <3>. QED BY <3>1, <3>2
  <2>2. CASE account.vendor # "dataverse"
    <3>. DEFINE fresh == [run EXCEPT !.total = InScope(run), !.processed = 0]
    <3>1. StartPage(run, adopted) = NotReady(fresh)
      BY <2>2 DEF StartPage
    <3>2. fresh.total = InScope(run)
      BY DEF Runs
    <3>. HIDE DEF fresh
    <3>. QED BY <1>2, <3>1, <3>2
  <2>. QED BY <2>1, <2>2
<1>4. ReadPage(run).total \in {run.total, InScope(run)}
  BY <1>1, <1>2 DEF ReadPage
<1>. QED BY <1>3, <1>4

(* The steps of start. *)
LEMMA StartTotal ==
  ASSUME TotalInv, NEW t \in Threads,
         \/ AdoptCursor(t) \/ CreateRun(t) \/ OpenSpend(t) \/ CallStart(t) \/ OpenJob(t)
         \/ Decide(t)
  PROVE  TotalGood'
<1>. DEFINE call == job[t]
            r == job[t].run
            gone == [IdleJob EXCEPT !.stage = "breaking", !.run = r]
<1>0. TypeInv /\ call \in Jobs /\ call.body \in Runs /\ call.page \in Pages
  BY TotalFacts
<1>a. ASSUME Holding(call)
      PROVE  /\ r \in DOMAIN runs /\ runs[r] \in Runs /\ Known(runs[r].total, runs[r])
             /\ Scoped(call, runs[r])
  BY <1>a, TotalFacts
<1>i. Uncreated(gone) /\ ~Holding(gone) /\ Uncreated(IdleJob) /\ ~Holding(IdleJob)
  BY BareTotal
<1>. HIDE DEF gone
<1>1. CASE AdoptCursor(t)
  <2>1. UNCHANGED runs /\ call.stage = "starting"
    BY <1>1 DEF AdoptCursor, AtStage, records
  <2>2. CASE Done(t)
    BY <1>i, <2>1, <2>2, TotalQuiet DEF Done
  <2>3. CASE ~Done(t)
    <3>1. PICK loose \in BOOLEAN :
            Goes(t, [call EXCEPT !.stage = "creating", !.adopted = stored, !.loose = loose])
      BY <1>0, <1>1, <2>3, AdoptedCall
    <3>. DEFINE next == [call EXCEPT !.stage = "creating", !.adopted = stored, !.loose = loose]
    <3>2. next.stage = "creating" /\ next.body = call.body /\ next.page = call.page
      BY <1>0 DEF Jobs
    <3>3. Goes(t, next)
      BY <3>1
    <3>. HIDE DEF next
    <3>4. Uncreated(next) /\ ~Holding(next)
      BY <2>1, <3>2 DEF TotalInv, TotalGood, Uncreated, Holding
    <3>. QED BY <2>1, <3>3, <3>4, TotalQuiet
  <2>. QED BY <2>2, <2>3
<1>2. CASE CreateRun(t)
  <2>. DEFINE next == [call EXCEPT !.stage = "opening", !.run = Len(runs) + 1]
  <2>1. /\ call.stage = "creating" /\ runs' = Append(runs, call.body)
        /\ Goes(t, next) \/ Goes(t, IdleJob)
    BY <1>2 DEF CreateRun, AtStage, Done
  <2>2. call.body.total = Unknown /\ call.page.total = Unknown
    BY <2>1 DEF TotalInv, TotalGood, Uncreated
  <2>3. runs \in Seq(Runs)
    BY <1>0 DEF TypeInv, TypeOK
  <2>4. /\ DOMAIN runs' = 1..(Len(runs) + 1) /\ DOMAIN runs = 1..Len(runs) /\ Len(runs) \in Nat
        /\ \A i \in 1..Len(runs) : runs'[i] = runs[i]
        /\ runs'[Len(runs) + 1] = call.body
    BY <1>0, <2>1, <2>3, AppendProperties
  <2>5. \A i \in DOMAIN runs : runs'[i].start = runs[i].start /\ runs'[i].to = runs[i].to
    BY <2>4
  <2>6. ASSUME NEW i \in DOMAIN runs'
        PROVE  Known(runs'[i].total, runs'[i])
    <3>1. CASE i \in 1..Len(runs)
      BY <2>4, <3>1 DEF TotalInv, TotalGood
    <3>2. CASE i = Len(runs) + 1
      BY <2>2, <2>4, <3>2 DEF Known
    <3>. QED BY <2>4, <3>1, <3>2
  <2>7. /\ next.stage = "opening" /\ next.run = Len(runs) + 1 /\ next.body = call.body
        /\ next.page = call.page
    BY <1>0 DEF Jobs
  <2>. HIDE DEF next
  <2>8. Uncreated(next) /\ Scoped(next, runs'[next.run])
    BY <2>2, <2>4, <2>7 DEF Uncreated, Scoped, Known
  <2>. QED BY <1>i, <2>1, <2>5, <2>6, <2>8, TotalStep
<1>3. CASE OpenSpend(t)
  <2>. DEFINE next == [call EXCEPT !.stage = "calling"]
  <2>1. UNCHANGED runs /\ (Goes(t, IdleJob) \/ Goes(t, next)) /\ call.stage = "opening"
    BY <1>3 DEF OpenSpend, GoesTo, Done, AtStage
  <2>2. /\ next.stage = "calling" /\ next.body = call.body /\ next.page = call.page
        /\ next.run = r
    BY <1>0 DEF Jobs
  <2>. HIDE DEF next
  <2>3. Uncreated(next) /\ Scoped(next, runs[next.run])
    BY <2>1, <2>2, KeptTotal DEF Holding
  <2>. QED BY <1>i, <2>1, <2>3, TotalQuiet
<1>4. CASE CallStart(t)
  <2>. DEFINE page == StartPage(call.body, call.adopted)
              next == [call EXCEPT !.stage = "opened", !.page = page]
  <2>1. /\ call.stage = "calling" /\ Patch(r, Counted(r, call.body))
        /\ Goes(t, next) \/ Goes(t, gone)
    BY <1>4 DEF CallStart, AtStage, Closes, gone
  <2>2. r \in DOMAIN runs /\ Scoped(call, runs[r])
    BY <1>a, <2>1 DEF Holding
  <2>3. page.total = InScope(call.body)
    BY <1>0, PageTotals
  <2>. HIDE DEF page
  <2>4. /\ next.stage = "opened" /\ next.body = call.body /\ next.page = page
        /\ next.run = r
    BY <1>0 DEF Jobs
  <2>. HIDE DEF next
  <2>5. Uncreated(next) /\ Scoped(next, runs[r])
    BY <2>2, <2>3, <2>4 DEF Uncreated, Scoped, Known, InScope
  <2>. QED BY <1>0, <1>i, <2>1, <2>2, <2>4, <2>5, CountedTotal, TotalPatch
<1>5. CASE OpenJob(t)
  <2>. DEFINE opened == [runs[r] EXCEPT !.state = "running", !.total = call.page.total,
                                        !.processed = call.page.processed]
              next == [call EXCEPT !.stage = "deciding", !.body = opened]
  <2>1. call.stage = "opened" /\ Patch(r, opened) /\ Goes(t, next)
    BY <1>5 DEF OpenJob, AtStage
  <2>2. r \in DOMAIN runs /\ runs[r] \in Runs /\ Scoped(call, runs[r])
    BY <1>a, <2>1 DEF Holding
  <2>3. /\ opened.start = runs[r].start /\ opened.to = runs[r].to
        /\ opened.total = call.page.total
    BY <2>2 DEF Runs
  <2>. HIDE DEF opened
  <2>4. /\ next.stage = "deciding" /\ next.body = opened /\ next.page = call.page
        /\ next.run = r
    BY <1>0 DEF Jobs
  <2>. HIDE DEF next
  <2>5. Uncreated(next) /\ Scoped(next, runs[r]) /\ Known(opened.total, runs[r])
    BY <2>2, <2>3, <2>4 DEF Uncreated, Scoped
  <2>. QED BY <2>1, <2>2, <2>3, <2>4, <2>5, TotalPatch
<1>6. CASE Decide(t)
  <2>. DEFINE again == [call EXCEPT !.stage = "opening", !.again = TRUE]
              on == [IdleJob EXCEPT !.stage = After(call.page), !.run = r,
                                    !.body = call.body, !.page = call.page]
  <2>1. /\ call.stage = "deciding" /\ Patch(r, Counted(r, call.body))
        /\ Goes(t, again) \/ Goes(t, on)
    BY <1>6 DEF Decide, AtStage
  <2>2. Holding(call) /\ r \in DOMAIN runs
    BY <1>a, <2>1 DEF Holding
  <2>3. /\ again.stage = "opening" /\ again.body = call.body /\ again.page = call.page
        /\ again.run = r
    BY <1>0 DEF Jobs
  <2>4. /\ on.stage = After(call.page) /\ on.body = call.body /\ on.page = call.page
        /\ on.run = r
    BY DEF IdleJob
  <2>. HIDE DEF again, on
  <2>5. on.stage \notin {"starting", "creating"}
    BY <2>4 DEF After
  <2>6. Uncreated(again) /\ Scoped(again, runs[r]) /\ Uncreated(on) /\ Scoped(on, runs[r])
    BY <2>2, <2>3, <2>4, <2>5, KeptTotal
  <2>. QED BY <1>0, <2>1, <2>2, <2>3, <2>4, <2>6, CountedTotal, TotalPatch
<1>. QED BY <1>1, <1>2, <1>3, <1>4, <1>5, <1>6

(* The steps of poll up to the page, and those that land it. *)
LEMMA PollTotal ==
  ASSUME TotalInv, NEW t \in Threads,
         \/ ReadConnection(t) \/ CountPoll(t) \/ Charge(t) \/ Ask(t) \/ ListReplica(t)
         \/ Submit(t) \/ Look(t) \/ Land(t) \/ Advance(t)
  PROVE  TotalGood'
<1>. DEFINE call == job[t]
            r == job[t].run
            gone == [IdleJob EXCEPT !.stage = "breaking", !.run = r]
            stalled == [IdleJob EXCEPT !.stage = "stalling", !.run = r]
<1>0. TypeInv /\ call \in Jobs /\ call.body \in Runs /\ call.page \in Pages
  BY TotalFacts
<1>a. ASSUME Holding(call)
      PROVE  /\ r \in DOMAIN runs /\ runs[r] \in Runs /\ Known(runs[r].total, runs[r])
             /\ Scoped(call, runs[r])
  BY <1>a, TotalFacts
<1>i. /\ Uncreated(gone) /\ ~Holding(gone) /\ Uncreated(stalled) /\ ~Holding(stalled)
      /\ Uncreated(IdleJob) /\ ~Holding(IdleJob)
  BY BareTotal
<1>. HIDE DEF gone, stalled
(* The call keeps the run and the page it holds. *)
<1>k. ASSUME NEW stage \in {"counting", "listing", "asking", "advancing", "landing", "patching"},
             NEW next, next.stage = stage, next.body = call.body, next.page = call.page,
             next.run = r, Holding(call), UNCHANGED runs, Goes(t, next)
      PROVE  TotalGood'
  <2>1. Uncreated(next) /\ Scoped(next, runs[r])
    BY <1>k, KeptTotal
  <2>. QED BY <1>k, <2>1, TotalQuiet
<1>s. \A stage : LET next == [call EXCEPT !.stage = stage]
                 IN /\ next.stage = stage /\ next.body = call.body /\ next.page = call.page
                    /\ next.run = r
  BY <1>0 DEF Jobs
<1>1. CASE ReadConnection(t)
  <2>. DEFINE next == [call EXCEPT !.stage = "counting", !.purse = purse]
  <2>1. UNCHANGED runs /\ Goes(t, next) /\ Holding(call)
    BY <1>1 DEF ReadConnection, records, AtStage, Holding
  <2>2. /\ next.stage = "counting" /\ next.body = call.body /\ next.page = call.page
        /\ next.run = r
    BY <1>0 DEF Jobs
  <2>. HIDE DEF next
  <2>. QED BY <1>k, <2>1, <2>2
<1>2. CASE CountPoll(t)
  <2>. DEFINE polls == IF call.body.polls < ReadyAfter THEN call.body.polls + 1
                       ELSE call.body.polls
              counted == [call.body EXCEPT !.polls = polls]
              next == [call EXCEPT !.stage = "charging", !.body = counted]
  <2>1. Holding(call)
    BY <1>2 DEF CountPoll, AtStage, Holding
  <2>2. Patch(r, Counted(r, counted)) /\ (Goes(t, stalled) \/ Goes(t, next))
    BY <1>2 DEF CountPoll, Runs, Closes, stalled
  <2>3. /\ counted \in Runs /\ counted.start = call.body.start /\ counted.to = call.body.to
        /\ counted.total = call.body.total
    <3>1. polls \in Nat
      BY <1>0 DEF Runs
    <3>. HIDE DEF polls
    <3>. QED BY <1>0, <3>1 DEF Runs
  <2>. HIDE DEF counted
  <2>4. r \in DOMAIN runs /\ Scoped(call, runs[r])
    BY <1>a, <2>1
  <2>5. /\ next.stage = "charging" /\ next.body = counted /\ next.page = call.page
        /\ next.run = r
    BY <1>0 DEF Jobs
  <2>. HIDE DEF next
  <2>6. Uncreated(next) /\ Scoped(next, runs[r])
    BY <2>3, <2>4, <2>5 DEF Uncreated, Scoped
  <2>. QED BY <1>i, <2>2, <2>3, <2>4, <2>5, <2>6, CountedTotal, TotalPatch
<1>3. CASE Charge(t)
  <2>1. PICK stage \in {"listing", "asking"} :
          Goes(t, IdleJob) \/ Goes(t, [call EXCEPT !.stage = stage])
    BY <1>3 DEF Charge, GoesTo, Done
  <2>2. UNCHANGED runs /\ Holding(call)
    BY <1>3 DEF Charge, AtStage, Holding
  <2>. QED BY <1>i, <1>k, <1>s, <2>1, <2>2, TotalQuiet
<1>4. CASE Ask(t)
  <2>. DEFINE page == ReadPage(call.body)
              next == [call EXCEPT !.stage = After(page), !.page = page]
  <2>1. UNCHANGED runs /\ (Goes(t, next) \/ Goes(t, gone)) /\ Holding(call)
    BY <1>4 DEF Ask, records, Closes, gone, AtStage, Holding
  <2>2. page.total \in {call.body.total, InScope(call.body)}
    BY <1>0, PageTotals
  <2>. HIDE DEF page
  <2>3. /\ next.stage \notin {"starting", "creating"} /\ next.body = call.body
        /\ next.page = page /\ next.run = r
    BY <1>0 DEF Jobs, After
  <2>. HIDE DEF next
  <2>4. Uncreated(next) /\ Scoped(next, runs[r])
    BY <1>a, <2>1, <2>2, <2>3 DEF Uncreated, Scoped, Known, InScope
  <2>. QED BY <1>i, <2>1, <2>3, <2>4, TotalQuiet
<1>5. CASE ListReplica(t)
  <2>1. PICK next : /\ Goes(t, next) /\ next.body = call.body /\ next.run = r
                    /\ next.page.total = call.body.total
                    /\ next.stage \in {"finishing", "submitting"}
    <3>. DEFINE listed == Listed(call.body.seen)
                size == Cardinality(Window(call.body.seen))
                page == [NoPage EXCEPT !.rows = listed, !.size = size, !.total = call.body.total,
                                !.processed = call.body.processed,
                                !.more = size = PageSize]
                next == [call EXCEPT
                           !.pushing = TRUE,
                           !.stage = IF listed = {} THEN "finishing" ELSE "submitting",
                           !.page = page]
    <3>1. Goes(t, next)
      BY <1>5 DEF ListReplica
    <3>. HIDE DEF listed, size
    <3>2. page.total = call.body.total
      BY DEF NoPage
    <3>. HIDE DEF page
    <3>3. /\ next.body = call.body /\ next.run = r /\ next.page = page
          /\ next.stage \in {"finishing", "submitting"}
      BY <1>0 DEF Jobs
    <3>. HIDE DEF next
    <3>. QED BY <3>1, <3>2, <3>3
  <2>2. UNCHANGED runs /\ Holding(call)
    BY <1>5 DEF ListReplica, records, AtStage, Holding
  <2>3. Uncreated(next) /\ Scoped(next, runs[r])
    BY <1>a, <2>1, <2>2 DEF Uncreated, Scoped
  <2>. QED BY <2>1, <2>2, <2>3, TotalQuiet
<1>6. CASE Submit(t) \/ Land(t) \/ Advance(t)
  <2>1. PICK stage \in {"advancing", "patching"} :
          Goes(t, gone) \/ Goes(t, [call EXCEPT !.stage = stage])
    BY <1>6 DEF Submit, Land, Advance, GoesTo, Closes, gone
  <2>2. UNCHANGED runs /\ Holding(call)
    BY <1>6 DEF Submit, Land, Advance, records, AtStage, Holding
  <2>. QED BY <1>i, <1>k, <1>s, <2>1, <2>2, TotalQuiet
<1>7. CASE Look(t)
  <2>. DEFINE missing == call.page.rows \ Keys
              stage == IF missing = {} THEN "advancing" ELSE "landing"
              next == [call EXCEPT !.missing = missing, !.stage = stage]
  <2>1. UNCHANGED runs /\ Goes(t, next) /\ Holding(call)
    BY <1>7 DEF Look, records, AtStage, Holding
  <2>2. stage \in {"advancing", "landing"}
    OBVIOUS
  <2>. HIDE DEF missing, stage
  <2>3. /\ next.stage = stage /\ next.body = call.body /\ next.page = call.page
        /\ next.run = r
    BY <1>0 DEF Jobs
  <2>. HIDE DEF next
  <2>. QED BY <1>k, <2>1, <2>2, <2>3
<1>. QED BY <1>1, <1>2, <1>3, <1>4, <1>5, <1>6, <1>7

(* The steps that end a call, and those of resume. *)
LEMMA EndTotal ==
  ASSUME TotalInv, NEW t \in Threads,
         \/ PatchRun(t) \/ Wait(t) \/ Finish(t) \/ Break(t) \/ Stall(t) \/ CountResume(t)
         \/ PollResumed(t) \/ CancelRun(t)
  PROVE  TotalGood'
<1>. DEFINE call == job[t]
            r == job[t].run
<1>0. TypeInv /\ call \in Jobs /\ call.body \in Runs /\ call.page \in Pages
  BY TotalFacts
<1>i. Uncreated(IdleJob) /\ ~Holding(IdleJob)
  BY BareTotal
<1>a. ASSUME Past(call)
      PROVE  r \in DOMAIN runs /\ runs[r] \in Runs /\ Known(runs[r].total, runs[r])
  BY <1>a, TotalFacts
<1>b. ASSUME NEW record, Patch(r, record), Goes(t, IdleJob), Past(call),
             record.start = runs[r].start, record.to = runs[r].to, Known(record.total, runs[r])
      PROVE  TotalGood'
  BY <1>a, <1>b, <1>i, TotalPatch
<1>c. ASSUME Holding(call)
      PROVE  Past(call) /\ Known(call.page.total, runs[r])
  BY <1>c, TotalFacts DEF Scoped
<1>1. CASE PatchRun(t)
  <2>. DEFINE record == [runs[r] EXCEPT !.state = IF call.page.more THEN "running" ELSE "complete",
                                        !.total = call.page.total,
                                        !.processed = call.page.processed,
                                        !.cursor = NewCursor(t),
                                        !.seen = call.body.seen + call.page.size,
                                        !.polls = call.body.polls]
  <2>1. Patch(r, record) /\ Goes(t, IdleJob) /\ Holding(call)
    BY <1>1 DEF PatchRun, AtStage, Done, Holding
  <2>2. /\ record.start = runs[r].start /\ record.to = runs[r].to
        /\ record.total = call.page.total
    BY <1>a, <1>c, <2>1 DEF Runs
  <2>. HIDE DEF record
  <2>. QED BY <1>b, <1>c, <2>1, <2>2
<1>2. CASE Wait(t)
  <2>. DEFINE record == [runs[r] EXCEPT !.state = "running",
                           !.total = call.page.total, !.processed = call.page.processed]
  <2>1. Patch(r, record) /\ Goes(t, IdleJob) /\ Holding(call)
    BY <1>2 DEF Wait, AtStage, Done, Holding
  <2>2. /\ record.start = runs[r].start /\ record.to = runs[r].to
        /\ record.total = call.page.total
    BY <1>a, <1>c, <2>1 DEF Runs
  <2>. HIDE DEF record
  <2>. QED BY <1>b, <1>c, <2>1, <2>2
<1>3. CASE Finish(t)
  <2>. DEFINE kept == Counted(r, call.body)
              record == [kept EXCEPT !.state = "complete", !.total = call.page.total,
                                     !.processed = call.page.processed]
  <2>1. Patch(r, record) /\ Goes(t, IdleJob) /\ Holding(call)
    BY <1>3 DEF Finish, AtStage, Done, Holding
  <2>2. r \in DOMAIN runs
    BY <1>a, <1>c, <2>1
  <2>3. kept \in Runs /\ kept.start = runs[r].start /\ kept.to = runs[r].to
    BY <1>0, <2>2, CountedType, CountedTotal
  <2>. HIDE DEF kept
  <2>4. /\ record.start = runs[r].start /\ record.to = runs[r].to
        /\ record.total = call.page.total
    BY <2>3 DEF Runs
  <2>. HIDE DEF record
  <2>. QED BY <1>b, <1>c, <2>1, <2>4
<1>4. CASE Break(t) \/ Stall(t) \/ CancelRun(t)
  <2>1. PICK state : Patch(r, [runs[r] EXCEPT !.state = state])
    BY <1>4 DEF Break, Stall, CancelRun
  <2>. DEFINE record == [runs[r] EXCEPT !.state = state]
  <2>2. Goes(t, IdleJob) /\ Past(call) /\ Patch(r, record)
    BY <1>4, <2>1 DEF Break, Stall, CancelRun, AtStage, Past, Done
  <2>3. record.start = runs[r].start /\ record.to = runs[r].to /\ record.total = runs[r].total
    BY <1>a, <2>2 DEF Runs
  <2>. HIDE DEF record
  <2>. QED BY <1>a, <1>b, <2>2, <2>3
<1>5. CASE CountResume(t)
  <2>. DEFINE gone == [IdleJob EXCEPT !.stage = "repolling", !.run = r]
  <2>1. Patch(r, Counted(r, call.body)) /\ Goes(t, gone) /\ Past(call)
    BY <1>5 DEF CountResume, AtStage, Past, Closes
  <2>2. Uncreated(gone) /\ ~Holding(gone)
    BY BareTotal
  <2>. HIDE DEF gone
  <2>. QED BY <1>0, <1>a, <2>1, <2>2, CountedTotal, TotalPatch
<1>6. CASE PollResumed(t)
  <2>. DEFINE next == Polling(r)
  <2>1. UNCHANGED runs /\ (Goes(t, IdleJob) \/ Goes(t, next)) /\ Past(call)
    BY <1>6 DEF PollResumed, records, Done, AtStage, Past
  <2>2. /\ next.stage = "polling" /\ next.run = r /\ next.body = runs[r]
        /\ next.page.total = Unknown
    BY DEF Polling, IdleJob, NoPage
  <2>. HIDE DEF next
  <2>3. Uncreated(next) /\ Scoped(next, runs[r])
    BY <1>a, <2>1, <2>2 DEF Uncreated, Scoped, Known
  <2>. QED BY <1>i, <2>1, <2>2, <2>3, TotalQuiet
<1>. QED BY <1>1, <1>2, <1>3, <1>4, <1>5, <1>6

LEMMA TotalNext == TotalInv /\ [Next]_vars => TotalInv'
<1>. SUFFICES ASSUME TotalInv, [Next]_vars PROVE TotalGood'
  BY TypeStep DEF TotalInv
<1>1. ASSUME NEW t \in Threads, NEW direction \in {"pull", "push"}, NEW start \in ScopeStarts,
             NEW scratch \in BOOLEAN, NEW estimate \in {Unknown} \cup 0..MaxRows,
             Start(t, direction, start, scratch, estimate)
      PROVE  TotalGood'
  <2>. DEFINE body == [NoRun EXCEPT !.direction = direction, !.start = start, !.to = rows]
              call == [IdleJob EXCEPT !.stage = IF scratch THEN "creating" ELSE "starting",
                                      !.body = body, !.purse = purse, !.loose = (estimate = Unknown)]
  <2>1. Goes(t, call) /\ UNCHANGED runs
    BY <1>1 DEF Start, Begins, Goes, records
  <2>2. body.total = Unknown
    BY DEF NoRun
  <2>. HIDE DEF body
  <2>3. call.stage \in {"creating", "starting"} /\ call.body = body /\ call.page.total = Unknown
    BY DEF IdleJob, NoPage
  <2>. HIDE DEF call
  <2>4. Uncreated(call) /\ ~Holding(call)
    BY <2>2, <2>3 DEF Uncreated, Holding
  <2>. QED BY <2>1, <2>4, TotalQuiet
<1>2. ASSUME NEW t \in Threads, NEW r, Poll(t, r) \/ Resume(t, r) \/ Cancel(t, r)
      PROVE  TotalGood'
  <2>1. r \in DOMAIN runs /\ UNCHANGED runs
    BY <1>2 DEF Poll, Resume, Cancel, Begins, records
  <2>2. ASSUME NEW next, Goes(t, next), next.run = r, next.body = runs[r],
               next.page.total = Unknown, next.stage \in {"polling", "resuming"}
        PROVE  TotalGood'
    <3>1. Uncreated(next) /\ Scoped(next, runs[r])
      BY <2>1, <2>2 DEF TotalInv, TotalGood, Uncreated, Scoped, Known
    <3>. QED BY <2>1, <2>2, <3>1, TotalQuiet
  <2>3. LET next == Polling(r)
        IN next.run = r /\ next.body = runs[r] /\ next.page.total = Unknown /\ next.stage = "polling"
    BY DEF Polling, IdleJob, NoPage
  <2>4. LET next == [Polling(r) EXCEPT !.stage = "resuming"]
        IN next.run = r /\ next.body = runs[r] /\ next.page.total = Unknown /\ next.stage = "resuming"
    BY DEF Polling, IdleJob, NoPage
  <2>5. ASSUME NEW stage \in {"stalling", "cancelling"},
               Goes(t, [IdleJob EXCEPT !.stage = stage, !.run = r])
        PROVE  TotalGood'
    <3>. DEFINE gone == [IdleJob EXCEPT !.stage = stage, !.run = r]
    <3>1. Uncreated(gone) /\ ~Holding(gone)
      BY BareTotal
    <3>2. Goes(t, gone)
      BY <2>5
    <3>. HIDE DEF gone
    <3>. QED BY <2>1, <3>1, <3>2, TotalQuiet
  <2>6. \/ Goes(t, Polling(r))
        \/ Goes(t, [Polling(r) EXCEPT !.stage = "resuming"])
        \/ Goes(t, [IdleJob EXCEPT !.stage = "stalling", !.run = r])
        \/ Goes(t, [IdleJob EXCEPT !.stage = "cancelling", !.run = r])
    BY <1>2 DEF Poll, Resume, Cancel, Begins, Goes
  <2>. QED BY <2>2, <2>3, <2>4, <2>5, <2>6
<1>3. ASSUME NEW t \in Threads, Handler(t)
      PROVE  TotalGood'
  BY <1>3, StartTotal, PollTotal, EndTotal DEF Handler
<1>4. CASE NewRow \/ Tick \/ UNCHANGED vars
  <2>1. UNCHANGED <<runs, job>>
    BY <1>4 DEF NewRow, Tick, vars, records
  <2>. QED BY <2>1 DEF TotalInv, TotalGood
<1>5. CASE Crash
  <2>1. UNCHANGED runs /\ \A u \in Threads : job'[u] = IdleJob
    BY <1>5 DEF Crash, records
  <2>. QED BY <2>1, BareTotal DEF TotalInv, TotalGood
<1>. QED BY <1>1, <1>2, <1>3, <1>4, <1>5 DEF Next

LEMMA TotalInit == Init => TotalInv
<1>. SUFFICES ASSUME Init PROVE TotalInv
  OBVIOUS
<1>1. runs = <<>> /\ \A u \in Threads : job[u] = IdleJob
  BY DEF Init
<1>2. Uncreated(IdleJob) /\ ~Holding(IdleJob)
  BY BareTotal
<1>3. TotalGood
  BY <1>1, <1>2 DEF TotalGood
<1>. QED BY <1>3, InitType DEF TotalInv

-----------------------------------------------------------------------------
(* A pull that is complete.  A page without more, out of a known total,     *)
(* reaches the total, and only such a page completes a run: until it is     *)
(* patched its call holds it, with the rows that are still on their way to  *)
(* the replica.  A page that goes out to the vendor completes a push.       *)

Paged(call) ==
  call.stage \in {"opened", "deciding", "looking", "landing", "advancing", "patching", "finishing"}

Whole(page, keys) == (page.total # Unknown /\ ~page.more) => Within(page.total, keys)

CoveredRun(run, keys) ==
  (run.state = "complete" /\ run.direction = "pull" /\ run.total # Unknown)
  => Within(run.total, keys)

CoveredCall(call, keys) ==
  /\ call.stage = "submitting" => call.pushing
  /\ (Paged(call) /\ ~call.pushing) => Whole(call.page, keys \union Pending(call))
  /\ (call.stage = "finishing" /\ ~call.pushing) => ~call.page.more

CoverGood ==
  /\ \A r \in DOMAIN runs : CoveredRun(runs[r], Keys)
  /\ \A t \in Threads : CoveredCall(job[t], Keys)

CoverInv == ResumeInv /\ PushInv /\ CoverGood

LEMMA PageAtWhole ==
  ASSUME NEW run \in Runs, run.start = 0, NEW offset \in Nat, NEW total \in Int, NEW keys,
         Within(offset, keys)
  PROVE  Whole(PageAt(run, offset, total), keys \union PageAt(run, offset, total).rows)
<1>. DEFINE page == PageAt(run, offset, total)
            more == keys \union page.rows
<1>1. page.total = total /\ (page.more <=> total # Unknown /\ page.processed < total)
  BY DEF PageAt
<1>2. page.processed \in Nat /\ Within(page.processed, more)
  BY PageAtType, PageAtGood
<1>. HIDE DEF page, more
<1>3. ASSUME total # Unknown, ~page.more
      PROVE  Within(total, more)
  BY <1>1, <1>2, <1>3, WithinLess
<1>4. Whole(page, more)
  BY <1>1, <1>3 DEF Whole
<1>. QED BY <1>4 DEF page, more

LEMMA StartPageWhole ==
  ASSUME NEW run \in Runs, run.start = 0, NEW adopted \in Cursors, NEW keys,
         Within(Offset(adopted), keys)
  PROVE  Whole(StartPage(run, adopted), keys \union StartPage(run, adopted).rows)
<1>1. CASE account.vendor = "dataverse"
  <2>. DEFINE page == PageAt(run, Offset(adopted), InScope(run))
  <2>1. InScope(run) \in Int
    BY DEF InScope, Runs
  <2>2. page \in Pages /\ Whole(page, keys \union page.rows)
    BY <2>1, OffsetType, PageAtType, PageAtWhole
  <2>3. StartPage(run, adopted) = [page EXCEPT !.token = page.processed]
    BY <1>1 DEF StartPage
  <2>. HIDE DEF page
  <2>. QED BY <2>2, <2>3 DEF Whole, Pages
<1>2. CASE account.vendor # "dataverse"
  <2>1. StartPage(run, adopted).more
    BY <1>2 DEF StartPage, NotReady, NoPage
  <2>. QED BY <2>1 DEF Whole
<1>. QED BY <1>1, <1>2

LEMMA ReadPageWhole ==
  ASSUME NEW run \in Runs, NEW keys, GoodRun(run, account.vendor, keys)
  PROVE  Whole(ReadPage(run), keys \union ReadPage(run).rows)
<1>1. /\ InScope(run) \in Int /\ run.total \in Int /\ run.processed \in Nat
      /\ run.cursor \in Cursors /\ Offset(run.cursor) \in Nat
  BY OffsetType DEF InScope, Runs
<1>2. CASE account.vendor = "dataverse"
  BY <1>1, <1>2, PageAtWhole DEF ReadPage, GoodRun
<1>3. CASE account.vendor # "dataverse" /\ run.polls < ReadyAfter
  <2>1. ReadPage(run).more
    BY <1>3 DEF ReadPage, NotReady, NoPage
  <2>. QED BY <2>1 DEF Whole
<1>4. CASE account.vendor # "dataverse" /\ ~(run.polls < ReadyAfter)
  BY <1>1, <1>4, PageAtWhole DEF ReadPage, GoodRun
<1>. QED BY <1>2, <1>3, <1>4

(* A replica that grows keeps what it covers. *)
LEMMA CoveredMore ==
  ASSUME NEW keys, NEW more, keys \subseteq more
  PROVE  /\ \A page : Whole(page, keys) => Whole(page, more)
         /\ \A run : CoveredRun(run, keys) => CoveredRun(run, more)
         /\ \A call : CoveredCall(call, keys) => CoveredCall(call, more)
<1>1. ASSUME NEW few, NEW many, few \subseteq many
      PROVE  \A page : Whole(page, few) => Whole(page, many)
  BY <1>1, WithinMore DEF Whole
<1>2. \A run : CoveredRun(run, keys) => CoveredRun(run, more)
  BY WithinMore DEF CoveredRun
<1>3. ASSUME NEW call, CoveredCall(call, keys)
      PROVE  CoveredCall(call, more)
  <2>1. keys \union Pending(call) \subseteq more \union Pending(call)
    OBVIOUS
  <2>2. Whole(call.page, keys \union Pending(call)) => Whole(call.page, more \union Pending(call))
    BY <2>1, <1>1
  <2>. QED BY <1>3, <2>2 DEF CoveredCall
<1>. QED BY <1>1, <1>2, <1>3

LEMMA CoverStep ==
  ASSUME CoverInv, NEW t \in Threads, NEW next, Goes(t, next), Keys \subseteq Keys',
         \A r \in DOMAIN runs' : CoveredRun(runs'[r], Keys'), CoveredCall(next, Keys')
  PROVE  CoverGood'
<1>1. job'[t] = next /\ \A u \in Threads : u # t => job'[u] = job[u]
  BY GoesMoves DEF CoverInv, PushInv
<1>2. ASSUME NEW u \in Threads
      PROVE  CoveredCall(job'[u], Keys')
  BY <1>1, CoveredMore DEF CoverInv, CoverGood
<1>. QED BY <1>2 DEF CoverGood

(* A step that writes neither the runs nor the replica, and one that writes *)
(* one run's record.                                                        *)
LEMMA CoverQuiet ==
  ASSUME CoverInv, NEW t \in Threads, NEW next, Goes(t, next), UNCHANGED <<replica, runs>>,
         CoveredCall(next, Keys)
  PROVE  CoverGood'
<1>1. Keys' = Keys
  BY DEF Keys
<1>. QED BY <1>1, CoverStep DEF CoverInv, CoverGood

LEMMA CoverPatch ==
  ASSUME CoverInv, NEW t \in Threads, NEW next, Goes(t, next), UNCHANGED replica,
         NEW r, NEW record, Patch(r, record),
         r \in DOMAIN runs => CoveredRun(record, Keys), CoveredCall(next, Keys)
  PROVE  CoverGood'
<1>1. DOMAIN runs' = DOMAIN runs /\ \A i \in DOMAIN runs : runs'[i] = IF i = r THEN record ELSE runs[i]
  BY DEF Patch
<1>2. Keys' = Keys
  BY DEF Keys
<1>3. \A i \in DOMAIN runs' : CoveredRun(runs'[i], Keys')
  BY <1>1, <1>2 DEF CoverInv, CoverGood
<1>. QED BY <1>2, <1>3, CoverStep

(* A call without a page. *)
LEMMA BareCovered ==
  ASSUME NEW call, call.stage \in Stages \ {"opened", "deciding", "submitting", "looking", "landing",
                                            "advancing", "patching", "finishing"},
         NEW keys
  PROVE  CoveredCall(call, keys)
BY DEF CoveredCall, Paged

LEMMA ClosedCovered ==
  ASSUME NEW r, NEW stage \in {"breaking", "stalling", "cancelling", "repolling"}, NEW keys
  PROVE  /\ CoveredCall([IdleJob EXCEPT !.stage = stage, !.run = r], keys)
         /\ CoveredCall(IdleJob, keys)
<1>1. [IdleJob EXCEPT !.stage = stage, !.run = r].stage = stage /\ IdleJob.stage = "idle"
  BY DEF IdleJob
<1>. DEFINE call == [IdleJob EXCEPT !.stage = stage, !.run = r]
<1>2. call.stage = stage
  BY <1>1
<1>. HIDE DEF call
<1>3. CoveredCall(call, keys) /\ CoveredCall(IdleJob, keys)
  BY <1>1, <1>2, BareCovered DEF Stages
<1>. QED BY <1>3 DEF call

(* Writing the counters of a run. *)
LEMMA CountedCovered ==
  ASSUME CoverInv, NEW r \in DOMAIN runs, NEW body \in Runs
  PROVE  CoveredRun(Counted(r, body), Keys)
<1>1. runs[r] \in Runs /\ CoveredRun(runs[r], Keys)
  BY DEF CoverInv, PushInv, TypeInv, TypeOK, CoverGood
<1>. QED BY <1>1 DEF Counted, CoveredRun, Runs

(* A page that was just read, and what its call does with it. *)
LEMMA AfterCovered ==
  ASSUME NEW call, NEW page, NEW keys, Whole(page, keys \union page.rows), call.page = page,
         call.stage = After(page)
  PROVE  CoveredCall(call, keys)
<1>1. CASE page.rows # {}
  BY <1>1 DEF CoveredCall, After, Pending, Paged
<1>2. CASE page.rows = {}
  <2>1. keys \union page.rows \subseteq keys \union Pending(call)
    BY <1>2
  <2>2. Whole(page, keys \union Pending(call))
    BY <2>1, CoveredMore
  <2>. QED BY <1>2, <2>2 DEF CoveredCall, After
<1>. QED BY <1>1, <1>2

(* What is known of a call. *)
LEMMA CoverFacts ==
  ASSUME CoverInv, NEW t \in Threads
  PROVE  /\ TypeInv /\ ResumeInv /\ CoveredCall(job[t], Keys) /\ job[t] \in Jobs
         /\ job[t].body \in Runs /\ job[t].page \in Pages /\ job[t].adopted \in Cursors
         /\ Past(job[t]) =>
              LET r == job[t].run
              IN /\ r \in DOMAIN runs /\ runs[r] \in Runs /\ CoveredRun(runs[r], Keys)
                 /\ job[t].pushing => runs[r].direction = "push"
<1>1. TypeInv /\ ResumeInv /\ PushInv /\ CoveredCall(job[t], Keys)
  BY DEF CoverInv, PushInv, CoverGood
<1>2. /\ job[t] \in Jobs /\ job[t].body \in Runs /\ job[t].page \in Pages
      /\ job[t].adopted \in Cursors
  BY <1>1, JobType
<1>3. ASSUME Past(job[t])
      PROVE  LET r == job[t].run
             IN /\ r \in DOMAIN runs /\ runs[r] \in Runs /\ CoveredRun(runs[r], Keys)
                /\ job[t].pushing => runs[r].direction = "push"
  <2>1. /\ job[t].run \in DOMAIN runs /\ runs[job[t].run] \in Runs
        /\ Sided(job[t], runs[job[t].run].direction)
    BY <1>1, <1>3, PushFacts
  <2>. QED BY <2>1 DEF Sided, CoverInv, CoverGood
<1>. QED BY <1>1, <1>2, <1>3

(* The steps of start. *)
LEMMA StartCover ==
  ASSUME CoverInv, NEW t \in Threads,
         \/ AdoptCursor(t) \/ CreateRun(t) \/ OpenSpend(t) \/ CallStart(t) \/ OpenJob(t)
         \/ Decide(t)
  PROVE  CoverGood'
<1>. DEFINE call == job[t]
            r == job[t].run
<1>0. /\ TypeInv /\ ResumeInv /\ CoveredCall(call, Keys) /\ call \in Jobs /\ call.body \in Runs
      /\ call.page \in Pages /\ call.adopted \in Cursors
  BY CoverFacts
<1>a. ASSUME Past(call)
      PROVE  r \in DOMAIN runs /\ runs[r] \in Runs /\ CoveredRun(runs[r], Keys)
  BY <1>a, CoverFacts
<1>i. CoveredCall(IdleJob, Keys)
  BY ClosedCovered
<1>1. CASE AdoptCursor(t)
  <2>1. UNCHANGED <<replica, runs>>
    BY <1>1 DEF AdoptCursor, records
  <2>2. CASE Done(t)
    BY <1>i, <2>1, <2>2, CoverQuiet DEF Done
  <2>3. CASE ~Done(t)
    <3>1. PICK loose \in BOOLEAN :
            Goes(t, [call EXCEPT !.stage = "creating", !.adopted = stored, !.loose = loose])
      BY <1>0, <1>1, <2>3, AdoptedCall
    <3>. DEFINE next == [call EXCEPT !.stage = "creating", !.adopted = stored, !.loose = loose]
    <3>2. next.stage = "creating"
      BY <1>0 DEF Jobs
    <3>3. Goes(t, next)
      BY <3>1
    <3>. HIDE DEF next
    <3>. QED BY <2>1, <3>2, <3>3, BareCovered, CoverQuiet DEF Stages
  <2>. QED BY <2>2, <2>3
<1>2. CASE CreateRun(t)
  <2>. DEFINE next == [call EXCEPT !.stage = "opening", !.run = Len(runs) + 1]
  <2>1. /\ UNCHANGED replica /\ call.stage = "creating" /\ runs' = Append(runs, call.body)
        /\ Goes(t, next) \/ Goes(t, IdleJob)
    BY <1>2 DEF CreateRun, AtStage, Done
  <2>2. call.body.state = "created"
    BY <2>1 DEF CoverInv, PushInv, PushGood, Fresh
  <2>3. CoveredRun(call.body, Keys)
    BY <2>2 DEF CoveredRun
  <2>4. Keys' = Keys
    BY <2>1 DEF Keys
  <2>5. ASSUME NEW i \in DOMAIN runs'
        PROVE  CoveredRun(runs'[i], Keys')
    <3>1. runs \in Seq(Runs)
      BY <1>0 DEF TypeInv, TypeOK
    <3>2. i \in DOMAIN runs \/ i = Len(runs) + 1
      BY <2>1, <3>1, <1>0
    <3>3. CASE i \in DOMAIN runs
      <4>1. runs'[i] = runs[i]
        BY <1>0, <2>1, <3>1, <3>3
      <4>. QED BY <2>4, <3>3, <4>1 DEF CoverInv, CoverGood
    <3>4. CASE i = Len(runs) + 1
      <4>1. runs'[i] = call.body
        BY <1>0, <2>1, <3>1, <3>4
      <4>. QED BY <2>3, <2>4, <4>1
    <3>. QED BY <3>2, <3>3, <3>4
  <2>6. next.stage = "opening"
    BY <1>0 DEF Jobs
  <2>. HIDE DEF next
  <2>7. CoveredCall(next, Keys')
    BY <2>6, BareCovered DEF Stages
  <2>. QED BY <1>i, <2>1, <2>4, <2>5, <2>7, CoverStep
<1>3. CASE OpenSpend(t)
  <2>. DEFINE next == [call EXCEPT !.stage = "calling"]
  <2>1. UNCHANGED <<replica, runs>> /\ (Goes(t, IdleJob) \/ Goes(t, next))
    BY <1>3 DEF OpenSpend, GoesTo, Done
  <2>2. next.stage = "calling"
    BY <1>0 DEF Jobs
  <2>. HIDE DEF next
  <2>. QED BY <1>i, <2>1, <2>2, BareCovered, CoverQuiet DEF Stages
<1>4. CASE CallStart(t)
  <2>. DEFINE page == StartPage(call.body, call.adopted)
              next == [call EXCEPT !.stage = "opened", !.page = page]
              gone == [IdleJob EXCEPT !.stage = "breaking", !.run = r]
  <2>1. /\ UNCHANGED replica /\ call.stage = "calling"
        /\ Patch(r, Counted(r, call.body))
        /\ Goes(t, next) \/ Goes(t, gone)
    BY <1>4 DEF CallStart, AtStage, Closes
  <2>2. Past(call)
    BY <2>1 DEF Past
  <2>3. CoveredRun(Counted(r, call.body), Keys)
    BY <1>0, <1>a, <2>2, CountedCovered
  <2>4. Whole(page, Keys \union page.rows)
    <3>1. call.body.start = 0 /\ Within(Offset(call.adopted), Keys)
      BY <1>0, JobGood
    <3>. QED BY <1>0, <3>1, StartPageWhole
  <2>. HIDE DEF page
  <2>5. next.stage = "opened" /\ next.page = page
    BY <1>0 DEF Jobs
  <2>6. CoveredCall(gone, Keys)
    BY ClosedCovered
  <2>. HIDE DEF next, gone
  <2>7. CoveredCall(next, Keys)
    BY <2>4, <2>5 DEF CoveredCall, Pending
  <2>. QED BY <2>1, <2>3, <2>6, <2>7, CoverPatch
<1>5. CASE OpenJob(t)
  <2>. DEFINE opened == [runs[r] EXCEPT !.state = "running", !.total = call.page.total,
                                        !.processed = call.page.processed]
              next == [call EXCEPT !.stage = "deciding", !.body = opened]
  <2>1. /\ UNCHANGED replica /\ call.stage = "opened" /\ Patch(r, opened) /\ Goes(t, next)
    BY <1>5 DEF OpenJob, AtStage
  <2>2. Past(call)
    BY <2>1 DEF Past
  <2>3. opened.state = "running"
    BY <1>a, <2>2 DEF Runs
  <2>. HIDE DEF opened
  <2>4. next.stage = "deciding" /\ next.page = call.page /\ next.pushing = call.pushing
    BY <1>0 DEF Jobs
  <2>. HIDE DEF next
  <2>5. CoveredCall(next, Keys)
    BY <1>0, <2>1, <2>4 DEF CoveredCall, Pending, Paged
  <2>6. CoveredRun(opened, Keys)
    BY <2>3 DEF CoveredRun
  <2>. QED BY <2>1, <2>5, <2>6, CoverPatch
<1>6. CASE Decide(t)
  <2>. DEFINE again == [call EXCEPT !.stage = "opening", !.again = TRUE]
              on == [IdleJob EXCEPT !.stage = After(call.page), !.run = r,
                                    !.body = call.body, !.page = call.page]
  <2>1. /\ UNCHANGED replica /\ call.stage = "deciding"
        /\ Patch(r, Counted(r, call.body))
        /\ Goes(t, again) \/ Goes(t, on)
    BY <1>6 DEF Decide, AtStage
  <2>2. Past(call)
    BY <2>1 DEF Past
  <2>3. CoveredRun(Counted(r, call.body), Keys)
    BY <1>0, <1>a, <2>2, CountedCovered
  <2>4. again.stage = "opening"
    BY <1>0 DEF Jobs
  <2>5. on.stage = After(call.page) /\ on.page = call.page
    BY DEF IdleJob
  <2>. HIDE DEF again, on
  <2>6. CoveredCall(again, Keys)
    BY <2>4, BareCovered DEF Stages
  <2>7. ~call.pushing
    BY <1>0, <2>1, JobGood
  <2>8. Whole(call.page, Keys \union call.page.rows)
    BY <1>0, <2>1, <2>7 DEF CoveredCall, Pending, Paged
  <2>9. CoveredCall(on, Keys)
    BY <2>5, <2>8, AfterCovered
  <2>. QED BY <2>1, <2>3, <2>6, <2>9, CoverPatch
<1>. QED BY <1>1, <1>2, <1>3, <1>4, <1>5, <1>6

(* The steps of poll up to the page. *)
LEMMA PollCover ==
  ASSUME CoverInv, NEW t \in Threads,
         \/ ReadConnection(t) \/ CountPoll(t) \/ Charge(t) \/ Ask(t) \/ ListReplica(t)
         \/ Submit(t)
  PROVE  CoverGood'
<1>. DEFINE call == job[t]
            r == job[t].run
            gone == [IdleJob EXCEPT !.stage = "breaking", !.run = r]
            stalled == [IdleJob EXCEPT !.stage = "stalling", !.run = r]
<1>0. /\ TypeInv /\ ResumeInv /\ CoveredCall(call, Keys) /\ call \in Jobs /\ call.body \in Runs
      /\ call.page \in Pages
  BY CoverFacts
<1>i. CoveredCall(IdleJob, Keys) /\ CoveredCall(gone, Keys) /\ CoveredCall(stalled, Keys)
  BY ClosedCovered
<1>. HIDE DEF gone, stalled
<1>1. CASE ReadConnection(t)
  <2>. DEFINE next == [call EXCEPT !.stage = "counting", !.purse = purse]
  <2>1. UNCHANGED <<replica, runs>> /\ Goes(t, next)
    BY <1>1 DEF ReadConnection, records
  <2>2. next.stage = "counting"
    BY <1>0 DEF Jobs
  <2>. HIDE DEF next
  <2>. QED BY <2>1, <2>2, BareCovered, CoverQuiet DEF Stages
<1>2. CASE CountPoll(t)
  <2>. DEFINE polls == IF call.body.polls < ReadyAfter THEN call.body.polls + 1
                       ELSE call.body.polls
              counted == [call.body EXCEPT !.polls = polls]
              next == [call EXCEPT !.stage = "charging", !.body = counted]
  <2>1. UNCHANGED replica /\ call.stage = "counting"
    BY <1>2 DEF CountPoll, AtStage
  <2>2. Patch(r, Counted(r, counted)) /\ (Goes(t, stalled) \/ Goes(t, next))
    BY <1>2 DEF CountPoll, Runs, Closes, stalled
  <2>3. counted \in Runs
    <3>1. polls \in Nat
      BY <1>0 DEF Runs
    <3>. HIDE DEF polls
    <3>. QED BY <1>0, <3>1 DEF Runs
  <2>. HIDE DEF counted
  <2>4. r \in DOMAIN runs
    BY <2>1, CoverFacts DEF Past
  <2>5. CoveredRun(Counted(r, counted), Keys)
    BY <2>3, <2>4, CountedCovered
  <2>6. next.stage = "charging"
    BY <1>0 DEF Jobs
  <2>. HIDE DEF next
  <2>7. CoveredCall(next, Keys)
    BY <2>6, BareCovered DEF Stages
  <2>. QED BY <1>i, <2>1, <2>2, <2>5, <2>7, CoverPatch
<1>3. CASE Charge(t)
  <2>. DEFINE stage == IF call.body.direction = "push" THEN "listing" ELSE "asking"
              next == [call EXCEPT !.stage = stage]
  <2>1. UNCHANGED <<replica, runs>> /\ (Goes(t, IdleJob) \/ Goes(t, next))
    BY <1>3 DEF Charge, GoesTo, Done
  <2>2. next.stage = stage
    BY <1>0 DEF Jobs
  <2>. HIDE DEF next
  <2>3. CoveredCall(next, Keys)
    BY <2>2, BareCovered DEF Stages
  <2>. QED BY <1>i, <2>1, <2>3, CoverQuiet
<1>4. CASE Ask(t)
  <2>. DEFINE page == ReadPage(call.body)
              next == [call EXCEPT !.stage = After(page), !.page = page]
  <2>1. UNCHANGED <<replica, runs>> /\ (Goes(t, next) \/ Goes(t, gone))
    BY <1>4 DEF Ask, records, Closes, gone
  <2>2. Whole(page, Keys \union page.rows)
    BY <1>0, JobGood, ReadPageWhole
  <2>. HIDE DEF page
  <2>3. next.stage = After(page) /\ next.page = page
    BY <1>0 DEF Jobs
  <2>. HIDE DEF next
  <2>4. CoveredCall(next, Keys)
    BY <2>2, <2>3, AfterCovered
  <2>. QED BY <1>i, <2>1, <2>4, CoverQuiet
<1>5. CASE ListReplica(t)
  <2>1. PICK next : Goes(t, next) /\ next.pushing /\ next.stage \in {"finishing", "submitting"}
    <3>. DEFINE listed == Listed(call.body.seen)
                size == Cardinality(Window(call.body.seen))
                page == [NoPage EXCEPT !.rows = listed, !.size = size, !.total = call.body.total,
                                !.processed = call.body.processed,
                                !.more = size = PageSize]
                next == [call EXCEPT
                           !.pushing = TRUE,
                           !.stage = IF listed = {} THEN "finishing" ELSE "submitting",
                           !.page = page]
    <3>1. Goes(t, next)
      BY <1>5 DEF ListReplica
    <3>. HIDE DEF listed, page
    <3>2. next.pushing /\ next.stage \in {"finishing", "submitting"}
      BY <1>0 DEF Jobs
    <3>. HIDE DEF next
    <3>. QED BY <3>1, <3>2
  <2>2. UNCHANGED <<replica, runs>>
    BY <1>5 DEF ListReplica, records
  <2>. QED BY <2>1, <2>2, CoverQuiet DEF CoveredCall
<1>6. CASE Submit(t)
  <2>. DEFINE next == [call EXCEPT !.stage = "advancing"]
  <2>1. /\ UNCHANGED <<replica, runs>> /\ call.stage = "submitting"
        /\ Goes(t, next) \/ Goes(t, gone)
    BY <1>6 DEF Submit, AtStage, records, GoesTo, Closes, gone
  <2>2. next.stage = "advancing" /\ next.pushing = call.pushing
    BY <1>0 DEF Jobs
  <2>. HIDE DEF next
  <2>3. CoveredCall(next, Keys)
    BY <1>0, <2>1, <2>2 DEF CoveredCall
  <2>. QED BY <1>i, <2>1, <2>3, CoverQuiet
<1>. QED BY <1>1, <1>2, <1>3, <1>4, <1>5, <1>6

(* The steps that land a page, those that end a call, and those of resume. *)
LEMMA LandCover ==
  ASSUME CoverInv, NEW t \in Threads,
         \/ Look(t) \/ Land(t) \/ Advance(t) \/ PatchRun(t) \/ Wait(t) \/ Finish(t)
         \/ Break(t) \/ Stall(t) \/ CountResume(t) \/ PollResumed(t) \/ CancelRun(t)
  PROVE  CoverGood'
<1>. DEFINE call == job[t]
            r == job[t].run
<1>0. /\ TypeInv /\ ResumeInv /\ CoveredCall(call, Keys) /\ call \in Jobs /\ call.body \in Runs
      /\ call.page \in Pages
  BY CoverFacts
<1>a. ASSUME Past(call)
      PROVE  /\ r \in DOMAIN runs /\ runs[r] \in Runs /\ CoveredRun(runs[r], Keys)
             /\ call.pushing => runs[r].direction = "push"
  BY <1>a, CoverFacts
<1>i. CoveredCall(IdleJob, Keys)
  BY ClosedCovered
<1>b. ASSUME NEW record, Patch(r, record), Goes(t, IdleJob), UNCHANGED replica,
             CoveredRun(record, Keys)
      PROVE  CoverGood'
  BY <1>b, <1>i, CoverPatch
<1>1. CASE Look(t)
  <2>. DEFINE missing == call.page.rows \ Keys
              next == [call EXCEPT !.missing = missing,
                                   !.stage = IF missing = {} THEN "advancing" ELSE "landing"]
  <2>1. UNCHANGED <<replica, runs>> /\ Goes(t, next) /\ call.stage = "looking"
    BY <1>1 DEF Look, AtStage, records
  <2>2. Keys \union missing = Keys \union call.page.rows
    OBVIOUS
  <2>. HIDE DEF missing
  <2>3. /\ next.page = call.page /\ next.pushing = call.pushing /\ next.missing = missing
        /\ next.stage = IF missing = {} THEN "advancing" ELSE "landing"
    BY <1>0 DEF Jobs
  <2>. HIDE DEF next
  <2>4. Keys \union Pending(next) = Keys \union Pending(call)
    BY <2>1, <2>2, <2>3 DEF Pending
  <2>5. Paged(call) /\ next.stage \notin {"submitting", "finishing"}
    BY <2>1, <2>3 DEF Paged
  <2>6. CoveredCall(next, Keys)
    BY <1>0, <2>3, <2>4, <2>5 DEF CoveredCall
  <2>. QED BY <2>1, <2>6, CoverQuiet
<1>2. CASE Land(t)
  <2>. DEFINE next == [call EXCEPT !.stage = "advancing"]
  <2>1. /\ UNCHANGED runs /\ Goes(t, next) /\ call.stage = "landing"
        /\ replica' \in Landed(call.missing)
    BY <1>2 DEF Land, AtStage, GoesTo
  <2>2. Keys' = Keys \union call.missing
    <3>1. {replica'[i] : i \in DOMAIN replica'} = Keys \union call.missing
      BY <1>0, <2>1, JobType, LandedType DEF TypeInv
    <3>. QED BY <3>1 DEF Keys
  <2>3. next.page = call.page /\ next.pushing = call.pushing /\ next.stage = "advancing"
    BY <1>0 DEF Jobs
  <2>. HIDE DEF next
  <2>4. Keys' \union Pending(next) = Keys \union Pending(call)
    BY <2>1, <2>2, <2>3 DEF Pending
  <2>5. CoveredCall(next, Keys')
    BY <1>0, <2>1, <2>3, <2>4 DEF CoveredCall, Paged
  <2>6. \A i \in DOMAIN runs' : CoveredRun(runs'[i], Keys')
    BY <2>1, <2>2, CoveredMore DEF CoverInv, CoverGood
  <2>. QED BY <2>1, <2>2, <2>5, <2>6, CoverStep
<1>3. CASE Advance(t)
  <2>. DEFINE next == [call EXCEPT !.stage = "patching"]
  <2>1. UNCHANGED <<replica, runs>> /\ Goes(t, next) /\ call.stage = "advancing"
    BY <1>3 DEF Advance, AtStage, GoesTo
  <2>2. next.page = call.page /\ next.pushing = call.pushing /\ next.stage = "patching"
    BY <1>0 DEF Jobs
  <2>. HIDE DEF next
  <2>3. CoveredCall(next, Keys)
    BY <1>0, <2>1, <2>2 DEF CoveredCall, Pending, Paged
  <2>. QED BY <2>1, <2>3, CoverQuiet
<1>4. CASE PatchRun(t)
  <2>. DEFINE record == [runs[r] EXCEPT !.state = IF call.page.more THEN "running" ELSE "complete",
                                        !.total = call.page.total,
                                        !.processed = call.page.processed,
                                        !.cursor = NewCursor(t),
                                        !.seen = call.body.seen + call.page.size,
                                        !.polls = call.body.polls]
  <2>1. UNCHANGED replica /\ Patch(r, record) /\ Goes(t, IdleJob) /\ call.stage = "patching"
    BY <1>4 DEF PatchRun, AtStage, Done
  <2>2. runs[r] \in Runs /\ (call.pushing => runs[r].direction = "push")
    BY <1>a, <2>1 DEF Past
  <2>3. /\ record.direction = runs[r].direction /\ record.total = call.page.total
        /\ record.state = "complete" => ~call.page.more
    BY <2>2 DEF Runs
  <2>. HIDE DEF record
  <2>4. ~call.pushing => Whole(call.page, Keys \union Pending(call))
    BY <1>0, <2>1 DEF CoveredCall, Paged
  <2>5. Keys \union Pending(call) = Keys
    BY <2>1 DEF Pending
  <2>6. CoveredRun(record, Keys)
    BY <2>2, <2>3, <2>4, <2>5 DEF CoveredRun, Whole
  <2>. QED BY <1>b, <2>1, <2>6
<1>5. CASE Finish(t)
  <2>. DEFINE kept == Counted(r, call.body)
              record == [kept EXCEPT !.state = "complete", !.total = call.page.total,
                                     !.processed = call.page.processed]
  <2>1. UNCHANGED replica /\ Patch(r, record) /\ Goes(t, IdleJob) /\ call.stage = "finishing"
    BY <1>5 DEF Finish, AtStage, Done
  <2>2. /\ r \in DOMAIN runs /\ runs[r] \in Runs
        /\ call.pushing => runs[r].direction = "push"
    BY <1>a, <2>1 DEF Past
  <2>3. kept.direction = runs[r].direction /\ kept \in Runs
    <3>1. kept \in Runs
      BY <1>0, <2>2, CountedType
    <3>2. kept.direction = runs[r].direction
      BY <2>2 DEF Counted, Runs
    <3>. QED BY <3>1, <3>2
  <2>. HIDE DEF kept
  <2>4. record.direction = runs[r].direction /\ record.total = call.page.total
    BY <2>3 DEF Runs
  <2>. HIDE DEF record
  <2>5. ~call.pushing => ~call.page.more /\ Whole(call.page, Keys \union Pending(call))
    BY <1>0, <2>1 DEF CoveredCall, Paged
  <2>6. Keys \union Pending(call) = Keys
    BY <2>1 DEF Pending
  <2>7. CoveredRun(record, Keys)
    BY <2>2, <2>4, <2>5, <2>6 DEF CoveredRun, Whole
  <2>. QED BY <1>b, <2>1, <2>7
<1>6. CASE Wait(t)
  <2>. DEFINE record == [runs[r] EXCEPT !.state = "running",
                           !.total = call.page.total, !.processed = call.page.processed]
  <2>1. UNCHANGED replica /\ Patch(r, record) /\ Goes(t, IdleJob) /\ Past(call)
    BY <1>6 DEF Wait, AtStage, Past, Done
  <2>2. record.state = "running"
    BY <1>a, <2>1 DEF Runs
  <2>. HIDE DEF record
  <2>3. CoveredRun(record, Keys)
    BY <2>2 DEF CoveredRun
  <2>. QED BY <1>b, <2>1, <2>3
<1>7. CASE Break(t) \/ Stall(t) \/ CancelRun(t)
  <2>1. PICK state \in {"failed", "stalled", "cancelled"} :
          Patch(r, [runs[r] EXCEPT !.state = state])
    BY <1>7 DEF Break, Stall, CancelRun
  <2>. DEFINE record == [runs[r] EXCEPT !.state = state]
  <2>2. UNCHANGED replica /\ Goes(t, IdleJob) /\ Past(call) /\ Patch(r, record)
    BY <1>7, <2>1 DEF Break, Stall, CancelRun, AtStage, Past, Done
  <2>3. record.state = state
    BY <1>a, <2>2 DEF Runs
  <2>. HIDE DEF record
  <2>4. CoveredRun(record, Keys)
    BY <2>3 DEF CoveredRun
  <2>. QED BY <1>b, <2>2, <2>4
<1>8. CASE CountResume(t)
  <2>. DEFINE gone == [IdleJob EXCEPT !.stage = "repolling", !.run = r]
  <2>1. /\ UNCHANGED replica /\ Goes(t, gone) /\ Past(call)
        /\ Patch(r, Counted(r, call.body))
    BY <1>8 DEF CountResume, AtStage, Past, Closes
  <2>2. CoveredCall(gone, Keys)
    BY ClosedCovered
  <2>. HIDE DEF gone
  <2>3. CoveredRun(Counted(r, call.body), Keys)
    BY <1>0, <1>a, <2>1, CountedCovered
  <2>. QED BY <2>1, <2>2, <2>3, CoverPatch
<1>9. CASE PollResumed(t)
  <2>. DEFINE next == Polling(r)
  <2>1. UNCHANGED <<replica, runs>> /\ (Goes(t, IdleJob) \/ Goes(t, next))
    BY <1>9 DEF PollResumed, records, Done
  <2>2. next.stage = "polling"
    BY DEF Polling, IdleJob
  <2>. HIDE DEF next
  <2>3. CoveredCall(next, Keys)
    BY <2>2, BareCovered DEF Stages
  <2>. QED BY <1>i, <2>1, <2>3, CoverQuiet
<1>. QED BY <1>1, <1>2, <1>3, <1>4, <1>5, <1>6, <1>7, <1>8, <1>9

LEMMA CoverNext ==
  ASSUME ScopeStarts = {0}
  PROVE  CoverInv /\ [Next]_vars => CoverInv'
<1>. SUFFICES ASSUME CoverInv, [Next]_vars PROVE CoverGood'
  BY ResumeStep, PushedStep DEF CoverInv
<1>1. ASSUME NEW t \in Threads, NEW direction \in {"pull", "push"}, NEW start \in ScopeStarts,
             NEW scratch \in BOOLEAN, NEW estimate \in {Unknown} \cup 0..MaxRows,
             Start(t, direction, start, scratch, estimate)
      PROVE  CoverGood'
  <2>. DEFINE body == [NoRun EXCEPT !.direction = direction, !.start = start, !.to = rows]
              call == [IdleJob EXCEPT !.stage = IF scratch THEN "creating" ELSE "starting",
                                      !.body = body, !.purse = purse, !.loose = (estimate = Unknown)]
  <2>1. Goes(t, call) /\ UNCHANGED <<replica, runs>>
    BY <1>1 DEF Start, Begins, Goes, records
  <2>. HIDE DEF body
  <2>2. call.stage \in {"creating", "starting"}
    BY DEF IdleJob
  <2>. HIDE DEF call
  <2>3. CoveredCall(call, Keys)
    BY <2>2, BareCovered DEF Stages
  <2>. QED BY <2>1, <2>3, CoverQuiet
<1>2. ASSUME NEW t \in Threads, NEW r, Poll(t, r) \/ Resume(t, r) \/ Cancel(t, r)
      PROVE  CoverGood'
  <2>1. PICK next : Goes(t, next) /\ next.stage \in {"polling", "resuming", "stalling", "cancelling"}
    <3>1. /\ Polling(r).stage = "polling"
          /\ [Polling(r) EXCEPT !.stage = "resuming"].stage = "resuming"
          /\ [IdleJob EXCEPT !.stage = "stalling", !.run = r].stage = "stalling"
          /\ [IdleJob EXCEPT !.stage = "cancelling", !.run = r].stage = "cancelling"
      BY DEF Polling, IdleJob
    <3>2. \/ Goes(t, Polling(r))
          \/ Goes(t, [Polling(r) EXCEPT !.stage = "resuming"])
          \/ Goes(t, [IdleJob EXCEPT !.stage = "stalling", !.run = r])
          \/ Goes(t, [IdleJob EXCEPT !.stage = "cancelling", !.run = r])
      BY <1>2 DEF Poll, Resume, Cancel, Begins, Goes
    <3>. QED BY <3>1, <3>2
  <2>2. UNCHANGED <<replica, runs>>
    BY <1>2 DEF Poll, Resume, Cancel, Begins, records
  <2>3. CoveredCall(next, Keys)
    BY <2>1, BareCovered DEF Stages
  <2>. QED BY <2>1, <2>2, <2>3, CoverQuiet
<1>3. ASSUME NEW t \in Threads, Handler(t)
      PROVE  CoverGood'
  BY <1>3, StartCover, PollCover, LandCover DEF Handler
<1>4. CASE NewRow \/ Tick \/ UNCHANGED vars
  <2>1. UNCHANGED <<replica, runs, job>>
    BY <1>4 DEF NewRow, Tick, vars, records
  <2>. QED BY <2>1 DEF CoverInv, CoverGood, Keys
<1>5. CASE Crash
  <2>1. UNCHANGED <<replica, runs>> /\ \A u \in Threads : job'[u] = IdleJob
    BY <1>5 DEF Crash, records
  <2>. QED BY <2>1, ClosedCovered DEF CoverInv, CoverGood, Keys
<1>. QED BY <1>1, <1>2, <1>3, <1>4, <1>5 DEF Next

(* Whatever calls overlap and wherever the process dies, a pull that is     *)
(* complete, and whose job was opened, has landed every row of its scope,   *)
(* when every scope starts at the oldest row (_land in engine.py).          *)
THEOREM CoverCorrect == ScopeStarts = {0} => (Spec => []OpenedMeansCovered)
<1>. SUFFICES ASSUME ScopeStarts = {0} PROVE Spec => []OpenedMeansCovered
  OBVIOUS
<1>1. Init => CoverInv
  <2>. SUFFICES ASSUME Init PROVE CoverInv
    OBVIOUS
  <2>1. runs = <<>> /\ outbox = <<>> /\ \A u \in Threads : job[u] = IdleJob
    BY DEF Init
  <2>2. PushInv
    BY <2>1, InitType, IdlePushed DEF PushInv, PushGood
  <2>3. CoveredCall(IdleJob, Keys)
    BY ClosedCovered
  <2>4. CoverGood
    BY <2>1, <2>3 DEF CoverGood
  <2>. QED BY <2>2, <2>4, ResumeInit DEF CoverInv
<1>2. CoverInv /\ [Next]_vars => CoverInv'
  BY CoverNext
<1>3. CoverInv /\ TotalInv => OpenedMeansCovered
  <2>. SUFFICES ASSUME CoverInv, TotalInv, NEW r \in DOMAIN runs, runs[r].state = "complete",
                       runs[r].direction = "pull", runs[r].total # Unknown
                PROVE  Read(runs[r], InScope(runs[r])) \subseteq Keys
    BY DEF OpenedMeansCovered
  <2>1. Within(runs[r].total, Keys)
    BY DEF CoverInv, CoverGood, CoveredRun
  <2>2. runs[r].total = InScope(runs[r])
    BY DEF TotalInv, TotalGood, Known
  <2>3. runs[r].start = 0 /\ runs[r].total \in Int
    <3>1. runs \in Seq(Runs)
      BY DEF TotalInv, TypeInv, TypeOK
    <3>2. runs[r] \in Runs
      BY <3>1, RowType
    <3>. QED BY <3>2 DEF CoverInv, ResumeInv, ResumeGood, GoodRun, Runs
  <2>4. Read(runs[r], runs[r].total) \subseteq Upto(runs[r].total)
    BY <2>3, BoundAssumption DEF Read, Upto, Rows
  <2>. QED BY <2>1, <2>2, <2>4 DEF Within
<1>4. Spec => []TotalInv
  BY TotalInit, TotalNext, PTL DEF Spec
<1>. QED BY <1>1, <1>2, <1>3, <1>4, PTL DEF Spec
=============================================================================
