---------------------------- MODULE LegalClock_proofs ----------------------------
(***************************************************************************)
(* What the legal clock computes, for every timeline and policy: the       *)
(* recursion over the events is shown to have a value, the value to be the *)
(* windows the events describe, and the credit to be the days in them.     *)
(***************************************************************************)
EXTENDS LegalClock, Recursion_proofs

-----------------------------------------------------------------------------
(* parsePauseWindows, entry by entry.                                      *)

Scans == [open    : [Reasons -> Int],
          windows : SUBSET [reason : Reasons, from : Int, to : Int]]

IsTimeline(t) ==
  Len(t) \in Nat /\ \A i \in 1..Len(t) : t[i].at \in Nat /\ t[i].days \in Int

Opens(e, r)  == e.action \in DOMAIN Pauses /\ Pauses[e.action] = r
Closes(e, r) == e.action \in DOMAIN Resumes /\ Resumes[e.action] = r

LEMMA OnePurpose ==
  ASSUME NEW e
  PROVE  /\ e.action \in DOMAIN Pauses => Pauses[e.action] \in Reasons
         /\ e.action \in DOMAIN Resumes => Resumes[e.action] \in Reasons
         /\ ~(e.action \in DOMAIN Pauses /\ e.action \in DOMAIN Resumes)
         /\ \A r : Concerns(e, r) <=> Opens(e, r) \/ Closes(e, r)
BY DEF Pauses, Resumes, Reasons, Concerns, Opens, Closes

LEMMA ScanType ==
  ASSUME NEW scan \in Scans, NEW e, e.at \in Int
  PROVE  Scan(scan, e) \in Scans
<1>1. CASE e.action \in DOMAIN Pauses
  <2>1. Scan(scan, e) = [scan EXCEPT !.open = [scan.open EXCEPT ![Pauses[e.action]] = e.at]]
    BY <1>1 DEF Scan
  <2>2. [scan.open EXCEPT ![Pauses[e.action]] = e.at] \in [Reasons -> Int]
    BY DEF Scans
  <2> QED BY <2>1, <2>2 DEF Scans
<1>2. CASE e.action \notin DOMAIN Pauses /\ e.action \in DOMAIN Resumes
           /\ scan.open[Resumes[e.action]] # NotOpen
  <2>1. Resumes[e.action] \in Reasons /\ NotOpen \in Int
    BY <1>2, OnePurpose DEF NotOpen
  <2> QED BY <1>2, <2>1 DEF Scan, Scans
<1>3. CASE e.action \notin DOMAIN Pauses
           /\ ~(e.action \in DOMAIN Resumes /\ scan.open[Resumes[e.action]] # NotOpen)
  BY <1>3 DEF Scan
<1> QED BY <1>1, <1>2, <1>3

(* What one entry does to the pause of a reason and to the windows.        *)
LEMMA ScanOfReason ==
  ASSUME NEW scan \in Scans, NEW e, e.at \in Int, NEW r \in Reasons
  PROVE  /\ Opens(e, r)  => Scan(scan, e).open[r] = e.at
         /\ Closes(e, r) => Scan(scan, e).open[r] = NotOpen
         /\ ~Concerns(e, r) => Scan(scan, e).open[r] = scan.open[r]
<1>1. CASE e.action \in DOMAIN Pauses
  BY <1>1, OnePurpose DEF Scan, Scans, Opens, Closes
<1>2. CASE e.action \notin DOMAIN Pauses /\ e.action \in DOMAIN Resumes
           /\ scan.open[Resumes[e.action]] # NotOpen
  BY <1>2, OnePurpose DEF Scan, Scans, Opens, Closes
<1>3. CASE e.action \notin DOMAIN Pauses
           /\ ~(e.action \in DOMAIN Resumes /\ scan.open[Resumes[e.action]] # NotOpen)
  BY <1>3, OnePurpose DEF Scan, Opens, Closes
<1> QED BY <1>1, <1>2, <1>3

LEMMA ScanWindows ==
  ASSUME NEW scan \in Scans, NEW e, e.at \in Int, NEW w
  PROVE  w \in Scan(scan, e).windows <=>
           \/ w \in scan.windows
           \/ \E r \in Reasons : /\ Closes(e, r) /\ scan.open[r] # NotOpen
                                 /\ w = [reason |-> r, from |-> scan.open[r], to |-> e.at]
<1>1. CASE e.action \in DOMAIN Pauses
  <2>1. Scan(scan, e).windows = scan.windows
    BY <1>1 DEF Scan, Scans
  <2> QED BY <1>1, <2>1, OnePurpose DEF Closes
<1>2. CASE e.action \notin DOMAIN Pauses /\ e.action \in DOMAIN Resumes
           /\ scan.open[Resumes[e.action]] # NotOpen
  <2>1. Scan(scan, e).windows =
          scan.windows \cup {[reason |-> Resumes[e.action], from |-> scan.open[Resumes[e.action]],
                              to |-> e.at]}
    BY <1>2 DEF Scan
  <2> QED BY <1>2, <2>1, OnePurpose DEF Closes
<1>3. CASE e.action \notin DOMAIN Pauses
           /\ ~(e.action \in DOMAIN Resumes /\ scan.open[Resumes[e.action]] # NotOpen)
  <2>1. Scan(scan, e) = scan
    BY <1>3 DEF Scan
  <2> QED BY <1>3, <2>1 DEF Closes
<1> QED BY <1>1, <1>2, <1>3

IsScanOf(f, t) ==
  /\ f \in [0..Len(t) -> Scans] /\ f[0] = NothingScanned
  /\ \A i \in 1..Len(t) : f[i] = Scan(f[i - 1], t[i])

(* The recursion means what it says: there are scans after every entry,    *)
(* and Scanned is the one after the last.                                  *)
LEMMA ScannedIs ==
  ASSUME NEW t, IsTimeline(t)
  PROVE  \E f : IsScanOf(f, t) /\ Scanned(t) = f[Len(t)]
<1> DEFINE n == Len(t)
           step == [i \in 1..n |-> [s \in Scans |-> Scan(s, t[i])]]
           Def(f) == f = [i \in 0..Len(t) |->
                            IF i = 0 THEN NothingScanned ELSE Scan(f[i - 1], t[i])]
<1>n. n \in Nat /\ \A i \in 1..n : t[i].at \in Int
  BY DEF IsTimeline
<1>1. NothingScanned \in Scans
  BY DEF NothingScanned, Scans, NotOpen
<1>2. step \in [1..n -> [Scans -> Scans]]
  BY <1>n, ScanType
<1>3. PICK f : IsRun(f, Scans, NothingScanned, n, step)
  <2> HIDE DEF step, n, Def
  <2>1. n \in Nat
    BY <1>n
  <2> QED BY <2>1, <1>1, <1>2, Recursion
<1>4. \A i \in 1..n : f[i] = Scan(f[i - 1], t[i])
  <2>1. \A i \in 1..n : f[i - 1] \in Scans
    BY <1>n, <1>3 DEF IsRun
  <2> QED BY <1>3, <2>1 DEF IsRun
<1>5. Def(f)
  BY <1>n, <1>3, <1>4 DEF IsRun
<1>6. PICK g : Def(g) /\ Scanned(t) = g[n]
  <2>1. Scanned(t) = (CHOOSE g : Def(g))[n]
    BY DEF Scanned
  <2> HIDE DEF Def
  <2> QED BY <1>5, <2>1
<1>7. \A k \in 0..n : g[k] = f[k]
  <2> DEFINE G == {k \in 0..n : g[k] = f[k]}
  <2>0. g[0] = NothingScanned /\ \A i \in 1..n : g[i] = Scan(g[i - 1], t[i])
    BY <1>n, <1>6
  <2>1. 0 \in G
    BY <1>n, <1>3, <2>0 DEF IsRun
  <2>2. \A k \in 1..n : k - 1 \in G => k \in G
    BY <1>n, <1>4, <2>0
  <2> HIDE DEF G
  <2>3. \A k \in 0..n : k \in G
    BY <1>n, <2>1, <2>2, Throughout
  <2> QED BY <2>3 DEF G
<1>8. IsScanOf(f, t)
  BY <1>3, <1>4 DEF IsScanOf, IsRun
<1>9. Scanned(t) = f[Len(t)]
  BY <1>n, <1>6, <1>7
<1> QED BY <1>8, <1>9

-----------------------------------------------------------------------------
(* What the scan finds in a timeline: the request for a reason that nothing *)
(* followed is open, and each request and its answer, with nothing of the  *)
(* reason between them, are a window.                                      *)

Unanswered(t, i, k, r) ==
  Opens(t[i], r) /\ \A j \in (i + 1)..k : ~Concerns(t[j], r)

Answered(t, i, j, r) ==
  /\ Opens(t[i], r) /\ Closes(t[j], r)
  /\ \A m \in (i + 1)..(j - 1) : ~Concerns(t[m], r)

Window(t, i, j, r) == [reason |-> r, from |-> t[i].at, to |-> t[j].at]

OpenDescribed(scan, t, k, r) ==
  /\ scan.open[r] # NotOpen =>
       \E i \in 1..k : Unanswered(t, i, k, r) /\ scan.open[r] = t[i].at
  /\ \A i \in 1..k : Unanswered(t, i, k, r) => scan.open[r] = t[i].at

WindowsDescribed(scan, t, k) ==
  \A w : w \in scan.windows <=>
           \E r \in Reasons, i, j \in 1..k :
             i < j /\ Answered(t, i, j, r) /\ w = Window(t, i, j, r)

Described(scan, t, k) ==
  /\ \A r \in Reasons : OpenDescribed(scan, t, k, r)
  /\ WindowsDescribed(scan, t, k)

LEMMA OpenStaysDescribed ==
  ASSUME NEW t, IsTimeline(t), NEW k \in 1..Len(t), NEW scan \in Scans, NEW r \in Reasons,
         OpenDescribed(scan, t, k - 1, r)
  PROVE  OpenDescribed(Scan(scan, t[k]), t, k, r)
<1> DEFINE next == Scan(scan, t[k])
<1>n. k \in Nat /\ k - 1 \in Nat /\ k - 1 < k /\ t[k].at \in Int /\ t[k].at # NotOpen
  BY DEF IsTimeline, NotOpen
<1>s. /\ Opens(t[k], r)  => next.open[r] = t[k].at
      /\ Closes(t[k], r) => next.open[r] = NotOpen
      /\ ~Concerns(t[k], r) => next.open[r] = scan.open[r]
  BY <1>n, ScanOfReason
<1> HIDE DEF next
<1>c. /\ Concerns(t[k], r) <=> Opens(t[k], r) \/ Closes(t[k], r)
      /\ ~(Opens(t[k], r) /\ Closes(t[k], r))
  BY OnePurpose DEF Opens, Closes
<1>1. \A i \in 1..k : Unanswered(t, i, k, r) => i = k \/ ~Concerns(t[k], r)
  <2> SUFFICES ASSUME NEW i \in 1..k, Unanswered(t, i, k, r), i # k
               PROVE  ~Concerns(t[k], r)
    OBVIOUS
  <2>1. k \in (i + 1)..k
    BY <1>n
  <2> QED BY <2>1 DEF Unanswered
<1>2. CASE Opens(t[k], r)
  <2>1. Unanswered(t, k, k, r)
    BY <1>n, <1>2 DEF Unanswered
  <2>2. k \in 1..k
    BY <1>n
  <2> QED BY <1>1, <1>2, <1>c, <1>s, <2>1, <2>2 DEF OpenDescribed, next
<1>3. CASE Closes(t[k], r)
  <2>1. \A i \in 1..k : ~Unanswered(t, i, k, r)
    BY <1>1, <1>3, <1>c DEF Unanswered
  <2> QED BY <1>3, <1>s, <2>1 DEF OpenDescribed, next
<1>4. CASE ~Concerns(t[k], r)
  <2>1. \A i \in 1..k : Unanswered(t, i, k, r) => i \in 1..(k - 1)
    BY <1>4, <1>c, <1>n DEF Unanswered
  <2>2. \A i \in 1..(k - 1) : Unanswered(t, i, k, r) <=> Unanswered(t, i, k - 1, r)
    <3> SUFFICES ASSUME NEW i \in 1..(k - 1)
                 PROVE  (\A j \in (i + 1)..k : ~Concerns(t[j], r))
                          <=> \A j \in (i + 1)..(k - 1) : ~Concerns(t[j], r)
      BY DEF Unanswered
    <3>1. \A j \in (i + 1)..k : j = k \/ j \in (i + 1)..(k - 1)
      BY <1>n
    <3>2. \A j \in (i + 1)..(k - 1) : j \in (i + 1)..k
      BY <1>n
    <3> QED BY <1>4, <3>1, <3>2
  <2>3. \A i \in 1..(k - 1) : i \in 1..k
    BY <1>n
  <2> QED BY <1>4, <1>s, <2>1, <2>2, <2>3 DEF OpenDescribed, next
<1> QED BY <1>2, <1>3, <1>4, <1>c

LEMMA WindowsStayDescribed ==
  ASSUME NEW t, IsTimeline(t), NEW k \in 1..Len(t), NEW scan \in Scans,
         Described(scan, t, k - 1)
  PROVE  WindowsDescribed(Scan(scan, t[k]), t, k)
<1> DEFINE next == Scan(scan, t[k])
<1>n. k \in Nat /\ k - 1 \in Nat /\ k - 1 < k /\ t[k].at \in Int
      /\ \A i \in 1..(k - 1) : i \in 1..k /\ i < k /\ t[i].at \in Nat /\ t[i].at # NotOpen
  BY DEF IsTimeline, NotOpen
<1>w. \A w : w \in next.windows <=>
           \/ w \in scan.windows
           \/ \E r \in Reasons : /\ Closes(t[k], r) /\ scan.open[r] # NotOpen
                                 /\ w = [reason |-> r, from |-> scan.open[r], to |-> t[k].at]
  BY <1>n, ScanWindows
<1> HIDE DEF next
<1>a. \A r \in Reasons, i \in 1..(k - 1) :
        Answered(t, i, k, r) <=> Closes(t[k], r) /\ Unanswered(t, i, k - 1, r)
  BY DEF Answered, Unanswered
<1> SUFFICES ASSUME NEW w
             PROVE  w \in next.windows <=>
                      \E r \in Reasons, i, j \in 1..k :
                        i < j /\ Answered(t, i, j, r) /\ w = Window(t, i, j, r)
  BY DEF WindowsDescribed, next
<1>1. ASSUME w \in scan.windows
      PROVE  \E r \in Reasons, i, j \in 1..k :
               i < j /\ Answered(t, i, j, r) /\ w = Window(t, i, j, r)
  <2>1. PICK r \in Reasons, i, j \in 1..(k - 1) :
          i < j /\ Answered(t, i, j, r) /\ w = Window(t, i, j, r)
    BY <1>1 DEF Described, WindowsDescribed
  <2> QED BY <1>n, <2>1
<1>2. ASSUME NEW r \in Reasons, Closes(t[k], r), scan.open[r] # NotOpen,
             w = [reason |-> r, from |-> scan.open[r], to |-> t[k].at]
      PROVE  \E i, j \in 1..k : i < j /\ Answered(t, i, j, r) /\ w = Window(t, i, j, r)
  <2>1. PICK i \in 1..(k - 1) : Unanswered(t, i, k - 1, r) /\ scan.open[r] = t[i].at
    BY <1>2 DEF Described, OpenDescribed
  <2>2. Answered(t, i, k, r) /\ i < k /\ i \in 1..k /\ k \in 1..k
    BY <1>a, <1>n, <1>2, <2>1
  <2>3. w = Window(t, i, k, r)
    BY <1>2, <2>1 DEF Window
  <2> QED BY <2>2, <2>3
<1>3. ASSUME NEW r \in Reasons, NEW i \in 1..k, NEW j \in 1..k, i < j,
             Answered(t, i, j, r), w = Window(t, i, j, r)
      PROVE  w \in next.windows
  <2>1. CASE j = k
    <3>1. i \in 1..(k - 1)
      BY <1>3, <2>1, <1>n
    <3>2. Closes(t[k], r) /\ Unanswered(t, i, k - 1, r)
      BY <1>3, <1>a, <2>1, <3>1
    <3>3. scan.open[r] = t[i].at /\ scan.open[r] # NotOpen
      BY <1>n, <3>1, <3>2 DEF Described, OpenDescribed
    <3> QED BY <1>3, <1>w, <2>1, <3>2, <3>3 DEF Window
  <2>2. CASE j # k
    <3>1. i \in 1..(k - 1) /\ j \in 1..(k - 1)
      BY <1>3, <1>n, <2>2
    <3>2. w \in scan.windows
      BY <1>3, <3>1 DEF Described, WindowsDescribed
    <3> QED BY <1>w, <3>2
  <2> QED BY <2>1, <2>2
<1> QED BY <1>1, <1>2, <1>3, <1>w

LEMMA ScannedDescribes ==
  ASSUME NEW t, IsTimeline(t)
  PROVE  Scanned(t) \in Scans /\ Described(Scanned(t), t, Len(t))
<1>1. PICK f : IsScanOf(f, t) /\ Scanned(t) = f[Len(t)]
  BY ScannedIs
<1>n. Len(t) \in Nat
  BY DEF IsTimeline
<1> DEFINE G == {k \in 0..Len(t) : Described(f[k], t, k)}
<1>2. 0 \in G
  <2>1. 1..0 = {} /\ 0 \in 0..Len(t)
    BY <1>n
  <2>2. f[0].windows = {} /\ \A r \in Reasons : f[0].open[r] = NotOpen
    BY <1>1 DEF IsScanOf, NothingScanned
  <2>3. Described(f[0], t, 0)
    BY <2>1, <2>2 DEF Described, OpenDescribed, WindowsDescribed
  <2> QED BY <2>1, <2>3
<1>3. ASSUME NEW k \in 1..Len(t), k - 1 \in G PROVE k \in G
  <2>1. f[k - 1] \in Scans /\ f[k] = Scan(f[k - 1], t[k]) /\ k \in 0..Len(t)
    BY <1>n, <1>1 DEF IsScanOf
  <2>2. Described(f[k - 1], t, k - 1)
    BY <1>3
  <2>3. \A r \in Reasons : OpenDescribed(f[k - 1], t, k - 1, r)
    BY <2>2 DEF Described
  <2>4. \A r \in Reasons : OpenDescribed(f[k], t, k, r)
    BY <2>1, <2>3, OpenStaysDescribed
  <2>5. WindowsDescribed(f[k], t, k)
    BY <2>1, <2>2, WindowsStayDescribed
  <2> QED BY <2>1, <2>4, <2>5 DEF Described
<1> HIDE DEF G
<1>4. \A k \in 0..Len(t) : k \in G
  BY <1>n, <1>2, <1>3, Throughout
<1>5. Len(t) \in G /\ f[Len(t)] \in Scans
  BY <1>n, <1>1, <1>4 DEF IsScanOf
<1> QED BY <1>1, <1>5 DEF G

-----------------------------------------------------------------------------
(* The days credited, in a timeline whose entries follow each other in     *)
(* time: no two windows of a reason share a day, so that the days of the   *)
(* windows are as many as the days with a request waiting.                 *)

Sorted(t, today) ==
  \A i \in 1..Len(t) : /\ t[i].at <= today
                       /\ \A j \in i..Len(t) : t[i].at <= t[j].at

(* The i-th entry asks for a pause that runs on day d.                     *)
RunsOn(t, i, r, d) ==
  /\ Opens(t[i], r) /\ t[i].at <= d
  /\ \/ Unanswered(t, i, Len(t), r)
     \/ \E j \in (i + 1)..Len(t) : Answered(t, i, j, r) /\ t[j].at > d

IsWindowOf(w, t, i, r, today) ==
  \/ \E j \in (i + 1)..Len(t) : Answered(t, i, j, r) /\ w = Window(t, i, j, r)
  \/ Unanswered(t, i, Len(t), r) /\ w = [reason |-> r, from |-> t[i].at, to |-> today]

CreditPairs(t, today) ==
  UNION {{r} \X CreditedDays(t, r, today) : r \in StopReasons}

LEMMA CreditedDaysAre ==
  ASSUME NEW t, IsTimeline(t), NEW r, NEW today, NEW d
  PROVE  d \in CreditedDays(t, r, today) <=>
           d \in 0..(today - 1) /\ \E i \in 1..Len(t) : RunsOn(t, i, r, d)
<1>1. \A i : t[i].action \in DOMAIN Pauses /\ Concerns(t[i], r) <=> Opens(t[i], r)
  BY OnePurpose DEF Opens, Closes
<1>2. \A j : t[j].action \in DOMAIN Resumes /\ Concerns(t[j], r) <=> Closes(t[j], r)
  BY OnePurpose DEF Opens, Closes
<1> QED BY <1>1, <1>2 DEF CreditedDays, RunsOn, Unanswered, Answered

LEMMA StoppedAre ==
  ASSUME NEW t, IsTimeline(t), NEW today, NEW w
  PROVE  w \in Stopped(t, today) <=>
           \E r \in StopReasons, i \in 1..Len(t) : IsWindowOf(w, t, i, r, today)
<1> DEFINE scan == Scanned(t)
<1>n. Len(t) \in Nat /\ \A i \in 1..Len(t) : t[i].at # NotOpen
  BY DEF IsTimeline, NotOpen
<1>d. scan \in Scans /\ Described(scan, t, Len(t))
  BY ScannedDescribes
<1>o. OpenPauses(t) = {r \in Reasons : scan.open[r] # NotOpen}
  BY DEF OpenPauses
<1>s. w \in Stopped(t, today) <=>
        /\ w.reason \in StopReasons
        /\ \/ w \in scan.windows
           \/ \E r \in OpenPauses(t) : w = [reason |-> r, from |-> scan.open[r], to |-> today]
  BY DEF Stopped, PauseWindows
<1> HIDE DEF scan
<1>1. ASSUME w \in Stopped(t, today)
      PROVE  \E r \in StopReasons, i \in 1..Len(t) : IsWindowOf(w, t, i, r, today)
  <2>1. CASE w \in scan.windows
    <3>1. PICK r \in Reasons, i, j \in 1..Len(t) :
            i < j /\ Answered(t, i, j, r) /\ w = Window(t, i, j, r)
      BY <1>d, <2>1 DEF Described, WindowsDescribed
    <3>2. j \in (i + 1)..Len(t) /\ r \in StopReasons
      BY <1>1, <1>n, <1>s, <3>1 DEF Window
    <3> QED BY <3>1, <3>2 DEF IsWindowOf
  <2>2. CASE \E r \in OpenPauses(t) : w = [reason |-> r, from |-> scan.open[r], to |-> today]
    <3>1. PICK r \in OpenPauses(t) : w = [reason |-> r, from |-> scan.open[r], to |-> today]
      BY <2>2
    <3>2. r \in Reasons /\ scan.open[r] # NotOpen /\ r \in StopReasons
      BY <1>1, <1>o, <1>s, <3>1
    <3>3. PICK i \in 1..Len(t) : Unanswered(t, i, Len(t), r) /\ scan.open[r] = t[i].at
      BY <1>d, <3>2 DEF Described, OpenDescribed
    <3> QED BY <3>1, <3>2, <3>3 DEF IsWindowOf
  <2> QED BY <1>1, <1>s, <2>1, <2>2
<1>2. ASSUME NEW r \in StopReasons, NEW i \in 1..Len(t), IsWindowOf(w, t, i, r, today)
      PROVE  w \in Stopped(t, today)
  <2>0. r \in Reasons
    BY PolicyAssumption
  <2>1. CASE \E j \in (i + 1)..Len(t) : Answered(t, i, j, r) /\ w = Window(t, i, j, r)
    <3>1. PICK j \in (i + 1)..Len(t) : Answered(t, i, j, r) /\ w = Window(t, i, j, r)
      BY <2>1
    <3>2. j \in 1..Len(t) /\ i < j
      BY <1>n
    <3>3. w \in scan.windows
      BY <1>d, <2>0, <3>1, <3>2 DEF Described, WindowsDescribed
    <3> QED BY <1>s, <3>1, <3>3 DEF Window
  <2>2. CASE Unanswered(t, i, Len(t), r) /\ w = [reason |-> r, from |-> t[i].at, to |-> today]
    <3>1. scan.open[r] = t[i].at /\ scan.open[r] # NotOpen
      BY <1>d, <1>n, <2>0, <2>2 DEF Described, OpenDescribed
    <3> QED BY <1>o, <1>s, <2>0, <2>2, <3>1
  <2> QED BY <1>2, <2>1, <2>2 DEF IsWindowOf
<1> QED BY <1>1, <1>2

(* One request runs on a day, and it has one window.                       *)
LEMMA OneRunsOn ==
  ASSUME NEW t, IsTimeline(t), NEW today \in Nat, Sorted(t, today), NEW r, NEW d \in Int,
         NEW i \in 1..Len(t), NEW k \in 1..Len(t), RunsOn(t, i, r, d), RunsOn(t, k, r, d)
  PROVE  i = k
<1>n. Len(t) \in Nat /\ \A m \in 1..Len(t) : t[m].at \in Nat
  BY DEF IsTimeline
<1>1. ASSUME NEW a \in 1..Len(t), NEW b \in 1..Len(t), a < b,
             RunsOn(t, a, r, d), RunsOn(t, b, r, d)
      PROVE  FALSE
  <2>1. b \in (a + 1)..Len(t) /\ Opens(t[b], r) /\ Concerns(t[b], r) /\ ~Closes(t[b], r)
    BY <1>1, OnePurpose DEF RunsOn, Opens, Closes
  <2>2. PICK j \in (a + 1)..Len(t) : Answered(t, a, j, r) /\ t[j].at > d
    BY <1>1, <2>1 DEF RunsOn, Unanswered
  <2>3. b \notin (a + 1)..(j - 1) /\ j # b
    BY <2>1, <2>2 DEF Answered
  <2>4. j \in 1..Len(t) /\ b \in j..Len(t)
    BY <1>n, <2>1, <2>3
  <2>5. t[j].at <= t[b].at /\ t[b].at <= d /\ t[j].at \in Nat /\ t[b].at \in Nat
    BY <1>1, <1>n, <2>4 DEF Sorted, RunsOn
  <2> QED BY <2>2, <2>5
<1>2. i < k \/ i = k \/ k < i
  OBVIOUS
<1> QED BY <1>1, <1>2

LEMMA OneWindow ==
  ASSUME NEW t, IsTimeline(t), NEW today, NEW r, NEW i \in 1..Len(t), NEW v, NEW w,
         IsWindowOf(v, t, i, r, today), IsWindowOf(w, t, i, r, today)
  PROVE  v = w
<1>n. Len(t) \in Nat
  BY DEF IsTimeline
<1>c. \A j : Closes(t[j], r) => Concerns(t[j], r)
  BY OnePurpose
<1>1. ASSUME NEW j \in (i + 1)..Len(t), Answered(t, i, j, r) PROVE ~Unanswered(t, i, Len(t), r)
  BY <1>1, <1>c DEF Answered, Unanswered
<1>2. ASSUME NEW j \in (i + 1)..Len(t), NEW k \in (i + 1)..Len(t),
             Answered(t, i, j, r), Answered(t, i, k, r)
      PROVE  j = k
  <2>1. j \notin (i + 1)..(k - 1) /\ k \notin (i + 1)..(j - 1)
    BY <1>2, <1>c DEF Answered
  <2> QED BY <1>n, <2>1
<1> QED BY <1>1, <1>2 DEF IsWindowOf

(* A window is at a day exactly when its request runs on it.               *)
LEMMA WindowRunsOn ==
  ASSUME NEW t, IsTimeline(t), NEW today \in Nat, Sorted(t, today), NEW r,
         NEW i \in 1..Len(t), NEW w, IsWindowOf(w, t, i, r, today), NEW d \in Int
  PROVE  /\ w.reason = r
         /\ d \in w.from..(w.to - 1) <=> d \in 0..(today - 1) /\ RunsOn(t, i, r, d)
<1>n. Len(t) \in Nat /\ \A m \in 1..Len(t) : t[m].at \in Nat
  BY DEF IsTimeline
<1>1. CASE \E j \in (i + 1)..Len(t) : Answered(t, i, j, r) /\ w = Window(t, i, j, r)
  <2>1. PICK j \in (i + 1)..Len(t) : Answered(t, i, j, r) /\ w = Window(t, i, j, r)
    BY <1>1
  <2>2. j \in 1..Len(t) /\ t[i].at \in Nat /\ t[j].at \in Nat /\ t[j].at <= today
    BY <1>n DEF Sorted
  <2>3. \A k \in (i + 1)..Len(t) : Answered(t, i, k, r) => k = j
    <3> SUFFICES ASSUME NEW k \in (i + 1)..Len(t), Answered(t, i, k, r) PROVE k = j
      OBVIOUS
    <3>1. \A m : Closes(t[m], r) => Concerns(t[m], r)
      BY OnePurpose
    <3>2. j \notin (i + 1)..(k - 1) /\ k \notin (i + 1)..(j - 1)
      BY <2>1, <3>1 DEF Answered
    <3> QED BY <1>n, <3>2
  <2>4. ~Unanswered(t, i, Len(t), r)
    BY <2>1, OnePurpose DEF Answered, Unanswered
  <2>5. RunsOn(t, i, r, d) <=> t[i].at <= d /\ t[j].at > d
    BY <2>1, <2>3, <2>4 DEF RunsOn, Answered
  <2>6. w.reason = r /\ w.from = t[i].at /\ w.to = t[j].at
    BY <2>1 DEF Window
  <2> HIDE DEF Window
  <2> QED BY <2>2, <2>5, <2>6
<1>2. CASE Unanswered(t, i, Len(t), r) /\ w = [reason |-> r, from |-> t[i].at, to |-> today]
  <2>1. t[i].at \in Nat /\ RunsOn(t, i, r, d) <=> t[i].at <= d
    BY <1>2, <1>n DEF RunsOn, Unanswered
  <2>2. w.reason = r /\ w.from = t[i].at /\ w.to = today /\ t[i].at \in Nat
    BY <1>2, <1>n
  <2>3. RunsOn(t, i, r, d) <=> t[i].at <= d
    BY <1>2 DEF RunsOn, Unanswered
  <2> QED BY <2>2, <2>3
<1> QED BY <1>1, <1>2 DEF IsWindowOf

LEMMA CreditPairsAre ==
  ASSUME NEW t, NEW today, NEW r, NEW d
  PROVE  <<r, d>> \in CreditPairs(t, today) <=> r \in StopReasons /\ d \in CreditedDays(t, r, today)
BY DEF CreditPairs

LEMMA CreditPairsFinite ==
  ASSUME NEW t, NEW today \in Nat
  PROVE  /\ IsFiniteSet(CreditPairs(t, today))
         /\ Cardinality(CreditPairs(t, today)) \in Nat
         /\ Cardinality(StopReasons) \in Nat
         /\ Cardinality(CreditPairs(t, today)) <= Cardinality(StopReasons) * today
<1>1. IsFiniteSet(StopReasons)
  <2>1. IsFiniteSet({"verification"} \cup {"clarification"})
    BY FS_Singleton, FS_AddElement
  <2>2. IsFiniteSet(Reasons)
    <3>1. Reasons = {"verification"} \cup {"clarification"}
      BY DEF Reasons
    <3> QED BY <2>1, <3>1
  <2> QED BY <2>2, FS_Subset, PolicyAssumption
<1>2. IsFiniteSet(0..(today - 1)) /\ Cardinality(0..(today - 1)) = today
  <2>1. 0 \in Int /\ today - 1 \in Int
    OBVIOUS
  <2> QED BY <2>1, FS_Interval
<1>3. /\ IsFiniteSet(StopReasons \X (0..(today - 1)))
      /\ Cardinality(StopReasons \X (0..(today - 1))) = Cardinality(StopReasons) * today
  BY <1>1, <1>2, FS_Product
<1>4. CreditPairs(t, today) \subseteq StopReasons \X (0..(today - 1))
  BY DEF CreditPairs, CreditedDays
<1> QED BY <1>1, <1>3, <1>4, FS_Subset, FS_CardinalityType

(* computeLegalClock credits the days with a request waiting, once each.   *)
LEMMA CreditIsPairs ==
  ASSUME NEW t, IsTimeline(t), NEW today \in Nat, Sorted(t, today)
  PROVE  PauseCredit(t, today) = Cardinality(CreditPairs(t, today))
<1> DEFINE D == PauseDays(t, today)
           C == CreditPairs(t, today)
           h == [p \in D |-> <<p[1].reason, p[2]>>]
<1>1. ASSUME NEW p \in D
      PROVE  \E r \in StopReasons, i \in 1..Len(t) :
               /\ IsWindowOf(p[1], t, i, r, today) /\ RunsOn(t, i, r, p[2])
               /\ p = <<p[1], p[2]>> /\ p[1].reason = r /\ p[2] \in 0..(today - 1)
  <2>1. PICK w \in Stopped(t, today) : p \in {w} \X (w.from..(w.to - 1))
    BY DEF PauseDays
  <2>2. p = <<p[1], p[2]>> /\ p[1] = w /\ p[2] \in w.from..(w.to - 1)
    BY <2>1
  <2>3. PICK r \in StopReasons, i \in 1..Len(t) : IsWindowOf(w, t, i, r, today)
    BY StoppedAre
  <2>4. p[2] \in Int
    BY <2>2
  <2>5. w.reason = r /\ p[2] \in 0..(today - 1) /\ RunsOn(t, i, r, p[2])
    BY <2>2, <2>3, <2>4, WindowRunsOn
  <2> QED BY <2>2, <2>3, <2>5
<1>2. h \in [D -> C]
  <2> SUFFICES ASSUME NEW p \in D PROVE <<p[1].reason, p[2]>> \in C
    OBVIOUS
  <2> HIDE DEF D
  <2>1. PICK r \in StopReasons, i \in 1..Len(t) :
           RunsOn(t, i, r, p[2]) /\ p[1].reason = r /\ p[2] \in 0..(today - 1)
    BY <1>1
  <2>2. p[2] \in CreditedDays(t, r, today)
    BY <2>1, CreditedDaysAre
  <2> QED BY <2>1, <2>2, CreditPairsAre
<1>3. ASSUME NEW p \in D, NEW q \in D, h[p] = h[q] PROVE p = q
  <2> HIDE DEF D
  <2>1. PICK r \in StopReasons, i \in 1..Len(t) :
               /\ IsWindowOf(p[1], t, i, r, today) /\ RunsOn(t, i, r, p[2])
               /\ p = <<p[1], p[2]>> /\ p[1].reason = r /\ p[2] \in 0..(today - 1)
    BY <1>1
  <2>2. PICK s \in StopReasons, k \in 1..Len(t) :
               /\ IsWindowOf(q[1], t, k, s, today) /\ RunsOn(t, k, s, q[2])
               /\ q = <<q[1], q[2]>> /\ q[1].reason = s /\ q[2] \in 0..(today - 1)
    BY <1>1
  <2>3. r = s /\ p[2] = q[2] /\ p[2] \in Int
    BY <1>3, <2>1, <2>2
  <2>4. i = k
    BY <2>1, <2>2, <2>3, OneRunsOn
  <2>5. p[1] = q[1]
    BY <2>1, <2>2, <2>3, <2>4, OneWindow
  <2> QED BY <2>1, <2>2, <2>3, <2>5
<1>4. ASSUME NEW c \in C PROVE \E p \in D : h[p] = c
  <2>1. PICK r \in StopReasons : \E d \in CreditedDays(t, r, today) : c = <<r, d>>
    BY DEF CreditPairs
  <2>d. PICK d \in CreditedDays(t, r, today) : c = <<r, d>>
    BY <2>1
  <2>2. d \in 0..(today - 1) /\ d \in Int
    BY <2>d, CreditedDaysAre
  <2>3. PICK i \in 1..Len(t) : RunsOn(t, i, r, d)
    BY <2>d, CreditedDaysAre
  <2>4. \E w : IsWindowOf(w, t, i, r, today)
    BY <2>3 DEF RunsOn, IsWindowOf
  <2>5. PICK w : IsWindowOf(w, t, i, r, today)
    BY <2>4
  <2>6. w \in Stopped(t, today) /\ w.reason = r /\ d \in w.from..(w.to - 1)
    BY <2>2, <2>3, <2>5, StoppedAre, WindowRunsOn
  <2>7. <<w, d>> \in D
    BY <2>6 DEF PauseDays
  <2> HIDE DEF D
  <2>8. h[<<w, d>>] = <<r, d>>
    BY <2>6, <2>7
  <2> QED BY <2>d, <2>7, <2>8
<1> HIDE DEF D, C, h
<1>5. h \in Injection(D, C)
  BY <1>2, <1>3 DEF Injection, IsInjective
<1>6. h \in Surjection(D, C)
  BY <1>2, <1>4 DEF Surjection
<1>7. IsFiniteSet(C)
  BY CreditPairsFinite DEF C
<1>8. Cardinality(D) = Cardinality(C)
  BY <1>5, <1>6, <1>7, FS_Injection
<1> QED BY <1>8 DEF PauseCredit, D, C

-----------------------------------------------------------------------------
(* The extensions asked for, and the due date computed.                    *)

IsSumOf(g, t) ==
  /\ g \in [0..Len(t) -> Int] /\ g[0] = 0
  /\ \A i \in 1..Len(t) :
       g[i] = IF t[i].action = "extension" THEN g[i - 1] + t[i].days ELSE g[i - 1]

LEMMA AskedIs ==
  ASSUME NEW t, IsTimeline(t)
  PROVE  \E g : IsSumOf(g, t) /\ AskedDays(t) = g[Len(t)]
<1> DEFINE n == Len(t)
           Sum(i, s) == IF t[i].action = "extension" THEN s + t[i].days ELSE s
           step == [i \in 1..n |-> [s \in Int |-> Sum(i, s)]]
           Def(f) == f = [i \in 0..Len(t) |->
                            IF i = 0 THEN 0
                            ELSE IF t[i].action = "extension"
                            THEN f[i - 1] + t[i].days
                            ELSE f[i - 1]]
<1>n. n \in Nat /\ \A i \in 1..n : t[i].days \in Int
  BY DEF IsTimeline
<1>2. step \in [1..n -> [Int -> Int]]
  BY <1>n
<1>3. PICK f : IsRun(f, Int, 0, n, step)
  <2> HIDE DEF step, n, Def
  <2>1. n \in Nat /\ 0 \in Int
    BY <1>n
  <2> QED BY <2>1, <1>2, Recursion
<1>4. \A i \in 1..n : f[i] = Sum(i, f[i - 1])
  <2>1. \A i \in 1..n : f[i - 1] \in Int
    BY <1>n, <1>3 DEF IsRun
  <2> QED BY <1>3, <2>1 DEF IsRun
<1>5. Def(f)
  BY <1>n, <1>3, <1>4 DEF IsRun
<1>6. PICK g : Def(g) /\ AskedDays(t) = g[n]
  <2>1. AskedDays(t) = (CHOOSE g : Def(g))[n]
    BY DEF AskedDays
  <2> HIDE DEF Def
  <2> QED BY <1>5, <2>1
<1>7. \A k \in 0..n : g[k] = f[k]
  <2> DEFINE G == {k \in 0..n : g[k] = f[k]}
  <2>0. g[0] = 0 /\ \A i \in 1..n : g[i] = Sum(i, g[i - 1])
    BY <1>n, <1>6
  <2>1. 0 \in G
    BY <1>n, <1>3, <2>0 DEF IsRun
  <2>2. \A k \in 1..n : k - 1 \in G => k \in G
    BY <1>n, <1>4, <2>0
  <2> HIDE DEF G
  <2>3. \A k \in 0..n : k \in G
    BY <1>n, <2>1, <2>2, Throughout
  <2> QED BY <2>3 DEF G
<1>8. IsSumOf(f, t)
  BY <1>3, <1>4 DEF IsSumOf, IsRun
<1>9. AskedDays(t) = f[Len(t)]
  BY <1>n, <1>6, <1>7
<1> QED BY <1>8, <1>9

Prefix(p, t) == Len(p) <= Len(t) /\ \A i \in 1..Len(p) : p[i] = t[i]

(* Without a negative extension the sum of a longer timeline is no less.   *)
LEMMA AskedGrows ==
  ASSUME NEW p, NEW t, IsTimeline(p), IsTimeline(t), Prefix(p, t),
         \A i \in 1..Len(t) : t[i].days >= 0
  PROVE  AskedDays(p) \in Int /\ AskedDays(t) \in Int /\ AskedDays(p) <= AskedDays(t)
<1>1. PICK f : IsSumOf(f, p) /\ AskedDays(p) = f[Len(p)]
  BY AskedIs
<1>2. PICK g : IsSumOf(g, t) /\ AskedDays(t) = g[Len(t)]
  BY AskedIs
<1>n. Len(p) \in Nat /\ Len(t) \in Nat /\ Len(p) <= Len(t)
  BY DEF IsTimeline, Prefix
<1> DEFINE G == {k \in 0..Len(t) : IF k <= Len(p) THEN f[k] = g[k] ELSE f[Len(p)] <= g[k]}
<1>t. /\ \A k \in 0..Len(p) : f[k] \in Int
      /\ \A k \in 0..Len(t) : g[k] \in Int
  BY <1>1, <1>2 DEF IsSumOf
<1>3. 0 \in G
  BY <1>n, <1>1, <1>2 DEF IsSumOf
<1>4. ASSUME NEW k \in 1..Len(t), k - 1 \in G PROVE k \in G
  <2>1. k \in 0..Len(t) /\ k - 1 \in 0..Len(t)
    BY <1>n
  <2>2. g[k] = IF t[k].action = "extension" THEN g[k - 1] + t[k].days ELSE g[k - 1]
    BY <1>2 DEF IsSumOf
  <2>3. CASE k <= Len(p)
    <3>1. k \in 1..Len(p) /\ p[k] = t[k] /\ f[k - 1] = g[k - 1]
      BY <1>4, <1>n, <2>3 DEF Prefix
    <3>2. f[k] = IF p[k].action = "extension" THEN f[k - 1] + p[k].days ELSE f[k - 1]
      BY <1>1, <3>1 DEF IsSumOf
    <3> QED BY <2>1, <2>2, <2>3, <3>1, <3>2
  <2>4. CASE ~(k <= Len(p))
    <3>1. f[Len(p)] <= g[k - 1] /\ g[k - 1] \in Int /\ f[Len(p)] \in Int
      BY <1>4, <1>n, <1>t, <2>1, <2>4
    <3>2. t[k].days >= 0 /\ t[k].days \in Int
      BY DEF IsTimeline
    <3> QED BY <2>1, <2>2, <2>4, <3>1, <3>2
  <2> QED BY <2>3, <2>4
<1> HIDE DEF G
<1>5. \A k \in 0..Len(t) : k \in G
  BY <1>n, <1>3, <1>4, Throughout
<1>6. Len(t) \in G
  BY <1>n, <1>5
<1> QED BY <1>1, <1>2, <1>6, <1>n, <1>t DEF G

LEMMA AskedType ==
  ASSUME NEW t, IsTimeline(t)
  PROVE  AskedDays(t) \in Int /\ ExtensionDays(t) \in 0..MaxAdditionalDays
<1>1. PICK g : IsSumOf(g, t) /\ AskedDays(t) = g[Len(t)]
  BY AskedIs
<1>2. AskedDays(t) \in Int
  BY <1>1 DEF IsSumOf, IsTimeline
<1> QED BY <1>2, PolicyAssumption DEF ExtensionDays

(* The due date is the policy's plus what is credited.                     *)
LEMMA FinalDueIs ==
  ASSUME NEW t, IsTimeline(t), NEW today \in Nat, Sorted(t, today)
  PROVE  /\ FinalDueAt(t, today) \in Nat
         /\ FinalDueAt(t, today) =
              ResponseDays + Cardinality(CreditPairs(t, today)) + ExtensionDays(t)
<1>1. PauseCredit(t, today) = Cardinality(CreditPairs(t, today))
  BY CreditIsPairs
<1>2. Cardinality(CreditPairs(t, today)) \in Nat
  BY CreditPairsFinite
<1>3. ExtensionDays(t) \in Nat
  BY AskedType, PolicyAssumption
<1> QED BY <1>1, <1>2, <1>3, PolicyAssumption DEF FinalDueAt

LEMMA OpenPausesAre ==
  ASSUME NEW t, IsTimeline(t), NEW r \in Reasons
  PROVE  r \in OpenPauses(t) <=> \E i \in 1..Len(t) : Unanswered(t, i, Len(t), r)
<1>1. Scanned(t) \in Scans /\ Described(Scanned(t), t, Len(t))
  BY ScannedDescribes
<1>2. OpenDescribed(Scanned(t), t, Len(t), r)
  BY <1>1 DEF Described
<1>3. \A i \in 1..Len(t) : t[i].at # NotOpen
  BY DEF IsTimeline, NotOpen
<1> QED BY <1>2, <1>3 DEF OpenPauses, OpenDescribed

(* As long as nothing open is asked for again, what a timeline credits is  *)
(* credited by all that continue it.                                       *)
LEMMA CreditGrows ==
  ASSUME NEW p, NEW t, IsTimeline(p), IsTimeline(t), Prefix(p, t),
         NEW a \in Nat, NEW b \in Nat, a <= b,
         \A m \in (Len(p) + 1)..Len(t) : a <= t[m].at,
         \A m \in (Len(p) + 1)..Len(t), r \in Reasons :
           Opens(t[m], r) => \A i \in 1..(m - 1) : ~Unanswered(t, i, m - 1, r)
  PROVE  CreditPairs(p, a) \subseteq CreditPairs(t, b)
<1> SUFFICES ASSUME NEW r \in StopReasons, NEW d, d \in CreditedDays(p, r, a)
             PROVE  d \in CreditedDays(t, r, b)
  BY DEF CreditPairs
<1>n. /\ Len(p) \in Nat /\ Len(t) \in Nat /\ Len(p) <= Len(t) /\ r \in Reasons
      /\ \A i \in 1..Len(p) : p[i] = t[i] /\ i \in 1..Len(t)
  BY PolicyAssumption DEF IsTimeline, Prefix
<1>1. d \in 0..(a - 1) /\ \E i \in 1..Len(p) : RunsOn(p, i, r, d)
  BY CreditedDaysAre
<1>2. PICK i \in 1..Len(p) : RunsOn(p, i, r, d)
  BY <1>1
<1>3. i \in 1..Len(t) /\ Opens(t[i], r) /\ t[i].at <= d /\ d \in 0..(b - 1) /\ d < a
  BY <1>1, <1>2, <1>n DEF RunsOn
<1>4. CASE \E j \in (i + 1)..Len(p) : Answered(p, i, j, r) /\ p[j].at > d
  <2>1. PICK j \in (i + 1)..Len(p) : Answered(p, i, j, r) /\ p[j].at > d
    BY <1>4
  <2>2. /\ j \in (i + 1)..Len(t) /\ p[j] = t[j]
        /\ \A m \in (i + 1)..(j - 1) : p[m] = t[m]
    BY <1>n
  <2>3. Answered(t, i, j, r) /\ t[j].at > d
    BY <1>3, <2>1, <2>2 DEF Answered
  <2> QED BY <1>3, <2>2, <2>3, CreditedDaysAre DEF RunsOn
<1>5. CASE Unanswered(p, i, Len(p), r)
  <2>1. \A m \in (i + 1)..Len(p) : ~Concerns(t[m], r)
    BY <1>5, <1>n DEF Unanswered
  <2>2. CASE \A m \in (Len(p) + 1)..Len(t) : ~Concerns(t[m], r)
    <3>1. Unanswered(t, i, Len(t), r)
      <4>1. \A m \in (i + 1)..Len(t) : m \in (i + 1)..Len(p) \/ m \in (Len(p) + 1)..Len(t)
        BY <1>n
      <4> QED BY <1>3, <2>1, <2>2, <4>1 DEF Unanswered
    <3> QED BY <1>3, <3>1, CreditedDaysAre DEF RunsOn
  <2>3. CASE \E m \in (Len(p) + 1)..Len(t) : Concerns(t[m], r)
    <3> DEFINE Later == {m \in (Len(p) + 1)..Len(t) : Concerns(t[m], r)}
    <3>1. IsFiniteSet(Later) /\ Later \in SUBSET Nat /\ Later # {}
      <4>1. IsFiniteSet((Len(p) + 1)..Len(t))
        BY <1>n, FS_Interval
      <4>2. Later \subseteq (Len(p) + 1)..Len(t) /\ Later # {}
        BY <2>3
      <4>3. (Len(p) + 1)..Len(t) \subseteq Nat
        BY <1>n
      <4> HIDE DEF Later
      <4> QED BY <4>1, <4>2, <4>3, FS_Subset
    <3>2. PICK j \in Later : \A m \in Later : j <= m
      BY <3>1, HasLeast
    <3>3. j \in (Len(p) + 1)..Len(t) /\ Concerns(t[j], r) /\ j \in (i + 1)..Len(t)
      BY <1>n
    <3>4. \A m \in (i + 1)..(j - 1) : ~Concerns(t[m], r)
      <4> SUFFICES ASSUME NEW m \in (i + 1)..(j - 1) PROVE ~Concerns(t[m], r)
        OBVIOUS
      <4>1. CASE m <= Len(p)
        BY <1>n, <2>1, <4>1
      <4>2. CASE m > Len(p)
        <5>1. m \in (Len(p) + 1)..Len(t) /\ m < j
          BY <1>n, <3>3, <4>2
        <5> QED BY <3>2, <3>3, <5>1
      <4> QED BY <1>n, <4>1, <4>2
    <3>5. ~Opens(t[j], r)
      <4>1. Unanswered(t, i, j - 1, r) /\ i \in 1..(j - 1)
        BY <1>3, <3>3, <3>4 DEF Unanswered
      <4> QED BY <1>n, <3>3, <4>1
    <3>6. Closes(t[j], r)
      BY <3>3, <3>5, OnePurpose
    <3>7. a <= t[j].at /\ t[j].at \in Nat
      BY <3>3, <1>n DEF IsTimeline
    <3>8. Answered(t, i, j, r) /\ t[j].at > d
      BY <1>1, <1>3, <3>4, <3>6, <3>7 DEF Answered
    <3> QED BY <1>3, <3>3, <3>8, CreditedDaysAre DEF RunsOn
  <2> QED BY <2>2, <2>3
<1> QED BY <1>2, <1>4, <1>5 DEF RunsOn

-----------------------------------------------------------------------------
(* One more event is scanned, and its days are added, after all the others. *)

LEMMA PartOfLonger ==
  ASSUME NEW S, NEW t \in Seq(S), NEW e \in S, IsTimeline(Append(t, e))
  PROVE  /\ IsTimeline(t) /\ Len(t) \in Nat /\ Len(Append(t, e)) = Len(t) + 1
         /\ Append(t, e)[Len(t) + 1] = e
         /\ \A i \in 1..Len(t) : Append(t, e)[i] = t[i]
<1>1. /\ Len(t) \in Nat /\ Len(Append(t, e)) = Len(t) + 1
      /\ Append(t, e)[Len(t) + 1] = e
      /\ \A i \in 1..Len(t) : Append(t, e)[i] = t[i]
  OBVIOUS
<1>2. IsTimeline(t)
  BY <1>1 DEF IsTimeline
<1> QED BY <1>1, <1>2

LEMMA ScannedAppend ==
  ASSUME NEW S, NEW t \in Seq(S), NEW e \in S, IsTimeline(Append(t, e))
  PROVE  Scanned(Append(t, e)) = Scan(Scanned(t), e)
<1> DEFINE u == Append(t, e)
           n == Len(t)
<1>1. /\ IsTimeline(t) /\ IsTimeline(u) /\ n \in Nat /\ Len(u) = n + 1
      /\ u[n + 1] = e /\ \A i \in 1..n : u[i] = t[i]
  BY PartOfLonger
<1> HIDE DEF u
<1>2. PICK f : IsScanOf(f, t) /\ Scanned(t) = f[n]
  BY <1>1, ScannedIs
<1>3. PICK g : IsScanOf(g, u) /\ Scanned(u) = g[Len(u)]
  BY <1>1, ScannedIs
<1> DEFINE G == {k \in 0..n : g[k] = f[k]}
<1> HIDE DEF n
<1>4. 0 \in G
  BY <1>1, <1>2, <1>3 DEF IsScanOf
<1>5. ASSUME NEW k \in 1..n, k - 1 \in G PROVE k \in G
  <2>1. f[k] = Scan(f[k - 1], t[k])
    BY <1>2 DEF IsScanOf, n
  <2>2. k \in 1..Len(u) /\ u[k] = t[k] /\ k \in 0..n
    BY <1>1
  <2>3. g[k] = Scan(g[k - 1], u[k])
    BY <1>3, <2>2 DEF IsScanOf
  <2> QED BY <1>5, <2>1, <2>2, <2>3
<1> HIDE DEF G
<1>6. n \in G
  <2>1. n \in Nat /\ n \in 0..n
    BY <1>1
  <2>2. \A k \in 0..n : k \in G
    BY <2>1, <1>4, <1>5, Throughout
  <2> QED BY <2>1, <2>2
<1>7. n + 1 \in 1..Len(u) /\ (n + 1) - 1 = n
  BY <1>1
<1>8. g[n + 1] = Scan(g[n], u[n + 1])
  BY <1>3, <1>7 DEF IsScanOf
<1> QED BY <1>1, <1>2, <1>3, <1>6, <1>8 DEF G, u

LEMMA AskedAppend ==
  ASSUME NEW S, NEW t \in Seq(S), NEW e \in S, IsTimeline(Append(t, e))
  PROVE  AskedDays(Append(t, e)) =
           IF e.action = "extension" THEN AskedDays(t) + e.days ELSE AskedDays(t)
<1> DEFINE u == Append(t, e)
           n == Len(t)
<1>1. /\ IsTimeline(t) /\ IsTimeline(u) /\ n \in Nat /\ Len(u) = n + 1
      /\ u[n + 1] = e /\ \A i \in 1..n : u[i] = t[i]
  BY PartOfLonger
<1> HIDE DEF u
<1>2. PICK f : IsSumOf(f, t) /\ AskedDays(t) = f[n]
  BY <1>1, AskedIs
<1>3. PICK g : IsSumOf(g, u) /\ AskedDays(u) = g[Len(u)]
  BY <1>1, AskedIs
<1> DEFINE G == {k \in 0..n : g[k] = f[k]}
<1> HIDE DEF n
<1>4. 0 \in G
  BY <1>1, <1>2, <1>3 DEF IsSumOf
<1>5. ASSUME NEW k \in 1..n, k - 1 \in G PROVE k \in G
  <2>1. f[k] = IF t[k].action = "extension" THEN f[k - 1] + t[k].days ELSE f[k - 1]
    BY <1>2 DEF IsSumOf, n
  <2>2. k \in 1..Len(u) /\ u[k] = t[k] /\ k \in 0..n
    BY <1>1
  <2>3. g[k] = IF u[k].action = "extension" THEN g[k - 1] + u[k].days ELSE g[k - 1]
    BY <1>3, <2>2 DEF IsSumOf
  <2> QED BY <1>5, <2>1, <2>2, <2>3
<1> HIDE DEF G
<1>6. n \in G
  <2>1. n \in Nat /\ n \in 0..n
    BY <1>1
  <2>2. \A k \in 0..n : k \in G
    BY <2>1, <1>4, <1>5, Throughout
  <2> QED BY <2>1, <2>2
<1>7. n + 1 \in 1..Len(u) /\ (n + 1) - 1 = n
  BY <1>1
<1>8. g[n + 1] = IF u[n + 1].action = "extension" THEN g[n] + u[n + 1].days ELSE g[n]
  BY <1>3, <1>7 DEF IsSumOf
<1> QED BY <1>1, <1>2, <1>3, <1>6, <1>8 DEF G, u
=============================================================================
