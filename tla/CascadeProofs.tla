---------------------------- MODULE CascadeProofs ----------------------------
(***************************************************************************)
(* Proofs about Cascade, for every ledger, every entity and every bound:   *)
(* what a cascade deletion leaves alone, and what it reports as deleted.   *)
(***************************************************************************)
EXTENDS Cascade, SyncReplicaProofs, FiniteSetTheorems

-----------------------------------------------------------------------------
(* The inductive invariant                                                 *)

CascadeType == [at : {"idle", "count", "find"} \cup Checks \cup Deletions,
                nums : Seq(Block), rest : Seq(Block), read : SUBSET Block,
                whole : BOOLEAN, broken : SUBSET Block, data : SUBSET Block,
                error : SUBSET Block, answer : {"none", "ok", "error"}]

\* A loop of the request is at a block of its list; nothing is reported before step 3.
Shape(c) ==
    /\ c \in CascadeType
    /\ c.at \in Checks \cup Deletions => c.rest # <<>> /\ LeftOf(c.rest, c.nums)
    /\ c.broken # {} => c.nums # <<>>
    /\ c.at # "idle" => c.answer = "none"
    /\ c.at \in {"count", "find"} \cup Checks => c.data = {}
    /\ c.at \in {"count", "find"} => c.broken = {}

\* Unless a job has run beside it, a request has the tables to itself.
AloneInv == ~mixed /\ Busy => step = "idle" /\ LateDone

\* No row of block b is left.
Gone(b) == block[b] = "absent" /\ \A t \in txs \cup commits : t[1] # b

\* Then the list is as the request has read it, the blocks it will report are gone, and the one
\* it is at is gone from the tables it has been through.
GoneInv ==
    ~mixed /\ cascade.at \in Deletions =>
        /\ cascade.at = "saveKV" => cascade.read = kv
        /\ \A b \in cascade.data : Gone(b) /\ b \notin kv
        /\ cascade.at # "deleteBlock" => block[This] = "absent"
        /\ cascade.at \in {"deleteCommit", "readKV", "saveKV"} => \A t \in txs : t[1] # This
        /\ cascade.at \in {"readKV", "saveKV"} => \A t \in commits : t[1] # This

CascadeInv ==
    /\ TypeInv /\ Shape(cascade)
    /\ requests \in 0 .. MaxRequests /\ mixed \in BOOLEAN
    /\ IsFiniteSet(commits)
    /\ AloneInv /\ GoneInv

-----------------------------------------------------------------------------
(* The list of block numbers, and what is left of it                       *)

\* In a finite set with a total order every rank is taken.
LEMMA Ranks ==
  ASSUME NEW S, IsFiniteSet(S), NEW before \in [S -> SUBSET S],
         \A t \in S : t \notin before[t],
         \A s, t \in S : s \in before[t] => before[s] \subseteq before[t],
         \A s, t \in S : s # t => s \in before[t] \/ t \in before[s]
  PROVE  /\ Cardinality(S) \in Nat
         /\ \A n \in 0 .. Cardinality(S) - 1 : \E t \in S : Cardinality(before[t]) = n
  <1> DEFINE k == Cardinality(S)
             ranks == 0 .. k - 1
             f == [t \in S |-> Cardinality(before[t])]
  <1>1. k \in Nat
    BY FS_CardinalityType
  <1>2. \A t \in S : /\ IsFiniteSet(before[t]) /\ Cardinality(before[t]) \in Nat
                     /\ before[t] \subseteq S \ {t}
    BY FS_Subset, FS_CardinalityType
  <1>3. \A t \in S : f[t] \in ranks
    <2> TAKE t \in S
    <2>1. IsFiniteSet(S \ {t}) /\ Cardinality(S \ {t}) = k - 1
      BY FS_RemoveElement
    <2>2. Cardinality(before[t]) <= k - 1
      BY <1>2, <2>1, FS_Subset
    <2> QED  BY <1>1, <1>2, <2>2
  <1>4. ASSUME NEW s \in S, NEW t \in S, s \in before[t] PROVE f[s] < f[t]
    <2>1. before[s] \subseteq before[t] \ {s}
      BY <1>4
    <2>2. /\ IsFiniteSet(before[t] \ {s})
          /\ Cardinality(before[t] \ {s}) = Cardinality(before[t]) - 1
      BY <1>2, <1>4, FS_RemoveElement
    <2>3. Cardinality(before[s]) <= Cardinality(before[t]) - 1
      BY <2>1, <2>2, FS_Subset
    <2> QED  BY <1>2, <2>3
  <1>5. \A s, t \in S : f[s] = f[t] => s = t
    <2> SUFFICES ASSUME NEW s \in S, NEW t \in S, s # t PROVE f[s] # f[t]
      OBVIOUS
    <2>1. f[s] < f[t] \/ f[t] < f[s]
      BY <1>4
    <2>2. f[s] \in Int /\ f[t] \in Int
      BY <1>1, <1>3
    <2> QED  BY <2>1, <2>2
  <1>6. f \in Injection(S, ranks)
    <2>1. f \in [S -> ranks]
      BY <1>3
    <2> HIDE DEF f, ranks
    <2> QED  BY <1>5, <2>1 DEF Injection, IsInjective
  <1>7. IsFiniteSet(ranks) /\ Cardinality(ranks) = k
    BY <1>1, FS_Interval
  <1>8. f \in Surjection(S, ranks)
    <2> HIDE DEF f, ranks
    <2> QED  BY <1>6, <1>7, FS_Injection DEF k
  <1>9. \A n \in ranks : \E t \in S : f[t] = n
    <2> HIDE DEF f, ranks
    <2> QED  BY <1>8 DEF Surjection
  <1> QED  BY <1>1, <1>9

\* A transaction is a block and a number.
LEMMA TxPair == \A t \in Tx : t[1] \in Block /\ t[2] \in Nat /\ t = <<t[1], t[2]>>
  <1> SUFFICES ASSUME NEW t \in Tx PROVE t[1] \in Block /\ t[2] \in Nat /\ t = <<t[1], t[2]>>
    OBVIOUS
  <1>1. PICK b \in Block : t \in {b} \X (1 .. NTx[b])
    BY DEF Tx
  <1> QED  BY <1>1

\* The numbers a request reads off its commits make a list of blocks.
LEMMA BlockNumsType ==
  ASSUME IsFiniteSet(commits), commits \subseteq WithCommit
  PROVE  BlockNums \in Seq(Block)
  <1> DEFINE before == [t \in Found |-> EarlierThan(t)]
             k == Cardinality(Found)
  <1>1. IsFiniteSet(Found)
    BY FS_Subset DEF Found
  <1>2. \A t \in Found : t[1] \in Int /\ t[2] \in Int /\ t = <<t[1], t[2]>> /\ t[1] \in Block
    BY CommitAssumption, TxPair DEF Found, Block
  <1>3. before \in [Found -> SUBSET Found] /\ \A t \in Found : t \notin before[t]
    BY <1>2 DEF EarlierThan, Earlier
  <1>4. \A s, t \in Found : s \in before[t] => before[s] \subseteq before[t]
    <2> SUFFICES ASSUME NEW s \in Found, NEW t \in Found, Earlier(s, t),
                        NEW r \in Found, Earlier(r, s)
                 PROVE  Earlier(r, t)
      BY DEF EarlierThan
    <2> QED  BY <1>2 DEF Earlier
  <1>5. \A s, t \in Found : s # t => s \in before[t] \/ t \in before[s]
    <2> SUFFICES ASSUME NEW s \in Found, NEW t \in Found, s # t
                 PROVE  Earlier(s, t) \/ Earlier(t, s)
      BY DEF EarlierThan
    <2>1. s[1] # t[1] \/ s[2] # t[2]
      BY <1>2
    <2> QED  BY <1>2, <2>1 DEF Earlier
  <1>6. k \in Nat /\ \A n \in 0 .. k - 1 : \E t \in Found : Cardinality(before[t]) = n
    <2> HIDE DEF before
    <2> QED  BY <1>1, <1>3, <1>4, <1>5, Ranks
  <1>7. ASSUME NEW n \in 1 .. k PROVE BlockNums[n] \in Block
    <2>1. n - 1 \in 0 .. k - 1
      BY <1>6
    <2>2. \E t \in Found : Cardinality(EarlierThan(t)) = n - 1
      BY <1>6, <2>1
    <2>3. (CHOOSE t \in Found : Cardinality(EarlierThan(t)) = n - 1) \in Found
      BY <2>2
    <2> QED  BY <1>2, <2>3 DEF BlockNums
  <1>8. BlockNums \in [1 .. k -> Block]
    BY <1>7 DEF BlockNums
  <1> QED  BY <1>6, <1>8

\* The head of what is left is of the list, and the tail is what is left then.
LEMMA LeftTail ==
  ASSUME NEW all \in Seq(Block), NEW rest \in Seq(Block), rest # <<>>, LeftOf(rest, all)
  PROVE  /\ Head(rest) \in Block /\ \E n \in DOMAIN all : all[n] = Head(rest)
         /\ Tail(rest) \in Seq(Block) /\ LeftOf(Tail(rest), all) /\ all # <<>>
  <1>1. /\ Len(rest) \in Nat /\ Len(all) \in Nat /\ Len(rest) <= Len(all) /\ Len(rest) > 0
        /\ \A n \in 1 .. Len(rest) : rest[n] = all[Len(all) - Len(rest) + n]
    BY DEF LeftOf
  <1>2. /\ Tail(rest) \in Seq(Block) /\ Len(Tail(rest)) = Len(rest) - 1 /\ Head(rest) \in Block
        /\ \A n \in 1 .. Len(Tail(rest)) : Tail(rest)[n] = rest[n + 1]
    BY HeadTailProperties
  <1>3. Head(rest) = rest[1] /\ rest[1] = all[Len(all) - Len(rest) + 1]
    BY <1>1
  <1>4. Len(all) - Len(rest) + 1 \in DOMAIN all
    BY <1>1
  <1>5. LeftOf(Tail(rest), all)
    <2>1. DOMAIN Tail(rest) = 1 .. Len(rest) - 1
      BY <1>2
    <2>2. ASSUME NEW n \in 1 .. Len(rest) - 1
          PROVE  Tail(rest)[n] = all[Len(all) - (Len(rest) - 1) + n]
      <3>1. Tail(rest)[n] = rest[n + 1] /\ n + 1 \in 1 .. Len(rest)
        BY <1>1, <1>2
      <3>2. rest[n + 1] = all[Len(all) - Len(rest) + (n + 1)]
        BY <1>1, <3>1
      <3>3. Len(all) - Len(rest) + (n + 1) = Len(all) - (Len(rest) - 1) + n
        BY <1>1
      <3> QED  BY <3>1, <3>2, <3>3
    <2> QED  BY <1>1, <1>2, <2>1, <2>2 DEF LeftOf
  <1>6. all # <<>>
    BY <1>1
  <1> QED  BY <1>2, <1>3, <1>4, <1>5, <1>6

\* Before its first block, a loop has the whole list left.
LEMMA LeftAll == \A all \in Seq(Block) : LeftOf(all, all)
  BY DEF LeftOf

-----------------------------------------------------------------------------
(* What the statements of a request do                                     *)

\* The answer keeps what has been deleted, and nothing else.
LEMMA AnswerEffect ==
  ASSUME NEW c \in CascadeType, NEW status \in {"ok", "error"}, Answer(c, status)
  PROVE  Shape(cascade') /\ cascade'.at = "idle" /\ cascade'.data = c.data
  <1>1. Quiet \in CascadeType /\ Quiet.broken = {} /\ Quiet.at = "idle"
    BY EmptySeq DEF Quiet, CascadeType
  <1> DEFINE d == [Quiet EXCEPT !.data = c.data, !.answer = status]
  <1>2. d \in CascadeType /\ d.broken = {} /\ d.at = "idle" /\ d.data = c.data
    <2>1. c.data \in SUBSET Block
      BY DEF CascadeType
    <2> DEFINE q == Quiet
    <2>2. q \in CascadeType /\ q.broken = {} /\ q.at = "idle"
      BY <1>1
    <2> HIDE DEF q
    <2>3. LET e == [q EXCEPT !.data = c.data, !.answer = status]
          IN  e \in CascadeType /\ e.broken = {} /\ e.at = "idle" /\ e.data = c.data
      BY <2>1, <2>2 DEF CascadeType
    <2> QED  BY <2>3 DEF q
  <1>3. cascade' = d
    BY DEF Answer
  <1> HIDE DEF d
  <1> QED  BY <1>2, <1>3 DEF Shape, Checks, Deletions

\* The checks go on to the next block, or end in step 3 or in an answer.
LEMMA NextCheckEffect ==
  ASSUME NEW c \in CascadeType, LeftOf(c.rest, c.nums), c.broken # {} => c.nums # <<>>,
         c.answer = "none", c.data = {}, NextCheck(c)
  PROVE  Shape(cascade') /\ cascade'.data = {} /\ cascade'.at \in {"idle", "checkKV", "deleteBlock"}
  <1>1. CASE c.rest # <<>> /\ cascade' = [c EXCEPT !.at = "checkKV"]
    <2>1. /\ cascade' \in CascadeType /\ cascade'.at = "checkKV" /\ cascade'.rest = c.rest
          /\ cascade'.nums = c.nums /\ cascade'.broken = c.broken /\ cascade'.data = {}
          /\ cascade'.answer = "none"
      BY <1>1 DEF CascadeType, Checks
    <2> QED  BY <1>1, <2>1 DEF Shape
  <1>2. CASE c.rest = <<>> /\ Refuses(c) /\ Answer(c, "error")
    BY <1>2, AnswerEffect
  <1>3. CASE c.rest = <<>> /\ ~Refuses(c) /\ cascade' = [c EXCEPT !.at = "deleteBlock", !.rest = c.nums]
    <2>1. c.nums \in Seq(Block) /\ c.nums # <<>>
      BY <1>3 DEF Refuses, CascadeType
    <2>2. /\ cascade' \in CascadeType /\ cascade'.at = "deleteBlock" /\ cascade'.rest = c.nums
          /\ cascade'.nums = c.nums /\ cascade'.broken = c.broken /\ cascade'.data = {}
          /\ cascade'.answer = "none"
      BY <1>3, <2>1 DEF CascadeType, Deletions
    <2> QED  BY <2>1, <2>2, LeftAll DEF Shape, Checks
  <1> QED  BY <1>1, <1>2, <1>3 DEF NextCheck

\* So after a block that has been checked.
LEMMA CheckedEffect ==
  ASSUME Shape(cascade), cascade.at \in Checks, NEW ok, Checked(ok)
  PROVE  Shape(cascade') /\ cascade'.data = {} /\ cascade'.at \in {"idle", "checkKV", "deleteBlock"}
  <1> DEFINE w == cascade
             tail == Tail(w.rest)
             broken == IF ok THEN w.broken ELSE w.broken \cup {This}
             c == [w EXCEPT !.rest = tail, !.broken = broken]
  <1>1. /\ w \in CascadeType /\ w.rest # <<>> /\ LeftOf(w.rest, w.nums) /\ w.answer = "none"
        /\ w.data = {} /\ w.rest \in Seq(Block) /\ w.nums \in Seq(Block)
    BY DEF Shape, CascadeType, Checks
  <1>2. tail \in Seq(Block) /\ LeftOf(tail, w.nums) /\ w.nums # <<>> /\ broken \in SUBSET Block
    BY <1>1, LeftTail DEF This, CascadeType
  <1>3. NextCheck(c)
    BY DEF Checked
  <1> HIDE DEF w, tail, broken
  <1>4. /\ c \in CascadeType /\ c.rest = tail /\ c.nums = w.nums /\ c.answer = "none" /\ c.data = {}
    BY <1>1, <1>2 DEF CascadeType
  <1> HIDE DEF c
  <1> QED  BY <1>2, <1>3, <1>4, NextCheckEffect

\* After a block that has been treated, step 3 goes on to the next one or answers.
LEMMA DeletedEffect ==
  ASSUME Shape(cascade), cascade.at \in Deletions, NEW ok, Deleted(ok)
  PROVE  /\ Shape(cascade') /\ cascade'.at \in {"idle", "deleteBlock"}
         /\ cascade'.data = IF ok THEN cascade.data \cup {This} ELSE cascade.data
  <1> DEFINE w == cascade
             tail == Tail(w.rest)
             data == IF ok THEN w.data \cup {This} ELSE w.data
             error == IF ok THEN w.error ELSE w.error \cup {This}
             c == [w EXCEPT !.rest = tail, !.whole = TRUE, !.data = data, !.error = error]
  <1>1. /\ w \in CascadeType /\ w.rest # <<>> /\ LeftOf(w.rest, w.nums) /\ w.answer = "none"
        /\ w.rest \in Seq(Block) /\ w.nums \in Seq(Block) /\ w.at \in Deletions
        /\ w.broken # {} => w.nums # <<>>
    BY DEF Shape, CascadeType, Deletions
  <1>2. /\ tail \in Seq(Block) /\ LeftOf(tail, w.nums) /\ data \in SUBSET Block
        /\ error \in SUBSET Block
    BY <1>1, LeftTail DEF This, CascadeType
  <1>3. \/ c.rest # <<>> /\ cascade' = [c EXCEPT !.at = "deleteBlock"]
        \/ Answer(c, IF c.error # {} THEN "ok" ELSE "error")
    BY DEF Deleted
  <1>4. data = IF ok THEN cascade.data \cup {This} ELSE cascade.data
    OBVIOUS
  <1> HIDE DEF w, tail, data, error
  <1>5. /\ c \in CascadeType /\ c.rest = tail /\ c.nums = w.nums /\ c.answer = "none"
        /\ c.data = data /\ c.broken = w.broken
    BY <1>1, <1>2 DEF CascadeType
  <1> HIDE DEF c
  <1>6. CASE c.rest # <<>> /\ cascade' = [c EXCEPT !.at = "deleteBlock"]
    <2>1. /\ cascade' \in CascadeType /\ cascade'.at = "deleteBlock" /\ cascade'.rest = c.rest
          /\ cascade'.nums = c.nums /\ cascade'.broken = c.broken /\ cascade'.data = data
          /\ cascade'.answer = "none"
      BY <1>5, <1>6 DEF CascadeType, Deletions
    <2> QED  BY <1>1, <1>2, <1>4, <1>5, <1>6, <2>1 DEF Shape, Checks
  <1>7. CASE Answer(c, IF c.error # {} THEN "ok" ELSE "error")
    BY <1>4, <1>5, <1>7, AnswerEffect
  <1> QED  BY <1>3, <1>6, <1>7

\* Within a block, step 3 goes on to the next statement and keeps its place.
LEMMA GoesEffect ==
  ASSUME Shape(cascade), cascade.at \in Deletions, NEW next \in Deletions, NEW fine \in BOOLEAN,
         Goes(next, fine)
  PROVE  /\ Shape(cascade') /\ cascade'.at = next /\ cascade'.data = cascade.data /\ This' = This
  <1> DEFINE w == cascade
             whole == w.whole /\ fine
  <1>1. /\ w \in CascadeType /\ w.rest # <<>> /\ LeftOf(w.rest, w.nums) /\ w.answer = "none"
        /\ w.broken # {} => w.nums # <<>>
    BY DEF Shape, Deletions
  <1>2. cascade' = [w EXCEPT !.at = next, !.whole = whole]
    BY DEF Goes
  <1>3. whole \in BOOLEAN
    OBVIOUS
  <1> HIDE DEF w, whole
  <1>4. /\ cascade' \in CascadeType /\ cascade'.at = next /\ cascade'.rest = w.rest
        /\ cascade'.nums = w.nums /\ cascade'.broken = w.broken /\ cascade'.data = w.data
        /\ cascade'.answer = "none"
    BY <1>1, <1>2, <1>3 DEF CascadeType
  <1>5. Shape(cascade')
    BY <1>1, <1>4 DEF Shape, Deletions, Checks
  <1>6. This' = Head(w.rest)
    BY <1>4 DEF This
  <1> QED  BY <1>4, <1>5, <1>6 DEF w, This

\* Step 1 and step 2 touch no table, and report nothing yet.
Looks ==
    /\ UNCHANGED tables /\ Shape(cascade') /\ cascade'.data = {}
    /\ cascade'.at \in {"idle", "find"} \cup Checks \cup {"deleteBlock"}

\* The count,
LEMMA CountLooks == CascadeInv /\ CountCommits => Looks
  <1> SUFFICES ASSUME CascadeInv, CountCommits PROVE Looks
    OBVIOUS
  <1>1. /\ cascade \in CascadeType /\ cascade.at = "count" /\ cascade.data = {} /\ UNCHANGED tables
        /\ cascade.broken = {} /\ cascade.answer = "none"
    BY DEF CascadeInv, Shape, CountCommits, Awaits
  <1>2. CASE Answer(cascade, "ok")
    BY <1>1, <1>2, AnswerEffect DEF Looks
  <1>3. CASE cascade' = [cascade EXCEPT !.at = "find"]
    <2>1. /\ cascade' \in CascadeType /\ cascade'.at = "find" /\ cascade'.data = {}
          /\ cascade'.nums = cascade.nums /\ cascade'.broken = cascade.broken
          /\ cascade'.answer = "none"
      BY <1>1, <1>3 DEF CascadeType
    <2> QED  BY <1>1, <2>1 DEF Looks, Shape, Checks, Deletions
  <1> QED  BY <1>2, <1>3 DEF CountCommits

\* the find,
LEMMA FindLooks == CascadeInv /\ FindCommits => Looks
  <1> SUFFICES ASSUME CascadeInv, FindCommits PROVE Looks
    OBVIOUS
  <1> DEFINE w == cascade
             nums == BlockNums
             c == [w EXCEPT !.nums = nums, !.rest = nums]
  <1>1. /\ w \in CascadeType /\ w.data = {} /\ UNCHANGED tables /\ w.answer = "none"
        /\ w.broken = {} /\ NextCheck(c)
    BY DEF CascadeInv, Shape, FindCommits, Awaits
  <1>2. nums \in Seq(Block) /\ LeftOf(nums, nums)
    BY BlockNumsType, LeftAll DEF CascadeInv, TypeInv, TypeOKTables
  <1> HIDE DEF w, nums
  <1>3. /\ c \in CascadeType /\ c.rest = nums /\ c.nums = nums /\ c.broken = {} /\ c.data = {}
        /\ c.answer = "none"
    BY <1>1, <1>2 DEF CascadeType
  <1> HIDE DEF c
  <1>4. Shape(cascade') /\ cascade'.data = {} /\ cascade'.at \in {"idle", "checkKV", "deleteBlock"}
    BY <1>1, <1>2, <1>3, NextCheckEffect
  <1> QED  BY <1>1, <1>4 DEF Looks, Checks

\* and the checks do no more than look.
LEMMA ChecksLook == CascadeInv /\ (CheckKV \/ CheckBlock \/ CheckTx) => Looks
  <1> SUFFICES ASSUME CascadeInv, CheckKV \/ CheckBlock \/ CheckTx PROVE Looks
    OBVIOUS
  <1>1. Shape(cascade) /\ cascade.at \in Checks /\ UNCHANGED tables
    BY DEF CascadeInv, CheckKV, CheckBlock, CheckTx, Awaits, Checks
  <1>2. ASSUME NEW at \in Checks, cascade' = [cascade EXCEPT !.at = at]
        PROVE  Looks
    <2>1. /\ cascade' \in CascadeType /\ cascade'.at = at /\ cascade'.data = {}
          /\ cascade'.nums = cascade.nums /\ cascade'.broken = cascade.broken
          /\ cascade'.rest = cascade.rest /\ cascade'.answer = "none"
      BY <1>1, <1>2 DEF Shape, CascadeType, Checks
    <2> QED  BY <1>1, <2>1 DEF Looks, Shape, Checks
  <1>3. ASSUME NEW ok, Checked(ok)
        PROVE  Looks
    BY <1>1, <1>3, CheckedEffect DEF Looks, Checks
  <1> QED  BY <1>2, <1>3 DEF CheckKV, CheckBlock, CheckTx, Checks

-----------------------------------------------------------------------------
(* Every step keeps the invariant                                          *)

\* A statement of the request leaves the job and its environment alone.
LEMMA OfRequest ==
  ASSUME CascadeInv, Busy, UNCHANGED <<control, notified, height, late, crashes, requests, mixed>>,
         faults' \in Nat, TypeOKTables', commits' \subseteq commits, Shape(cascade'), GoneInv'
  PROVE  CascadeInv'
  <1>1. TypeInv'
    BY DEF CascadeInv, TypeInv, ControlType, EnvType, control
  <1>2. IsFiniteSet(commits')
    BY FS_Subset DEF CascadeInv
  <1>3. AloneInv'
    BY DEF CascadeInv, AloneInv, LateDone, control
  <1> QED  BY <1>1, <1>2, <1>3 DEF CascadeInv

\* Looking keeps the invariant: nothing is deleted yet.
LEMMA LooksKeeps ==
  ASSUME CascadeInv, Busy, UNCHANGED <<control, notified, height, late, crashes, requests, mixed>>,
         faults' \in Nat, Looks
  PROVE  CascadeInv'
  <1>1. TypeOKTables' /\ commits' \subseteq commits /\ Shape(cascade')
    BY DEF CascadeInv, TypeInv, TypeOKTables, Looks, tables
  <1>2. GoneInv'
    BY DEF Looks, GoneInv, Checks, Deletions
  <1> QED  BY <1>1, <1>2, OfRequest

\* What a deletion does to the tables, and where it leaves the request.
LEMMA BlockRowEffect ==
  ASSUME CascadeInv, DeleteBlockRow
  PROVE  /\ Shape(cascade') /\ cascade'.at = "deleteTx" /\ cascade'.data = cascade.data /\ This' = This
         /\ block' = [b \in Block |-> IF b = This THEN "absent" ELSE block[b]]
         /\ UNCHANGED <<txs, commits, kv>>
  <1>1. Shape(cascade) /\ cascade.at \in Deletions /\ "deleteTx" \in Deletions
    BY DEF CascadeInv, DeleteBlockRow, Awaits, Deletions
  <1>2. (This \in Present) \in BOOLEAN /\ Goes("deleteTx", This \in Present)
    BY DEF DeleteBlockRow
  <1>3. block' = [b \in Block |-> IF b = This THEN "absent" ELSE block[b]] /\ UNCHANGED <<txs, commits, kv>>
    BY DEF DeleteBlockRow, DeleteBlocks
  <1>4. Shape(cascade') /\ cascade'.at = "deleteTx" /\ cascade'.data = cascade.data /\ This' = This
    BY <1>1, <1>2, GoesEffect
  <1> QED  BY <1>3, <1>4

\* The second deletes the transactions of the block,
LEMMA TxRowsEffect ==
  ASSUME CascadeInv, DeleteTxRows
  PROVE  /\ Shape(cascade') /\ cascade'.at = "deleteCommit" /\ cascade'.data = cascade.data
         /\ This' = This
         /\ txs' = {t \in txs : t[1] # This} /\ UNCHANGED <<block, commits, kv>>
  <1>1. Shape(cascade) /\ cascade.at \in Deletions /\ "deleteCommit" \in Deletions
    BY DEF CascadeInv, DeleteTxRows, Awaits, Deletions
  <1>2. OneTx(Affected(txs)) \in BOOLEAN /\ Goes("deleteCommit", OneTx(Affected(txs)))
    BY DEF DeleteTxRows, OneTx
  <1>3. txs' = {t \in txs : t[1] # This} /\ UNCHANGED <<block, commits, kv>>
    BY DEF DeleteTxRows, DeleteTxs
  <1>4. /\ Shape(cascade') /\ cascade'.at = "deleteCommit" /\ cascade'.data = cascade.data
        /\ This' = This
    BY <1>1, <1>2, GoesEffect
  <1> QED  BY <1>3, <1>4

\* the third its commits,
LEMMA CommitRowsEffect ==
  ASSUME CascadeInv, DeleteCommitRows
  PROVE  /\ Shape(cascade') /\ cascade'.at = "readKV" /\ cascade'.data = cascade.data /\ This' = This
         /\ commits' = {t \in commits : t[1] # This} /\ UNCHANGED <<block, txs, kv>>
  <1>1. Shape(cascade) /\ cascade.at \in Deletions /\ "readKV" \in Deletions
    BY DEF CascadeInv, DeleteCommitRows, Awaits, Deletions
  <1>2. (Affected(commits) <= 1) \in BOOLEAN /\ Goes("readKV", Affected(commits) <= 1)
    BY DEF DeleteCommitRows
  <1>3. commits' = {t \in commits : t[1] # This} /\ UNCHANGED <<block, txs, kv>>
    BY DEF DeleteCommitRows, DeleteCommits
  <1>4. Shape(cascade') /\ cascade'.at = "readKV" /\ cascade'.data = cascade.data /\ This' = This
    BY <1>1, <1>2, GoesEffect
  <1> QED  BY <1>3, <1>4

\* the fourth reads the list,
LEMMA ReadKVEffect ==
  ASSUME CascadeInv, ReadKV
  PROVE  /\ Shape(cascade') /\ cascade'.at = "saveKV" /\ cascade'.data = cascade.data /\ This' = This
         /\ cascade'.read = kv /\ UNCHANGED tables
  <1> DEFINE w == cascade
  <1>1. /\ w \in CascadeType /\ w.rest # <<>> /\ LeftOf(w.rest, w.nums) /\ w.answer = "none"
        /\ w.broken # {} => w.nums # <<>>
        /\ kv \in SUBSET Block /\ cascade' = [w EXCEPT !.at = "saveKV", !.read = kv]
        /\ UNCHANGED tables
    BY DEF CascadeInv, Shape, ReadKV, Awaits, Deletions, TypeInv, TypeOKTables
  <1> HIDE DEF w
  <1>2. /\ cascade' \in CascadeType /\ cascade'.at = "saveKV" /\ cascade'.rest = w.rest
        /\ cascade'.nums = w.nums /\ cascade'.broken = w.broken /\ cascade'.data = w.data
        /\ cascade'.answer = "none" /\ cascade'.read = kv
    BY <1>1 DEF CascadeType, Deletions
  <1>3. Shape(cascade')
    BY <1>1, <1>2 DEF Shape, Checks
  <1>4. This' = Head(w.rest)
    BY <1>2 DEF This
  <1> QED  BY <1>1, <1>2, <1>3, <1>4 DEF w, This

\* and the last writes back what the fourth has read, without the block.
LEMMA SaveKVEffect ==
  ASSUME CascadeInv, SaveKVRow
  PROVE  /\ Shape(cascade') /\ cascade'.at \in {"idle", "deleteBlock"}
         /\ cascade'.data \subseteq cascade.data \cup {This}
         /\ kv' = cascade.read \ {This} /\ UNCHANGED <<block, txs, commits>>
  <1>1. Shape(cascade) /\ cascade.at \in Deletions /\ Deleted(cascade.whole)
    BY DEF CascadeInv, SaveKVRow, Awaits, Deletions
  <1>2. kv' = cascade.read \ {This} /\ UNCHANGED <<block, txs, commits>>
    BY DEF SaveKVRow, Without
  <1> QED  BY <1>1, <1>2, DeletedEffect

\* Each statement of a deletion makes true what the next one relies on.
LEMMA DeletionKeeps ==
  ASSUME CascadeInv,
         DeleteBlockRow \/ DeleteTxRows \/ DeleteCommitRows \/ ReadKV \/ SaveKVRow
  PROVE  CascadeInv'
  <1>1. /\ Busy /\ UNCHANGED <<control, notified, height, late, crashes, requests, mixed>>
        /\ faults' \in Nat
    BY DEF CascadeInv, TypeInv, EnvType, Busy, Awaits, env,
           DeleteBlockRow, DeleteTxRows, DeleteCommitRows, ReadKV, SaveKVRow
  <1>2. TypeOKTables /\ cascade \in CascadeType /\ mixed' = mixed
    BY <1>1 DEF CascadeInv, TypeInv, Shape
  <1>3. ~mixed /\ cascade.at \in Deletions =>
           /\ cascade.at = "saveKV" => cascade.read = kv
           /\ \A b \in cascade.data : Gone(b) /\ b \notin kv
           /\ cascade.at # "deleteBlock" => block[This] = "absent"
           /\ cascade.at \in {"deleteCommit", "readKV", "saveKV"} => \A t \in txs : t[1] # This
           /\ cascade.at \in {"readKV", "saveKV"} => \A t \in commits : t[1] # This
    BY DEF CascadeInv, GoneInv
  <1>4. This \in Block /\ cascade.data \subseteq Block
    <2>1. cascade.rest \in Seq(Block) /\ cascade.nums \in Seq(Block) /\ cascade.rest # <<>>
      BY <1>2 DEF CascadeInv, Shape, CascadeType, Deletions, Awaits,
                  DeleteBlockRow, DeleteTxRows, DeleteCommitRows, ReadKV, SaveKVRow
    <2> QED  BY <1>2, <2>1, HeadTailProperties DEF This, CascadeType
  <1>5. CASE DeleteBlockRow
    <2>1. /\ Shape(cascade') /\ cascade'.at = "deleteTx" /\ cascade'.data = cascade.data /\ This' = This
          /\ block' = [b \in Block |-> IF b = This THEN "absent" ELSE block[b]]
          /\ UNCHANGED <<txs, commits, kv>>
      BY <1>5, BlockRowEffect
    <2>2. TypeOKTables' /\ commits' \subseteq commits
      BY <1>2, <2>1 DEF TypeOKTables, RowState
    <2>3. cascade.at = "deleteBlock"
      BY <1>5 DEF DeleteBlockRow, Awaits
    <2>4. GoneInv'
      BY <1>2, <1>3, <1>4, <2>1, <2>3 DEF GoneInv, Gone, Deletions
    <2> QED  BY <1>1, <2>1, <2>2, <2>4, OfRequest
  <1>6. CASE DeleteTxRows
    <2>1. /\ Shape(cascade') /\ cascade'.at = "deleteCommit" /\ cascade'.data = cascade.data
          /\ This' = This
          /\ txs' = {t \in txs : t[1] # This} /\ UNCHANGED <<block, commits, kv>>
      BY <1>6, TxRowsEffect
    <2>2. TypeOKTables' /\ commits' \subseteq commits
      BY <1>2, <2>1 DEF TypeOKTables
    <2>3. cascade.at = "deleteTx"
      BY <1>6 DEF DeleteTxRows, Awaits
    <2>4. GoneInv'
      BY <1>2, <1>3, <2>1, <2>3 DEF GoneInv, Gone, Deletions
    <2> QED  BY <1>1, <2>1, <2>2, <2>4, OfRequest
  <1>7. CASE DeleteCommitRows
    <2>1. /\ Shape(cascade') /\ cascade'.at = "readKV" /\ cascade'.data = cascade.data /\ This' = This
          /\ commits' = {t \in commits : t[1] # This} /\ UNCHANGED <<block, txs, kv>>
      BY <1>7, CommitRowsEffect
    <2>2. TypeOKTables' /\ commits' \subseteq commits
      BY <1>2, <2>1 DEF TypeOKTables
    <2>3. cascade.at = "deleteCommit"
      BY <1>7 DEF DeleteCommitRows, Awaits
    <2>4. GoneInv'
      BY <1>2, <1>3, <2>1, <2>3 DEF GoneInv, Gone, Deletions
    <2> QED  BY <1>1, <2>1, <2>2, <2>4, OfRequest
  <1>8. CASE ReadKV
    <2>1. /\ Shape(cascade') /\ cascade'.at = "saveKV" /\ cascade'.data = cascade.data /\ This' = This
          /\ cascade'.read = kv /\ UNCHANGED <<block, txs, commits, kv>>
      BY <1>8, ReadKVEffect DEF tables
    <2>2. TypeOKTables' /\ commits' \subseteq commits
      BY <1>2, <2>1 DEF TypeOKTables
    <2>3. cascade.at = "readKV"
      BY <1>8 DEF ReadKV, Awaits
    <2>4. GoneInv'
      BY <1>2, <1>3, <2>1, <2>3 DEF GoneInv, Gone, Deletions
    <2> QED  BY <1>1, <2>1, <2>2, <2>4, OfRequest
  <1>9. CASE SaveKVRow
    <2>1. /\ Shape(cascade') /\ cascade'.at \in {"idle", "deleteBlock"}
          /\ cascade'.data \subseteq cascade.data \cup {This}
          /\ kv' = cascade.read \ {This} /\ UNCHANGED <<block, txs, commits>>
      BY <1>9, SaveKVEffect
    <2>2. TypeOKTables' /\ commits' \subseteq commits
      BY <1>2, <2>1 DEF TypeOKTables, CascadeType
    <2>3. cascade.at = "saveKV" /\ cascade.at \in Deletions
      BY <1>9 DEF SaveKVRow, Awaits, Deletions
    <2>4. ~mixed => \A b \in cascade'.data : Gone(b)' /\ b \notin kv'
      BY <1>3, <2>1, <2>3 DEF Gone
    <2>5. GoneInv'
      BY <1>2, <2>1, <2>4 DEF GoneInv, Deletions
    <2> QED  BY <1>1, <2>1, <2>2, <2>5, OfRequest
  <1> QED  BY <1>5, <1>6, <1>7, <1>8, <1>9

\* A statement that fails changes no table; a block that failed is not reported.
LEMMA FailsEffect ==
  ASSUME CascadeInv, StatementFails
  PROVE  /\ Shape(cascade') /\ UNCHANGED tables
         /\ \/ Looks
            \/ /\ cascade.at \in Deletions /\ cascade'.at \in {"idle", "deleteBlock"}
               /\ cascade'.data = cascade.data
  <1>1. Shape(cascade) /\ UNCHANGED tables /\ cascade \in CascadeType
    BY DEF CascadeInv, StatementFails, Shape
  <1>2. CASE cascade.at \in {"count", "find"} /\ Answer(cascade, "error")
    <2>1. cascade.data = {}
      BY <1>1, <1>2 DEF Shape
    <2> QED  BY <1>1, <1>2, <2>1, AnswerEffect DEF Looks
  <1>3. CASE cascade.at \in Checks /\ Checked(FALSE)
    BY <1>1, <1>3, CheckedEffect DEF Looks, Checks
  <1>4. CASE cascade.at \in Deletions /\ Deleted(FALSE)
    BY <1>1, <1>4, DeletedEffect
  <1> QED  BY <1>2, <1>3, <1>4 DEF StatementFails

\* So a failure keeps the invariant.
LEMMA FailsKeeps == CascadeInv /\ StatementFails => CascadeInv'
  <1> SUFFICES ASSUME CascadeInv, StatementFails PROVE CascadeInv'
    OBVIOUS
  <1>1. /\ Busy /\ UNCHANGED <<control, notified, height, late, crashes, requests, mixed>>
        /\ faults' \in Nat /\ mixed' = mixed
    BY DEF StatementFails, CascadeInv, TypeInv, EnvType
  <1>2. CASE Looks
    BY <1>1, <1>2, LooksKeeps
  <1>3. CASE /\ cascade.at \in Deletions /\ cascade'.at \in {"idle", "deleteBlock"}
             /\ cascade'.data = cascade.data
    <2>1. Shape(cascade') /\ UNCHANGED <<block, txs, commits, kv>>
      BY FailsEffect DEF tables
    <2>2. TypeOKTables' /\ commits' \subseteq commits
      BY <2>1 DEF CascadeInv, TypeInv, TypeOKTables
    <2>3. ~mixed => \A b \in cascade.data : Gone(b)' /\ b \notin kv'
      BY <1>3, <2>1 DEF CascadeInv, GoneInv, Gone
    <2>4. GoneInv'
      BY <1>1, <1>3, <2>3 DEF GoneInv, Deletions
    <2> QED  BY <1>1, <2>1, <2>2, <2>4, OfRequest
  <1> QED  BY <1>2, <1>3, FailsEffect

\* A request begins with empty hands.
LEMMA RequestKeeps == CascadeInv /\ Request => CascadeInv'
  <1> SUFFICES ASSUME CascadeInv, Request PROVE CascadeInv'
    OBVIOUS
  <1>1. /\ UNCHANGED <<block, txs, commits, kv, step, job, call, result, notified,
                       height, late, faults, crashes>>
        /\ requests' = requests + 1 /\ requests < MaxRequests
        /\ mixed' = (mixed \/ step # "idle" \/ ~LateDone)
        /\ cascade' = [Quiet EXCEPT !.at = "count"]
    BY DEF Request, vars, tables, control, env
  <1>2. TypeInv'
    BY <1>1 DEF CascadeInv, TypeInv, TypeOKTables, ControlType, EnvType
  <1>3. Shape(cascade') /\ cascade'.at = "count"
    BY <1>1, EmptySeq DEF Quiet, Shape, CascadeType, Checks, Deletions
  <1>4. requests' \in 0 .. MaxRequests /\ mixed' \in BOOLEAN /\ IsFiniteSet(commits')
    BY <1>1, CascadeAssumption DEF CascadeInv
  <1>5. AloneInv'
    BY <1>1 DEF AloneInv, LateDone
  <1>6. GoneInv'
    BY <1>3 DEF GoneInv, Deletions
  <1> QED  BY <1>2, <1>3, <1>4, <1>5, <1>6 DEF CascadeInv

\* A step of the job stores one commit at most.
LEMMA FewCommits ==
  ASSUME Next
  PROVE  \E t : commits' \subseteq commits \cup {t}
  <1>1. UNCHANGED tables \/ Execute(call) \/ \E n \in DOMAIN late : Execute(late[n])
    BY DEF Next, vars, JobStep, SyncStart, FindUnverified, RemoveUnverified,
           QueryChannelHeight, GetBlockHeight, FindMissingBlock, QueryBlock, BlockInserted,
           TransactionInserted, CommitInserted, KeyValueUpdated, Verified, CallFails,
           TimesOut, LateStatement, Crash, NewBlock
  <1>2. ASSUME NEW c, Execute(c) PROVE commits' \subseteq commits \cup {<<c.b, c.i>>}
    BY <1>2 DEF Execute, tables, SaveBlock, SaveTx, SaveCommit, SaveKV, UpdateVerified,
                DeleteBlocks, DeleteTxs, DeleteCommits
  <1>3. CASE UNCHANGED tables
    BY <1>3 DEF tables
  <1>4. CASE \E n \in DOMAIN late : Execute(late[n])
    BY <1>2, <1>4
  <1>5. CASE Execute(call)
    BY <1>2, <1>5
  <1> QED  BY <1>1, <1>3, <1>4, <1>5

\* Without a job and without a late call nothing but the ledger moves beside the request.
LEMMA NothingBeside ==
  ASSUME step = "idle", LateDone, JobStep \/ CallFails \/ TimesOut \/ LateStatement \/ NewBlock
  PROVE  UNCHANGED <<block, txs, commits, kv, step, late>>
  <1>1. ~JobStep /\ ~CallFails /\ ~TimesOut
    BY DEF JobStep, FindUnverified, RemoveUnverified, QueryChannelHeight, GetBlockHeight,
           FindMissingBlock, QueryBlock, BlockInserted, TransactionInserted, CommitInserted,
           KeyValueUpdated, Verified, CallFails, TimesOut
  <1>2. ~LateStatement
    BY DEF LateDone, LateStatement
  <1> QED  BY <1>1, <1>2 DEF NewBlock, tables, control

\* The job may change anything, but then the request is mixed.
LEMMA BesideKeeps == CascadeInv /\ (Dispatch \/ JobBeside \/ CrashBoth) => CascadeInv'
  <1> SUFFICES ASSUME CascadeInv, Dispatch \/ JobBeside \/ CrashBoth PROVE CascadeInv'
    OBVIOUS
  <1>1. Next /\ requests' = requests
    BY DEF Dispatch, JobBeside, CrashBoth, Next
  <1>2. TypeInv'
    BY <1>1, TypeStep DEF CascadeInv
  <1>3. IsFiniteSet(commits')
    <2>1. PICK t : commits' \subseteq commits \cup {t}
      BY <1>1, FewCommits
    <2>2. IsFiniteSet(commits \cup {t})
      BY FS_AddElement DEF CascadeInv
    <2> QED  BY <2>1, <2>2, FS_Subset
  <1>4. CASE Dispatch
    <2>1. cascade' = cascade /\ mixed' = (mixed \/ Busy)
      BY <1>4 DEF Dispatch
    <2>2. Shape(cascade') /\ mixed' \in BOOLEAN
      BY <2>1 DEF CascadeInv
    <2>3. AloneInv' /\ GoneInv'
      BY <2>1 DEF AloneInv, GoneInv, Busy, Deletions
    <2> QED  BY <1>1, <1>2, <1>3, <2>2, <2>3 DEF CascadeInv
  <1>5. CASE JobBeside
    <2>1. cascade' = cascade /\ mixed' = mixed
      BY <1>5 DEF JobBeside
    <2>2. ~mixed /\ Busy => UNCHANGED <<block, txs, commits, kv, step, late>> /\ step = "idle" /\ LateDone
      BY <1>5, NothingBeside DEF JobBeside, CascadeInv, AloneInv
    <2>3. AloneInv'
      BY <2>1, <2>2 DEF AloneInv, Busy, LateDone
    <2>4. GoneInv'
      BY <2>1, <2>2 DEF CascadeInv, GoneInv, Gone, Busy, Deletions, This
    <2>5. Shape(cascade') /\ mixed' \in BOOLEAN
      BY <2>1 DEF CascadeInv
    <2> QED  BY <1>1, <1>2, <1>3, <2>3, <2>4, <2>5 DEF CascadeInv
  <1>6. CASE CrashBoth
    <2>1. cascade' = Quiet /\ mixed' = mixed
      BY <1>6 DEF CrashBoth
    <2>2. Shape(Quiet) /\ Quiet.at = "idle"
      BY EmptySeq DEF Quiet, Shape, CascadeType, Checks, Deletions
    <2>3. AloneInv' /\ GoneInv'
      BY <2>1, <2>2 DEF AloneInv, GoneInv, Busy, Deletions
    <2> QED  BY <1>1, <1>2, <1>3, <2>1, <2>2, <2>3 DEF CascadeInv
  <1> QED  BY <1>4, <1>5, <1>6

\* The steps that only look, with what they leave for the properties.
LEMMA LookStepKeeps ==
  CascadeInv /\ (CountCommits \/ FindCommits \/ CheckKV \/ CheckBlock \/ CheckTx) => CascadeInv' /\ Looks
  <1> SUFFICES ASSUME CascadeInv, CountCommits \/ FindCommits \/ CheckKV \/ CheckBlock \/ CheckTx
               PROVE  CascadeInv' /\ Looks
    OBVIOUS
  <1>1. /\ Busy /\ UNCHANGED <<control, notified, height, late, crashes, requests, mixed>>
        /\ faults' \in Nat
    BY DEF CascadeInv, TypeInv, EnvType, Busy, Awaits, env,
           CountCommits, FindCommits, CheckKV, CheckBlock, CheckTx
  <1>2. Looks
    BY CountLooks, FindLooks, ChecksLook
  <1> QED  BY <1>1, <1>2, LooksKeeps

\* At the start nothing is stored or asked for.
LEMMA CascadeInitInv == CascadeInit => CascadeInv
  <1> SUFFICES ASSUME CascadeInit PROVE CascadeInv
    OBVIOUS
  <1>1. TypeInv
    BY TypeInit DEF CascadeInit
  <1>2. Shape(cascade) /\ cascade.at = "idle"
    BY EmptySeq DEF CascadeInit, Quiet, Shape, CascadeType, Checks, Deletions
  <1>3. requests \in 0 .. MaxRequests /\ mixed \in BOOLEAN
    <2>1. requests \in 0 .. MaxRequests
      BY CascadeAssumption DEF CascadeInit
    <2>2. mixed \in BOOLEAN
      BY DEF CascadeInit
    <2> QED  BY <2>1, <2>2
  <1>4. IsFiniteSet(commits)
    BY FS_EmptySet DEF CascadeInit, Init
  <1> QED  BY <1>1, <1>2, <1>3, <1>4 DEF CascadeInv, AloneInv, GoneInv, Busy, Deletions

\* Every step keeps the invariant.
LEMMA CascadeInvStep == CascadeInv /\ [CascadeNext]_cvars => CascadeInv'
  <1> SUFFICES ASSUME CascadeInv, [CascadeNext]_cvars PROVE CascadeInv'
    OBVIOUS
  <1>1. CASE CascadeNext
    BY <1>1, RequestKeeps, LookStepKeeps, DeletionKeeps, FailsKeeps, BesideKeeps
    DEF CascadeNext, CascadeStep
  <1>2. CASE UNCHANGED cvars
    <2>1. TypeInv'
      BY <1>2, TypeStep DEF CascadeInv, cvars
    <2> QED
      BY <1>2, <2>1
      DEF cvars, vars, tables, control, env, CascadeInv, AloneInv, GoneInv, Gone, Busy,
          LateDone, This
  <1> QED  BY <1>1, <1>2

-----------------------------------------------------------------------------
(* The theorems                                                            *)

\* Whatever fails, times out or crashes, the loops of a request are at a block of the list it
\* has read from the commits, and the tables it leaves are well-typed for the next job.
THEOREM CascadeTypes == CascadeSpec => []CascadeTypeOK
  <1>1. CascadeInv => CascadeTypeOK
    <2> SUFFICES ASSUME CascadeInv PROVE CascadeTypeOK
      OBVIOUS
    <2>1. TypeOK
      BY DEF CascadeInv, TypeInv, TypeOK, ControlType, EnvType, CallOK
    <2> QED  BY <2>1 DEF CascadeInv, Shape, CascadeType, CascadeTypeOK
  <1> QED  BY <1>1, CascadeInitInv, CascadeInvStep, PTL DEF CascadeSpec

\* A request deletes nothing of a block that is not on its list, and takes no such number out
\* of "insertedBlock" nor puts one in, unless a job has run beside it.
THEOREM LeavesOthersAlone == CascadeSpec => OthersUntouched
  <1>1. ASSUME CascadeInv, [CascadeNext]_cvars
        PROVE  [cascade' # cascade =>
                  \A b \in Block : (\A n \in DOMAIN cascade.nums : cascade.nums[n] # b) =>
                      /\ block'[b] = block[b]
                      /\ \A t \in txs \cup commits : t[1] = b => t \in txs' \cup commits'
                      /\ mixed \/ (b \in kv' <=> b \in kv)]_cvars
    <2> SUFFICES ASSUME CascadeNext, cascade' # cascade, NEW b \in Block,
                        \A n \in DOMAIN cascade.nums : cascade.nums[n] # b
                 PROVE  /\ block'[b] = block[b]
                        /\ \A t \in txs \cup commits : t[1] = b => t \in txs' \cup commits'
                        /\ mixed \/ (b \in kv' <=> b \in kv)
      BY <1>1 DEF cvars
    <2>1. CASE UNCHANGED tables
      BY <2>1 DEF tables
    <2>2. CASE DeleteBlockRow \/ DeleteTxRows \/ DeleteCommitRows \/ ReadKV \/ SaveKVRow
      <3>1. b # This
        <4>1. /\ cascade.rest \in Seq(Block) /\ cascade.nums \in Seq(Block) /\ cascade.rest # <<>>
              /\ LeftOf(cascade.rest, cascade.nums)
          BY <1>1, <2>2 DEF CascadeInv, Shape, CascadeType, Deletions, Awaits,
                  DeleteBlockRow, DeleteTxRows, DeleteCommitRows, ReadKV, SaveKVRow
        <4> QED  BY <4>1, LeftTail DEF This
      <3>2. CASE DeleteBlockRow
        BY <1>1, <3>1, <3>2, BlockRowEffect
      <3>3. CASE DeleteTxRows
        BY <1>1, <3>1, <3>3, TxRowsEffect
      <3>4. CASE DeleteCommitRows
        BY <1>1, <3>1, <3>4, CommitRowsEffect
      <3>5. CASE ReadKV
        BY <1>1, <2>1, <3>5, ReadKVEffect
      <3>6. CASE SaveKVRow
        <4>1. cascade.at = "saveKV" /\ cascade.at \in Deletions
          BY <3>6 DEF SaveKVRow, Awaits, Deletions
        <4>2. mixed \/ cascade.read = kv
          BY <1>1, <4>1 DEF CascadeInv, GoneInv
        <4> QED  BY <1>1, <3>1, <3>6, <4>2, SaveKVEffect
      <3> QED  BY <2>2, <3>2, <3>3, <3>4, <3>5, <3>6
    <2>3. CASE Request \/ StatementFails \/ CrashBoth
      BY <2>1, <2>3 DEF Request, StatementFails, CrashBoth, Crash, vars
    <2>4. CASE CountCommits \/ FindCommits \/ CheckKV \/ CheckBlock \/ CheckTx
      BY <1>1, <2>1, <2>4, LookStepKeeps DEF Looks
    <2>5. ~Dispatch /\ ~JobBeside
      BY DEF Dispatch, JobBeside
    <2> QED  BY <2>2, <2>3, <2>4, <2>5 DEF CascadeNext, CascadeStep
  <1> QED
    BY <1>1, CascadeInitInv, CascadeInvStep, PTL DEF CascadeSpec, OthersUntouched

\* The blocks a request reports as deleted have no row left and are off the list when it
\* answers, unless a job has run beside it.
THEOREM ReportedIsGone == CascadeSpec => DataIsGone
  <1>1. ASSUME CascadeInv, CascadeInv', [CascadeNext]_cvars
        PROVE  [Busy /\ cascade'.answer # "none" /\ ~mixed =>
                  \A b \in cascade'.data :
                      /\ block'[b] = "absent" /\ b \notin kv'
                      /\ \A t \in txs' \cup commits' : t[1] # b]_cvars
    <2> SUFFICES ASSUME CascadeNext, Busy, cascade'.answer # "none", ~mixed,
                        NEW b \in cascade'.data
                 PROVE  Gone(b)' /\ b \notin kv'
      BY <1>1 DEF cvars, Gone
    <2>1. cascade.answer = "none" /\ Shape(cascade')
      BY <1>1 DEF CascadeInv, Shape, Busy
    <2>2. cascade' # cascade /\ cascade'.at = "idle"
      BY <2>1 DEF Shape
    <2>3. CASE SaveKVRow
      <3>1. cascade.at = "saveKV" /\ cascade.at \in Deletions
        BY <2>3 DEF SaveKVRow, Awaits, Deletions
      <3> QED  BY <1>1, <2>3, <3>1, SaveKVEffect DEF CascadeInv, GoneInv, Gone
    <2>4. CASE StatementFails
      <3>1. CASE Looks
        BY <3>1 DEF Looks
      <3>2. CASE cascade.at \in Deletions /\ cascade'.data = cascade.data
        BY <1>1, <2>4, <3>2, FailsEffect DEF CascadeInv, GoneInv, Gone, tables
      <3> QED  BY <1>1, <2>4, <3>1, <3>2, FailsEffect
    <2>5. CASE CountCommits \/ FindCommits \/ CheckKV \/ CheckBlock \/ CheckTx
      BY <1>1, <2>5, LookStepKeeps DEF Looks
    <2>6. ~DeleteBlockRow /\ ~DeleteTxRows /\ ~DeleteCommitRows /\ ~ReadKV
      BY <1>1, <2>2, BlockRowEffect, TxRowsEffect, CommitRowsEffect, ReadKVEffect
    <2>7. ~Dispatch /\ ~JobBeside /\ ~Request
      BY <2>2 DEF Dispatch, JobBeside, Request
    <2>8. ~CrashBoth
      BY DEF CrashBoth, Quiet
    <2> QED  BY <2>3, <2>4, <2>5, <2>6, <2>7, <2>8 DEF CascadeNext, CascadeStep
  <1> QED
    BY <1>1, CascadeInitInv, CascadeInvStep, PTL DEF CascadeSpec, DataIsGone

-----------------------------------------------------------------------------
(* The height, with a job beside the request.  Even the list that a        *)
(* request writes back after a job has changed it has nothing above the    *)
(* cap.                                                                    *)

\* The list the request is about to write back has no number above t.
ReadBelow(t) == cascade.at = "saveKV" => \A b \in cascade.read : b <= t

\* A step of the request stores nothing: it may bring numbers back that it has read.
LEMMA RequestTakes ==
  ASSUME CascadeInv, Request \/ CascadeStep \/ StatementFails
  PROVE  /\ UNCHANGED <<control, height, late>>
         /\ \A b \in Block : block[b] = "absent" => block'[b] = "absent"
         /\ kv' = kv \/ (cascade.at = "saveKV" /\ kv' \subseteq cascade.read)
         /\ cascade'.at = "saveKV" => cascade'.read = kv
  <1>1. CASE Request
    <2>1. UNCHANGED vars /\ cascade' = [Quiet EXCEPT !.at = "count"]
      BY <1>1 DEF Request
    <2> QED  BY <2>1 DEF vars, tables, control, env, Quiet
  <1>2. CASE CountCommits \/ FindCommits \/ CheckKV \/ CheckBlock \/ CheckTx
    <2>1. Looks
      BY <1>2, LookStepKeeps
    <2>2. UNCHANGED <<control, height, late>>
      BY <1>2 DEF CountCommits, FindCommits, CheckKV, CheckBlock, CheckTx, Awaits, env
    <2> QED  BY <2>1, <2>2 DEF Looks, tables, Checks
  <1>3. CASE DeleteBlockRow
    <2>1. UNCHANGED <<control, height, late>>
      BY <1>3 DEF DeleteBlockRow, Awaits, env
    <2> QED  BY <1>3, <2>1, BlockRowEffect
  <1>4. CASE DeleteTxRows
    <2>1. UNCHANGED <<control, height, late>>
      BY <1>4 DEF DeleteTxRows, Awaits, env
    <2> QED  BY <1>4, <2>1, TxRowsEffect
  <1>5. CASE DeleteCommitRows
    <2>1. UNCHANGED <<control, height, late>>
      BY <1>5 DEF DeleteCommitRows, Awaits, env
    <2> QED  BY <1>5, <2>1, CommitRowsEffect
  <1>6. CASE ReadKV
    <2>1. UNCHANGED <<control, height, late>>
      BY <1>6 DEF ReadKV, Awaits, env
    <2> QED  BY <1>6, <2>1, ReadKVEffect DEF tables
  <1>7. CASE SaveKVRow
    <2>1. UNCHANGED <<control, height, late>> /\ cascade.at = "saveKV"
      BY <1>7 DEF SaveKVRow, Awaits, env
    <2> QED  BY <1>7, <2>1, SaveKVEffect
  <1>8. CASE StatementFails
    <2>1. UNCHANGED <<control, height, late>>
      BY <1>8 DEF StatementFails
    <2> QED  BY <1>8, <2>1, FailsEffect DEF tables, Looks, Checks
  <1> QED  BY <1>1, <1>2, <1>3, <1>4, <1>5, <1>6, <1>7, <1>8 DEF CascadeStep

\* So neither the job nor the request goes above the target.
LEMMA HeightStep ==
  CascadeInv /\ Below(Target) /\ ReadBelow(Target) /\ [CascadeNext]_cvars /\ CascadeInv'
    => Below(Target)' /\ ReadBelow(Target)'
  <1> SUFFICES ASSUME CascadeInv, Below(Target), ReadBelow(Target), [CascadeNext]_cvars, CascadeInv'
               PROVE  Below(Target)' /\ ReadBelow(Target)'
    OBVIOUS
  <1>1. TypeInv /\ TypeInv' /\ TypeOKTables
    BY DEF CascadeInv, TypeInv
  <1>2. CASE Request \/ CascadeStep \/ StatementFails
    <2>1. /\ UNCHANGED <<control, height, late>>
          /\ \A b \in Block : block[b] = "absent" => block'[b] = "absent"
          /\ kv' = kv \/ (cascade.at = "saveKV" /\ kv' \subseteq cascade.read)
          /\ cascade'.at = "saveKV" => cascade'.read = kv
      BY <1>2, RequestTakes
    <2>2. Target' = Target
      BY <2>1 DEF Target
    <2>3. Present' \subseteq Present
      BY <2>1 DEF Present
    <2>4. \A b \in kv \cup kv' : b <= Target
      BY <2>1 DEF Below, ReadBelow
    <2>5. Below(Target)'
      BY <2>1, <2>2, <2>3, <2>4 DEF Below, CallBelow, control
    <2>6. ReadBelow(Target)'
      BY <2>1, <2>2, <2>4 DEF ReadBelow
    <2> QED  BY <2>5, <2>6
  <1>3. CASE Dispatch \/ JobBeside \/ CrashBoth \/ UNCHANGED cvars
    <2>1. [Next]_vars /\ (cascade' = cascade \/ cascade' = Quiet)
      BY <1>3 DEF Dispatch, JobBeside, CrashBoth, Next, cvars
    <2>2. Below(Target)'
      BY <1>1, <2>1, BelowTargetStep
    <2>3. Target \in Nat /\ Target' \in Nat /\ Target <= Target'
      BY <1>1, <2>1, TargetGrows
    <2>4. cascade.read \subseteq Block
      BY DEF CascadeInv, Shape, CascadeType
    <2>5. ReadBelow(Target)'
      BY <2>1, <2>3, <2>4 DEF ReadBelow, Quiet, Block
    <2> QED  BY <2>2, <2>5
  <1> QED  BY <1>2, <1>3 DEF CascadeNext

\* Nothing above maxSyncHeight is ever stored or listed, whatever request and jobs, with late
\* calls of any age, run beside each other: a list that is written back too late is old,
\* but never above the cap.
THEOREM CapIsKeptBeside == CascadeSpec => []CapKept
  <1>1. CascadeInit => Below(Target) /\ ReadBelow(Target)
    BY BelowInit DEF CascadeInit, ReadBelow, Quiet
  <1>2. CascadeInv /\ Below(Target) => CapKept
    BY BelowCap DEF CascadeInv
  <1> QED
    BY <1>1, <1>2, CascadeInitInv, CascadeInvStep, HeightStep, PTL DEF CascadeSpec

=============================================================================
