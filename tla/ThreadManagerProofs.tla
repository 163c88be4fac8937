------------------------- MODULE ThreadManagerProofs -------------------------
(***************************************************************************)
(* Proofs about ThreadManager, for any number of callers and threads.      *)
(***************************************************************************)
EXTENDS ThreadManager, SequenceTheorems, WellFoundedInduction, NaturalsInduction, TLAPS

\* The caller that joins has m_mtx, so that its reference is good until it has joined.
JoinerLocks == \A c \in Callers : pc[c] = "joining" => m_mtx = c /\ ref[c] \in 1..Len(m_threads)

\* The calls that keep a reference.
RefsInCalls == \A c \in Callers : ref[c] # 0 => pc[c] \in {"joining", "window", "relock", "dozing"}

\* Calls that have not overlapped: there is one at a time, its reference is good, and the entry
\* that joinThread() has joined keeps its null pointer until it is erased.
OneCall == ~overlapped => \A c, d \in Callers : pc[c] # "idle" /\ pc[d] # "idle" => c = d
GoodRefs ==
    ~overlapped =>
        /\ freed = {}
        /\ \A c \in Callers :
              /\ pc[c] \in {"window", "relock", "dozing"} => ref[c] \in 1..Len(m_threads)
              /\ pc[c] = "window" => ~m_threads[ref[c]].ptr

\* TypeOK in parts.
FlagsOK == m_stopFlag \in BOOLEAN /\ aborted \in BOOLEAN /\ overlapped \in BOOLEAN
VectorOK == m_threads \in Seq(Entry) /\ cap \in Nat /\ Len(m_threads) <= cap
ControlOK == /\ m_mtx \in Callers \cup {None}
             /\ th \in [Ids -> {"new", "running", "finished"}]
             /\ pc \in [Callers -> PCs]
             /\ ref \in [Callers -> 0..cap]
             /\ freed \subseteq Callers

IInv == /\ FlagsOK /\ VectorOK /\ ControlOK
        /\ AtMostMaxThreads /\ NoOrphanThread /\ SleepersHaveCause
        /\ JoinerLocks /\ RefsInCalls /\ OneCall /\ GoodRefs /\ SerialCallsAreSafe

\* What a step of c does to the control states: c goes to x, others are at most woken.
Asleep == {"add-sleep", "all-sleep"}
GoesTo(c, x) ==
    /\ pc' \in [Callers -> PCs]
    /\ pc'[c] = x
    /\ \A d \in Callers \ {c} :
          \/ pc'[d] = pc[d]
          \/ pc[d] \in Asleep /\ pc'[d] \in {"add-lock", "all-lock"}

\* One step of the loop of Live(), and its results up to the m-th entry.
Kept(before, e) == IF e.ptr THEN Append(before, e) ELSE before
KeptTo(f, s, m) == f = [n \in 0..m |-> IF n = 0 THEN <<>> ELSE Kept(f[n - 1], s[n])]
-----------------------------------------------------------------------------
\* A set of natural numbers has a least element; inductions are by the least counterexample.
LEMMA HasMinimum ==
    ASSUME NEW S, S \subseteq Nat, S # {}
    PROVE  \E x \in S : \A y \in S : x <= y
<1>1. PICK x \in S : \A y \in S : ~(<<y, x>> \in OpToRel(<, Nat))
  BY NatLessThanWellFounded, WFMin
<1>2. \A y \in S : <<y, x>> \in OpToRel(<, Nat) <=> y < x
  BY DEF OpToRel
<1>3. \A y \in S : ~(y < x)
  BY <1>1, <1>2, Zenon
<1>4. \A y \in S : x <= y
  BY <1>3
<1> QED
  BY <1>4

\* The loop of Live() has a result for every length.
LEMMA KeptExists ==
    ASSUME NEW s, NEW m \in Nat
    PROVE  \E f : KeptTo(f, s, m)
<1> DEFINE Bad == {n \in Nat : ~ \E f : KeptTo(f, s, n)}
<1>1. SUFFICES ASSUME Bad # {} PROVE FALSE
  OBVIOUS
<1>2. PICK x \in Bad : \A y \in Bad : x <= y
  BY <1>1, HasMinimum
<1>3. x # 0
  <2>1. KeptTo([n \in 0..0 |-> <<>>], s, 0)
    BY DEF KeptTo
  <2>2. QED
    BY <2>1
<1>4. PICK f : KeptTo(f, s, x - 1)
  BY <1>2, <1>3
<1> DEFINE g == [n \in 0..x |-> IF n = x THEN Kept(f[x - 1], s[x]) ELSE f[n]]
<1>5. KeptTo(g, s, x)
  BY <1>2, <1>3, <1>4 DEF KeptTo
<1>6. QED
  BY <1>2, <1>5

\* Live() is that result for the whole vector.
LEMMA LiveIsKept ==
    ASSUME NEW s, Len(s) \in Nat
    PROVE  \E f : KeptTo(f, s, Len(s)) /\ Live(s) = f[Len(s)]
<1> DEFINE K == CHOOSE f : f = [n \in 0..Len(s) |-> IF n = 0 THEN <<>>
                   ELSE IF s[n].ptr THEN Append(f[n - 1], s[n]) ELSE f[n - 1]]
<1>1. Live(s) = K[Len(s)]
  BY DEF Live
<1>2. PICK f : KeptTo(f, s, Len(s))
  BY KeptExists
<1>3. f = [n \in 0..Len(s) |-> IF n = 0 THEN <<>>
                   ELSE IF s[n].ptr THEN Append(f[n - 1], s[n]) ELSE f[n - 1]]
  BY <1>2 DEF KeptTo, Kept
<1>4. K = [n \in 0..Len(s) |-> IF n = 0 THEN <<>>
                   ELSE IF s[n].ptr THEN Append(K[n - 1], s[n]) ELSE K[n - 1]]
  BY <1>3, Zenon
<1> HIDE DEF K
<1>5. KeptTo(K, s, Len(s))
  BY <1>4 DEF KeptTo, Kept
<1>6. QED
  BY <1>1, <1>5

\* What is left of a vector: its entries with a pointer, all of them and no others.
LEMMA LiveEntries ==
    ASSUME NEW S, NEW s \in Seq(S)
    PROVE  /\ Live(s) \in Seq(S) /\ Len(Live(s)) <= Len(s)
           /\ \A i \in 1..Len(Live(s)) : \E j \in 1..Len(s) : s[j].ptr /\ Live(s)[i] = s[j]
           /\ \A j \in 1..Len(s) : s[j].ptr => \E i \in 1..Len(Live(s)) : Live(s)[i] = s[j]
<1>1. PICK f : KeptTo(f, s, Len(s)) /\ Live(s) = f[Len(s)]
  BY LiveIsKept
<1>2. Len(s) \in Nat /\ \A j \in 1..Len(s) : s[j] \in S
  OBVIOUS
<1>3. f[0] = <<>> /\ \A n \in 1..Len(s) : f[n] = Kept(f[n - 1], s[n])
  BY <1>1, <1>2 DEF KeptTo
<1> DEFINE P(n) == /\ f[n] \in Seq(S) /\ Len(f[n]) <= n
                   /\ \A i \in 1..Len(f[n]) : \E j \in 1..n : s[j].ptr /\ f[n][i] = s[j]
                   /\ \A j \in 1..n : s[j].ptr => \E i \in 1..Len(f[n]) : f[n][i] = s[j]
           Bad == {n \in 0..Len(s) : ~P(n)}
<1>4. P(0)
  BY <1>3
<1>5. ASSUME NEW n \in 1..Len(s), P(n - 1) PROVE P(n)
  <2>1. PICK b \in Seq(S), e \in S : b = f[n - 1] /\ e = s[n]
    BY <1>2, <1>5
  <2>2. f[n] = Kept(b, e)
    BY <1>3, <2>1
  <2>3. CASE ~e.ptr
    <3>1. f[n] = b
      BY <2>2, <2>3 DEF Kept
    <3>2. f[n] \in Seq(S) /\ Len(f[n]) <= n
      BY <1>2, <1>5, <2>1, <3>1
    <3>3. \A i \in 1..Len(f[n]) : \E j \in 1..n : s[j].ptr /\ f[n][i] = s[j]
      BY <1>5, <2>1, <3>1
    <3>4. ASSUME NEW j \in 1..n, s[j].ptr PROVE \E i \in 1..Len(f[n]) : f[n][i] = s[j]
      <4>1. j # n
        BY <2>1, <2>3, <3>4
      <4>2. j \in 1..(n - 1)
        BY <1>2, <4>1
      <4>3. QED
        BY <1>5, <2>1, <3>1, <3>4, <4>2
    <3>5. QED
      BY <3>2, <3>3, <3>4
  <2>4. CASE e.ptr
    <3>1. /\ Len(b) \in Nat /\ f[n] \in Seq(S) /\ Len(f[n]) = Len(b) + 1
          /\ \A i \in 1..Len(b) : f[n][i] = b[i]
          /\ f[n][Len(b) + 1] = e
      BY <2>2, <2>4 DEF Kept
    <3>2. Len(f[n]) <= n
      BY <1>2, <1>5, <2>1, <3>1
    <3>3. ASSUME NEW i \in 1..Len(f[n]) PROVE \E j \in 1..n : s[j].ptr /\ f[n][i] = s[j]
      <4>1. CASE i = Len(b) + 1
        BY <1>2, <2>1, <2>4, <3>1, <4>1
      <4>2. CASE i \in 1..Len(b)
        BY <1>2, <1>5, <2>1, <3>1, <4>2
      <4>3. QED
        BY <3>1, <4>1, <4>2
    <3>4. ASSUME NEW j \in 1..n, s[j].ptr PROVE \E i \in 1..Len(f[n]) : f[n][i] = s[j]
      <4>1. CASE j = n
        BY <2>1, <3>1, <4>1
      <4>2. CASE j \in 1..(n - 1)
        BY <1>5, <2>1, <3>1, <3>4, <4>2
      <4>3. QED
        BY <1>2, <4>1, <4>2
    <3>5. QED
      BY <3>1, <3>2, <3>3, <3>4
  <2>5. QED
    BY <2>3, <2>4
<1> HIDE DEF P
<1>6. Bad = {}
  <2>1. SUFFICES ASSUME Bad # {} PROVE FALSE
    OBVIOUS
  <2>2. PICK x \in Bad : \A y \in Bad : x <= y
    <3>1. Bad \subseteq Nat
      BY <1>2
    <3> HIDE DEF Bad
    <3>2. QED
      BY <2>1, <3>1, HasMinimum
  <2>3. x # 0
    BY <1>4, <2>2
  <2>4. x \in 1..Len(s) /\ P(x - 1)
    BY <1>2, <2>2, <2>3
  <2>5. QED
    BY <1>5, <2>2, <2>4
<1>7. P(Len(s))
  BY <1>2, <1>6
<1>8. QED
  BY <1>1, <1>7 DEF P
-----------------------------------------------------------------------------
\* The invariant's parts are TypeOK and more.
LEMMA TypeFromParts == IInv => TypeOK
  BY DEF IInv, FlagsOK, VectorOK, ControlOK, TypeOK

\* The place of a thread by its name.
LEMMA SlotInVector ==
    ASSUME VectorOK, NEW n, SlotOf(n) # 0
    PROVE  SlotOf(n) \in 1..Len(m_threads)
<1> DEFINE I == {i \in 1..Len(m_threads) : m_threads[i].name = n}
<1>1. SlotOf(n) = IF I # {} THEN Min(I) ELSE 0
  BY DEF SlotOf, SelectInSeq
<1>2. I # {} /\ I \subseteq Nat
  BY <1>1 DEF VectorOK
<1>3. Min(I) \in I
  <2> HIDE DEF I
  <2> QED
    BY <1>2, HasMinimum DEF Min
<1>4. QED
  BY <1>1, <1>2, <1>3

\* notify_all() and notify_one() wake sleepers and change nothing else.
LEMMA WokenState ==
    ASSUME NEW s \in PCs
    PROVE  /\ Woken(s) \in PCs \ Asleep
           /\ s \notin Asleep => Woken(s) = s
           /\ s \in Asleep => Woken(s) \in {"add-lock", "all-lock"}
  BY DEF Woken, PCs, Asleep

\* See WokenState.
LEMMA NotifiesAll ==
    ASSUME ControlOK, NEW c \in Callers, NEW x \in PCs \ Asleep, pc' = NotifyAll([pc EXCEPT ![c] = x])
    PROVE  GoesTo(c, x) /\ \A d \in Callers : pc'[d] \notin Asleep
<1>1. \A d \in Callers : pc'[d] = Woken(IF d = c THEN x ELSE pc[d])
  BY DEF ControlOK, NotifyAll
<1>2. pc' \in [Callers -> PCs]
  BY <1>1, WokenState DEF ControlOK, NotifyAll
<1>3. pc'[c] = x
  BY <1>1, WokenState
<1>4. \A d \in Callers \ {c} : pc[d] \in PCs /\ pc'[d] = Woken(pc[d])
  BY <1>1 DEF ControlOK
<1>5. ASSUME NEW d \in Callers \ {c}
      PROVE  /\ pc'[d] \notin Asleep
             /\ pc'[d] = pc[d] \/ (pc[d] \in Asleep /\ pc'[d] \in {"add-lock", "all-lock"})
  <2>1. PICK s \in PCs : s = pc[d] /\ pc'[d] = Woken(s)
    BY <1>4
  <2>2. QED
    BY <2>1, WokenState
<1>6. QED
  BY <1>2, <1>3, <1>5 DEF GoesTo

\* See WokenState.
LEMMA NotifiesOne ==
    ASSUME ControlOK, NEW c \in Callers, NEW x \in PCs \ Asleep,
           pc' \in NotifyOne([pc EXCEPT ![c] = x])
    PROVE  GoesTo(c, x)
<1> DEFINE p == [pc EXCEPT ![c] = x]
<1>1. p \in [Callers -> PCs] /\ p[c] = x /\ \A d \in Callers \ {c} : p[d] = pc[d]
  BY DEF ControlOK
<1>2. CASE pc' = p
  BY <1>1, <1>2 DEF GoesTo
<1>3. CASE \E d \in Sleepers(p) : pc' = [p EXCEPT ![d] = Woken(p[d])]
  <2>1. PICK d \in Callers : Woken(p[d]) # p[d] /\ pc' = [p EXCEPT ![d] = Woken(p[d])]
    BY <1>3 DEF Sleepers
  <2>2. p[d] \in Asleep /\ Woken(p[d]) \in PCs /\ Woken(p[d]) \in {"add-lock", "all-lock"}
    BY <1>1, <2>1, WokenState
  <2>3. d # c
    BY <1>1, <2>2
  <2> HIDE DEF p
  <2>4. QED
    BY <1>1, <2>1, <2>2, <2>3 DEF GoesTo
<1>4. QED
  BY <1>2, <1>3 DEF NotifyOne

\* A step that neither notifies nor wakes.
LEMMA Goes ==
    ASSUME ControlOK, NEW c \in Callers, NEW x \in PCs, pc' = [pc EXCEPT ![c] = x]
    PROVE  GoesTo(c, x)
  BY DEF ControlOK, GoesTo

\* If calls have not overlapped after a step of c, nobody else is in a call.
LEMMA Alone ==
    ASSUME FlagsOK, OneCall, NEW c \in Callers,
           Called(c) \/ (pc[c] # "idle" /\ UNCHANGED overlapped)
    PROVE  /\ overlapped' \in BOOLEAN
           /\ ~overlapped' => ~overlapped /\ \A d \in Callers \ {c} : pc[d] = "idle"
<1>1. CASE Called(c)
  <2>1. overlapped' \in BOOLEAN
    BY <1>1, Zenon DEF Called
  <2>2. ~overlapped' => ~overlapped /\ (pc[c] # "idle" \/ \A d \in Callers \ {c} : pc[d] = "idle")
    BY <1>1, Zenon DEF Called
  <2>3. QED
    BY <2>1, <2>2 DEF OneCall
<1>2. CASE pc[c] # "idle" /\ UNCHANGED overlapped
  BY <1>2 DEF FlagsOK, OneCall
<1>3. QED
  BY <1>1, <1>2

\* A step of one caller keeps the calls apart.
LEMMA OneCallKept ==
    ASSUME OneCall, NEW c \in Callers, NEW x, GoesTo(c, x),
           ~overlapped' => ~overlapped /\ \A d \in Callers \ {c} : pc[d] = "idle"
    PROVE  OneCall'
  BY DEF OneCall, GoesTo, Asleep

\* A change of the marks of one entry.
LEMMA EntryMarked ==
    ASSUME VectorOK, NEW i \in 1..Len(m_threads), NEW e \in Entry,
           m_threads' = [m_threads EXCEPT ![i] = e], UNCHANGED cap
    PROVE  /\ VectorOK' /\ Len(m_threads') = Len(m_threads)
           /\ m_threads'[i] = e /\ \A j \in 1..Len(m_threads) : j # i => m_threads'[j] = m_threads[j]
<1>1. /\ m_threads' \in Seq(Entry) /\ Len(m_threads') = Len(m_threads)
      /\ \A j \in 1..Len(m_threads) : m_threads'[j] = IF j = i THEN e ELSE m_threads[j]
  BY ExceptSeq DEF VectorOK
<1>2. QED
  BY <1>1 DEF VectorOK

\* The marks that joinThread() and sleepThreadByName() set and clear.
LEMMA MarkedEntry ==
    ASSUME NEW e \in Entry, NEW b \in BOOLEAN
    PROVE  /\ [e EXCEPT !.sleep = b] \in Entry
           /\ [e EXCEPT !.ptr = FALSE, !.sleep = b] \in Entry
<1>1. PICK f \in BOOLEAN : f = FALSE
  BY Zenon
<1>2. [e EXCEPT !.sleep = b] \in Entry
  BY DEF Entry
<1>3. [e EXCEPT !.ptr = f, !.sleep = b] \in Entry
  BY DEF Entry
<1>4. QED
  BY <1>1, <1>2, <1>3, Zenon
-----------------------------------------------------------------------------
\* Initially the invariant holds.
LEMMA InitInv == Init => IInv
<1> SUFFICES ASSUME Init PROVE IInv
  OBVIOUS
<1> USE DEF Init
<1>1. FlagsOK
  BY Zenon DEF FlagsOK
<1>2. VectorOK
  BY DEF VectorOK
<1>3. ControlOK
  BY DEF ControlOK, PCs
<1>4. QED
  BY <1>1, <1>2, <1>3, MaxThreadsAssumption
  DEF IInv, AtMostMaxThreads, NoOrphanThread, SleepersHaveCause, JoinerLocks, RefsInCalls, OneCall,
      GoodRefs, SerialCallsAreSafe

\* A managed thread ends.
LEMMA ThreadEndInv ==
    ASSUME IInv, NEW x \in Ids, ThreadEnd(x)
    PROVE  IInv'
<1> USE DEF IInv, ThreadEnd
<1>1. FlagsOK'
  BY Zenon DEF FlagsOK
<1>2. VectorOK' /\ ControlOK'
  BY DEF VectorOK, ControlOK
<1>3. NoOrphanThread'
  BY DEF NoOrphanThread, ControlOK
<1>4. QED
  BY <1>1, <1>2, <1>3
  DEF AtMostMaxThreads, SleepersHaveCause, HasRoom, JoinerLocks, RefsInCalls, OneCall, GoodRefs,
      SerialCallsAreSafe

\* Nobody joins while m_mtx is free.
LEMMA NobodyJoins ==
    ASSUME JoinerLocks, Free
    PROVE  \A d \in Callers : pc[d] # "joining"
  BY NoneAssumption DEF JoinerLocks, Free

\* Steps of c that leave the vector and the references alone.
LEMMA QuietInv ==
    ASSUME IInv, Free, NEW c \in Callers, NEW x \in PCs, GoesTo(c, x), FlagsOK',
           UNCHANGED <<m_threads, cap, th, ref, freed>>, m_mtx' \in Callers \cup {None},
           aborted' => m_stopFlag',
           ~overlapped' => ~overlapped /\ \A d \in Callers \ {c} : pc[d] = "idle",
           pc[c] \notin {"joining", "window", "relock", "dozing"},
           x \notin {"joining", "window", "relock", "dozing"},
           x = "add-sleep" => ~HasRoom,
           x = "all-sleep" => m_threads # <<>>
    PROVE  IInv'
<1> USE DEF IInv
<1>1. VectorOK' /\ ControlOK' /\ AtMostMaxThreads'
  BY DEF VectorOK, ControlOK, AtMostMaxThreads, GoesTo
<1>2. OneCall'
  BY OneCallKept
<1>3. NoOrphanThread'
  BY DEF NoOrphanThread, Free
<1>4. SleepersHaveCause'
  BY DEF SleepersHaveCause, HasRoom, GoesTo, Asleep
<1>5. JoinerLocks'
  BY NobodyJoins DEF JoinerLocks, GoesTo
<1>6. RefsInCalls'
  BY DEF RefsInCalls, GoesTo, Asleep
<1>7. GoodRefs'
  BY DEF GoodRefs, GoesTo
<1>8. SerialCallsAreSafe'
  BY DEF SerialCallsAreSafe, GoesTo, Asleep
<1>9. QED
  BY <1>1, <1>2, <1>3, <1>4, <1>5, <1>6, <1>7, <1>8

\* addThread() waits for room or fails, joinAllThreads() waits and returns, the destructor begins.
LEMMA WaitInv ==
    ASSUME IInv, NEW c \in Callers,
           \/ AddSleep(c) \/ AddThreadFails(c)
           \/ JoinAllSleep(c) \/ JoinAllReturn(c) \/ DtorBegin(c)
    PROVE  IInv'
<1>1. /\ "add-sleep" \in PCs /\ "all-sleep" \in PCs /\ "idle" \in PCs
      /\ "dtor" \in PCs /\ "gone" \in PCs
      /\ FlagsOK /\ ControlOK /\ OneCall
  BY DEF PCs, IInv
<1>2. CASE AddSleep(c)
  <2>1. GoesTo(c, "add-sleep")
    BY <1>1, <1>2, Goes DEF AddSleep
  <2>2. /\ overlapped' \in BOOLEAN
        /\ ~overlapped' => ~overlapped /\ \A d \in Callers \ {c} : pc[d] = "idle"
    BY <1>1, <1>2, Alone DEF AddSleep
  <2>3. FlagsOK'
    BY <1>1, <1>2, <2>2, Zenon DEF FlagsOK, AddSleep
  <2>4. QED
    BY <1>1, <1>2, <2>1, <2>2, <2>3, QuietInv DEF AddSleep, ControlOK, Free
<1>3. CASE JoinAllSleep(c)
  <2>1. GoesTo(c, "all-sleep")
    BY <1>1, <1>3, Goes DEF JoinAllSleep
  <2>2. /\ overlapped' \in BOOLEAN
        /\ ~overlapped' => ~overlapped /\ \A d \in Callers \ {c} : pc[d] = "idle"
    BY <1>1, <1>3, Alone DEF JoinAllSleep
  <2>3. FlagsOK'
    BY <1>1, <1>3, <2>2, Zenon DEF FlagsOK, JoinAllSleep
  <2>4. QED
    BY <1>1, <1>3, <2>1, <2>2, <2>3, QuietInv DEF JoinAllSleep, ControlOK, Free
<1>4. CASE JoinAllReturn(c)
  <2>1. GoesTo(c, "idle")
    BY <1>1, <1>4, Goes DEF JoinAllReturn
  <2>2. /\ overlapped' \in BOOLEAN
        /\ ~overlapped' => ~overlapped /\ \A d \in Callers \ {c} : pc[d] = "idle"
    BY <1>1, <1>4, Alone DEF JoinAllReturn
  <2>3. FlagsOK'
    BY <1>1, <1>4, <2>2, Zenon DEF FlagsOK, JoinAllReturn
  <2>4. QED
    BY <1>1, <1>4, <2>1, <2>2, <2>3, QuietInv DEF JoinAllReturn, ControlOK, Free
<1>5. CASE DtorBegin(c)
  <2>1. PICK x \in {"dtor", "gone"} : pc' = [pc EXCEPT ![c] = x]
    BY <1>5 DEF DtorBegin
  <2>2. GoesTo(c, x)
    BY <1>1, <2>1, Goes
  <2>3. /\ overlapped' \in BOOLEAN
        /\ ~overlapped' => ~overlapped /\ \A d \in Callers \ {c} : pc[d] = "idle"
    BY <1>1, <1>5, Alone DEF DtorBegin
  <2>4. m_stopFlag' \in BOOLEAN /\ aborted' \in BOOLEAN
    BY <1>1, <1>5, Zenon DEF FlagsOK, DtorBegin
  <2>5. FlagsOK' /\ (aborted' => m_stopFlag')
    BY <1>5, <2>3, <2>4, Zenon DEF FlagsOK, DtorBegin
  <2>6. x \in PCs
    BY <1>1, <2>1
  <2>7. QED
    BY <1>1, <1>5, <2>1, <2>2, <2>3, <2>5, <2>6, QuietInv DEF DtorBegin, ControlOK
<1>6. CASE AddThreadFails(c)
  <2>1. GoesTo(c, "idle")
    BY <1>1, <1>6, Goes DEF AddThreadFails
  <2>2. /\ overlapped' \in BOOLEAN
        /\ ~overlapped' => ~overlapped /\ \A d \in Callers \ {c} : pc[d] = "idle"
    BY <1>1, <1>6, Alone DEF AddThreadFails
  <2>3. FlagsOK'
    BY <1>1, <1>6, <2>2, Zenon DEF FlagsOK, AddThreadFails
  <2>4. QED
    BY <1>1, <1>6, <2>1, <2>2, <2>3, QuietInv DEF AddThreadFails, ControlOK, Free
<1>7. QED
  BY <1>2, <1>3, <1>4, <1>5, <1>6

\* addThread() adds an entry at the end; nobody else's reference is good if calls overlap.
LEMMA AddThreadInv ==
    ASSUME IInv, NEW c \in Callers, NEW x \in Ids, NEW n \in Names, AddThread(c, x, n)
    PROVE  IInv'
<1> USE DEF IInv
<1>1. /\ pc[c] \in {"idle", "add-lock"} /\ Free /\ HasRoom /\ th[x] = "new"
      /\ th' = [th EXCEPT ![x] = "running"]
      /\ UNCHANGED <<m_mtx, m_stopFlag, ref, aborted>>
  BY DEF AddThread
<1>2. PICK e \in Entry : /\ e.id = x /\ e.ptr /\ ~e.sleep
                         /\ m_threads' = Append(m_threads, e)
  <2>1. [id |-> x, name |-> n, ptr |-> TRUE, sleep |-> FALSE] \in Entry
    BY DEF Entry
  <2>2. QED
    BY <2>1 DEF AddThread
<1>3. PICK len \in Nat : len = Len(m_threads)
  BY DEF VectorOK
<1>4. /\ m_threads' \in Seq(Entry) /\ Len(m_threads') = len + 1
      /\ \A i \in 1..len : m_threads'[i] = m_threads[i]
      /\ m_threads'[len + 1] = e
  BY <1>2, <1>3 DEF VectorOK
<1>5. cap' \in Nat /\ cap <= cap' /\ len + 1 <= cap'
  BY <1>3 DEF VectorOK, AddThread
<1>6. VectorOK'
  BY <1>4, <1>5 DEF VectorOK
<1>7. GoesTo(c, "idle")
  <2>1. "idle" \in PCs \ Asleep
    BY DEF PCs, Asleep
  <2>2. QED
    BY <2>1, NotifiesOne DEF AddThread
<1>8. /\ overlapped' \in BOOLEAN
      /\ ~overlapped' => ~overlapped /\ \A d \in Callers \ {c} : pc[d] = "idle"
  BY Alone DEF AddThread
<1>9. FlagsOK'
  BY <1>1, <1>8, Zenon DEF FlagsOK
<1>10. ref[c] = 0 /\ freed' \subseteq freed \cup {d \in Callers : ref[d] # 0}
  BY <1>1 DEF RefsInCalls, AddThread
<1>11. ControlOK'
  <2>1. ref' \in [Callers -> 0..cap']
    BY <1>1, <1>5 DEF ControlOK, VectorOK
  <2>2. QED
    BY <1>1, <1>7, <1>10, <2>1 DEF ControlOK, GoesTo
<1>12. AtMostMaxThreads'
  BY <1>1, <1>3, <1>4, MaxThreadsAssumption DEF AtMostMaxThreads, HasRoom
<1>13. NoOrphanThread'
  BY <1>1, <1>2, <1>3, <1>4 DEF NoOrphanThread, ControlOK
<1>14. SleepersHaveCause'
  BY <1>3, <1>4, <1>7, MaxThreadsAssumption DEF SleepersHaveCause, HasRoom, GoesTo, Asleep
<1>15. JoinerLocks'
  BY <1>1, <1>7, NobodyJoins DEF JoinerLocks, GoesTo
<1>16. RefsInCalls'
  BY <1>1, <1>7, <1>10 DEF RefsInCalls, GoesTo, Asleep
<1>17. OneCall'
  BY <1>7, <1>8, OneCallKept
<1>18. GoodRefs'
  <2>1. ASSUME ~overlapped' PROVE freed' = {} /\ \A d \in Callers : pc'[d] = "idle"
    <3>1. \A d \in Callers : ref[d] = 0
      BY <1>8, <1>10, <2>1 DEF RefsInCalls
    <3>2. freed' = {}
      BY <1>8, <1>10, <2>1, <3>1 DEF GoodRefs
    <3>3. QED
      BY <1>7, <1>8, <2>1, <3>2 DEF GoesTo, Asleep
  <2>2. QED
    BY <2>1 DEF GoodRefs
<1>19. SerialCallsAreSafe'
  <2>1. ASSUME ~overlapped' PROVE \A i \in 1..len : ~m_threads[i].sleep
    BY <1>1, <1>3, <1>8, <2>1 DEF SerialCallsAreSafe
  <2>2. QED
    BY <1>1, <1>2, <1>3, <1>4, <1>8, <2>1 DEF SerialCallsAreSafe
<1>20. QED
  BY <1>6, <1>9, <1>11, <1>12, <1>13, <1>14, <1>15, <1>16, <1>17, <1>18, <1>19

\* joinThreadByName() takes m_mtx and a reference.
LEMMA JoinBeginInv ==
    ASSUME IInv, NEW c \in Callers, NEW n \in Names, JoinBegin(c, n)
    PROVE  IInv'
<1> USE DEF IInv
<1>1. /\ pc[c] = "idle" /\ Free /\ m_mtx' = c /\ freed' = freed \ {c}
      /\ UNCHANGED <<m_threads, cap, m_stopFlag, th, aborted>>
  BY DEF JoinBegin
<1>2. PICK i \in 1..Len(m_threads) : ref' = [ref EXCEPT ![c] = i]
  BY SlotInVector DEF JoinBegin
<1>3. i \in 0..cap /\ i # 0
  BY <1>2 DEF VectorOK
<1>4. GoesTo(c, "joining")
  <2>1. "joining" \in PCs
    BY DEF PCs
  <2>2. QED
    BY <2>1, Goes DEF JoinBegin
<1>5. /\ overlapped' \in BOOLEAN
      /\ ~overlapped' => ~overlapped /\ \A d \in Callers \ {c} : pc[d] = "idle"
  BY Alone DEF JoinBegin
<1>6. FlagsOK'
  BY <1>1, <1>5, Zenon DEF FlagsOK
<1>7. VectorOK' /\ AtMostMaxThreads' /\ NoOrphanThread'
  BY <1>1 DEF VectorOK, AtMostMaxThreads, NoOrphanThread
<1>8. ControlOK'
  BY <1>1, <1>2, <1>3, <1>4 DEF ControlOK, GoesTo
<1>9. SleepersHaveCause'
  BY <1>1, <1>4 DEF SleepersHaveCause, HasRoom, GoesTo, Asleep
<1>10. JoinerLocks'
  BY <1>1, <1>2, <1>4, NobodyJoins DEF JoinerLocks, GoesTo, ControlOK
<1>11. RefsInCalls'
  BY <1>2, <1>4 DEF RefsInCalls, GoesTo, Asleep, ControlOK
<1>12. OneCall'
  BY <1>4, <1>5, OneCallKept
<1>13. GoodRefs'
  BY <1>1, <1>4, <1>5 DEF GoodRefs, GoesTo, Asleep
<1>14. SerialCallsAreSafe'
  BY <1>1, <1>5 DEF SerialCallsAreSafe
<1>15. QED
  BY <1>6, <1>7, <1>8, <1>9, <1>10, <1>11, <1>12, <1>13, <1>14

\* join() has returned: the entry gets its null pointer and m_mtx is given back.
LEMMA JoinWaitInv ==
    ASSUME IInv, NEW c \in Callers, JoinWait(c)
    PROVE  IInv'
<1> USE DEF IInv
<1>1. /\ pc[c] = "joining" /\ ~aborted /\ m_mtx = c /\ m_mtx' = None /\ ref[c] \in 1..Len(m_threads)
      /\ UNCHANGED <<cap, m_stopFlag, th, ref, freed, aborted, overlapped>>
  BY DEF JoinWait, JoinerLocks
<1>2. PICK r : r = ref[c]
  OBVIOUS
<1>3. PICK e \in Entry : e = [m_threads[r] EXCEPT !.ptr = FALSE, !.sleep = TRUE]
  <2>1. m_threads[r] \in Entry
    BY <1>1, <1>2 DEF VectorOK
  <2>2. QED
    BY <2>1, MarkedEntry, Zenon
<1>4. m_threads' = [m_threads EXCEPT ![r] = e]
  BY <1>1, <1>2, <1>3 DEF JoinWait, VectorOK
<1>5. e.id = m_threads[r].id /\ ~e.ptr /\ e.sleep
  BY <1>1, <1>2, <1>3 DEF VectorOK, Entry
<1>6. /\ VectorOK' /\ Len(m_threads') = Len(m_threads)
      /\ m_threads'[r] = e /\ \A j \in 1..Len(m_threads) : j # r => m_threads'[j] = m_threads[j]
  BY <1>1, <1>2, <1>4, EntryMarked
<1>7. GoesTo(c, "window") /\ \A d \in Callers : pc'[d] \notin Asleep
  <2>1. "window" \in PCs \ Asleep
    BY DEF PCs, Asleep
  <2>2. QED
    BY <2>1, NotifiesAll DEF JoinWait
<1>8. ~overlapped' => ~overlapped /\ \A d \in Callers \ {c} : pc[d] = "idle"
  BY <1>1, Alone
<1>9. FlagsOK'
  BY <1>1, Zenon DEF FlagsOK
<1>10. ControlOK' /\ AtMostMaxThreads'
  BY <1>1, <1>6, <1>7 DEF ControlOK, GoesTo, AtMostMaxThreads
<1>11. NoOrphanThread'
  <2>1. m_threads[r].ptr => th[m_threads[r].id] = "finished"
    BY <1>2 DEF JoinWait, Joinable
  <2>2. ASSUME NEW y \in Ids, th[y] = "running"
        PROVE  \E i \in 1..Len(m_threads') : m_threads'[i].id = y /\ m_threads'[i].ptr
    <3>1. PICK i \in 1..Len(m_threads) : m_threads[i].id = y /\ m_threads[i].ptr
      BY <1>1, <2>2 DEF NoOrphanThread
    <3>2. i # r
      BY <2>1, <2>2, <3>1
    <3>3. QED
      BY <1>6, <3>1, <3>2
  <2>3. QED
    BY <1>1, <2>2 DEF NoOrphanThread
<1>12. SleepersHaveCause'
  BY <1>7 DEF SleepersHaveCause, Asleep
<1>13. JoinerLocks'
  BY <1>1, <1>7 DEF JoinerLocks, GoesTo, Asleep
<1>14. RefsInCalls'
  BY <1>1, <1>7 DEF RefsInCalls, GoesTo, Asleep
<1>15. OneCall'
  BY <1>7, <1>8, OneCallKept
<1>16. GoodRefs'
  BY <1>1, <1>2, <1>5, <1>6, <1>7, <1>8 DEF GoodRefs, GoesTo, Asleep
<1>17. SerialCallsAreSafe'
  <2>1. ASSUME ~overlapped', NEW i \in 1..Len(m_threads), i # r PROVE ~m_threads[i].sleep
    BY <1>1, <1>8, <2>1 DEF SerialCallsAreSafe
  <2>2. QED
    BY <1>1, <1>2, <1>6, <1>7, <2>1 DEF SerialCallsAreSafe, GoesTo
<1>18. QED
  BY <1>6, <1>9, <1>10, <1>11, <1>12, <1>13, <1>14, <1>15, <1>16, <1>17

\* The second reset() finds a null pointer unless calls have overlapped.
LEMMA JoinResetInv ==
    ASSUME IInv, NEW c \in Callers, JoinReset(c)
    PROVE  IInv'
<1> USE DEF IInv
<1>1. /\ pc[c] = "window" /\ ~aborted
      /\ UNCHANGED <<m_threads, cap, m_mtx, m_stopFlag, th, ref, freed, overlapped>>
  BY DEF JoinReset
<1>2. GoesTo(c, "relock")
  <2>1. "relock" \in PCs
    BY DEF PCs
  <2>2. QED
    BY <2>1, Goes DEF JoinReset
<1>3. ~overlapped' => ~overlapped /\ \A d \in Callers \ {c} : pc[d] = "idle"
  BY <1>1, Alone
<1>4. FlagsOK' /\ (~overlapped => ~aborted')
  <2>1. CASE c \in freed
    BY <2>1 DEF JoinReset, FlagsOK, GoodRefs
  <2>2. CASE c \notin freed
    <3>1. aborted' = (InVector(c) /\ m_threads[ref[c]].ptr)
      BY <2>2 DEF JoinReset
    <3>2. aborted' \in BOOLEAN
      BY <3>1, Zenon
    <3>3. ~overlapped => ~aborted'
      BY <1>1, <3>1 DEF GoodRefs
    <3>4. QED
      BY <1>1, <3>2, <3>3, Zenon DEF FlagsOK
  <2>3. QED
    BY <2>1, <2>2
<1>5. VectorOK' /\ ControlOK' /\ AtMostMaxThreads'
  BY <1>1, <1>2 DEF VectorOK, ControlOK, GoesTo, AtMostMaxThreads
<1>6. NoOrphanThread'
  BY <1>1 DEF NoOrphanThread
<1>7. SleepersHaveCause'
  BY <1>1, <1>2 DEF SleepersHaveCause, HasRoom, GoesTo, Asleep
<1>8. JoinerLocks' /\ RefsInCalls'
  BY <1>1, <1>2 DEF JoinerLocks, RefsInCalls, GoesTo, Asleep
<1>9. OneCall'
  BY <1>2, <1>3, OneCallKept
<1>10. GoodRefs'
  BY <1>1, <1>2 DEF GoodRefs, GoesTo, Asleep
<1>11. SerialCallsAreSafe'
  BY <1>1, <1>2, <1>4 DEF SerialCallsAreSafe, GoesTo, Asleep
<1>12. QED
  BY <1>4, <1>5, <1>6, <1>7, <1>8, <1>9, <1>10, <1>11

\* The flag is cleared through a reference that may be any slot by now: only marks change, and
\* without an overlap no mark is left.
LEMMA ClearedVector ==
    ASSUME IInv, NEW c \in Callers, pc[c] \in {"relock", "dozing"}
    PROVE  /\ FlagCleared(c) \in Seq(Entry) /\ Len(FlagCleared(c)) = Len(m_threads)
           /\ \A i \in 1..Len(m_threads) : /\ FlagCleared(c)[i].id = m_threads[i].id
                                            /\ FlagCleared(c)[i].ptr = m_threads[i].ptr
           /\ ~overlapped => \A i \in 1..Len(m_threads) : ~FlagCleared(c)[i].sleep
<1> USE DEF IInv
<1>1. CASE ~InVector(c) \/ ref[c] = 0
  <2>1. FlagCleared(c) = m_threads
    BY <1>1 DEF FlagCleared, VectorOK
  <2>2. overlapped
    BY <1>1 DEF GoodRefs, InVector
  <2>3. QED
    BY <2>1, <2>2 DEF VectorOK
<1>2. CASE InVector(c) /\ ref[c] # 0
  <2>1. PICK r \in 1..Len(m_threads) : r = ref[c]
    BY <1>2 DEF InVector, ControlOK, VectorOK
  <2>2. PICK e \in Entry : e = [m_threads[r] EXCEPT !.sleep = FALSE]
    <3>1. m_threads[r] \in Entry
      BY DEF VectorOK
    <3>2. QED
      BY <3>1, MarkedEntry, Zenon
  <2>3. e.id = m_threads[r].id /\ e.ptr = m_threads[r].ptr /\ ~e.sleep
    BY <2>2 DEF VectorOK, Entry
  <2>4. FlagCleared(c) = [m_threads EXCEPT ![r] = e]
    BY <1>2, <2>1, <2>2 DEF FlagCleared
  <2>5. /\ FlagCleared(c) \in Seq(Entry) /\ Len(FlagCleared(c)) = Len(m_threads)
        /\ \A i \in 1..Len(m_threads) : FlagCleared(c)[i] = IF i = r THEN e ELSE m_threads[i]
    BY <2>4, ExceptSeq DEF VectorOK
  <2>6. ASSUME ~overlapped, NEW i \in 1..Len(m_threads), i # r PROVE ~m_threads[i].sleep
    BY <2>1, <2>6 DEF SerialCallsAreSafe, OneCall
  <2>7. QED
    BY <2>3, <2>5, <2>6
<1>3. QED
  BY <1>1, <1>2

\* MayAbort() ends the process only if calls have overlapped.
LEMMA MayAbortSafe ==
    ASSUME FlagsOK, GoodRefs, NEW c \in Callers, MayAbort(c)
    PROVE  /\ aborted' \in BOOLEAN
           /\ ~overlapped => aborted' = aborted
           /\ aborted' = aborted \/ c \in freed
<1>1. CASE c \in freed
  BY <1>1 DEF MayAbort, GoodRefs
<1>2. CASE c \notin freed
  BY <1>2 DEF MayAbort, FlagsOK
<1>3. QED
  BY <1>1, <1>2

\* The end of a call that has a reference: of joinThreadByName() and of sleepThreadByName().
LEMMA CallEndInv ==
    ASSUME IInv, Free, NEW c \in Callers, pc[c] \in {"relock", "dozing"}, MayAbort(c),
           pc' = NotifyAll([pc EXCEPT ![c] = "idle"]),
           ref' = [ref EXCEPT ![c] = 0], freed' = freed \ {c},
           UNCHANGED <<cap, m_mtx, m_stopFlag, th, overlapped>>,
           m_threads' \in Seq(Entry), Len(m_threads') <= Len(m_threads),
           \A i \in 1..Len(m_threads) : m_threads[i].ptr =>
               \E j \in 1..Len(m_threads') : m_threads'[j].id = m_threads[i].id /\ m_threads'[j].ptr,
           ~overlapped => \A i \in 1..Len(m_threads') : ~m_threads'[i].sleep
    PROVE  IInv'
<1> USE DEF IInv
<1>1. GoesTo(c, "idle") /\ \A d \in Callers : pc'[d] \notin Asleep
  <2>1. "idle" \in PCs \ Asleep
    BY DEF PCs, Asleep
  <2>2. QED
    BY <2>1, NotifiesAll
<1>2. ~overlapped' => ~overlapped /\ \A d \in Callers \ {c} : pc[d] = "idle"
  BY Alone
<1>3. aborted' \in BOOLEAN /\ (~overlapped => aborted' = aborted)
  BY MayAbortSafe
<1>4. FlagsOK'
  BY <1>3, Zenon DEF FlagsOK
<1>5. VectorOK'
  BY DEF VectorOK
<1>6. ControlOK'
  <2>1. 0 \in 0..cap
    BY DEF VectorOK
  <2>2. QED
    BY <1>1, <2>1 DEF ControlOK, GoesTo
<1>7. AtMostMaxThreads'
  BY MaxThreadsAssumption, LenProperties DEF AtMostMaxThreads, VectorOK
<1>8. NoOrphanThread'
  BY DEF NoOrphanThread, Free
<1>9. SleepersHaveCause'
  BY <1>1 DEF SleepersHaveCause, Asleep
<1>10. JoinerLocks'
  BY <1>1, NobodyJoins DEF JoinerLocks, GoesTo
<1>11. RefsInCalls'
  BY <1>1 DEF RefsInCalls, GoesTo, Asleep, ControlOK
<1>12. OneCall'
  BY <1>1, <1>2, OneCallKept
<1>13. GoodRefs'
  BY <1>1, <1>2 DEF GoodRefs, GoesTo, Asleep
<1>14. SerialCallsAreSafe'
  BY <1>3 DEF SerialCallsAreSafe
<1>15. QED
  BY <1>4, <1>5, <1>6, <1>7, <1>8, <1>9, <1>10, <1>11, <1>12, <1>13, <1>14

\* joinThreadByName() erases the entries with a null pointer.
LEMMA JoinEraseInv ==
    ASSUME IInv, NEW c \in Callers, JoinErase(c)
    PROVE  IInv'
<1>1. PICK s : s = FlagCleared(c)
  OBVIOUS
<1>2. /\ s \in Seq(Entry) /\ Len(s) = Len(m_threads)
      /\ \A i \in 1..Len(m_threads) : s[i].id = m_threads[i].id /\ s[i].ptr = m_threads[i].ptr
      /\ ~overlapped => \A i \in 1..Len(m_threads) : ~s[i].sleep
  BY <1>1, ClearedVector DEF JoinErase
<1>3. m_threads' = Live(s)
  BY <1>1 DEF JoinErase
<1>4. /\ m_threads' \in Seq(Entry) /\ Len(m_threads') <= Len(s)
      /\ \A i \in 1..Len(m_threads') : \E j \in 1..Len(s) : s[j].ptr /\ m_threads'[i] = s[j]
      /\ \A j \in 1..Len(s) : s[j].ptr => \E i \in 1..Len(m_threads') : m_threads'[i] = s[j]
  <2>1. s \in Seq(Entry)
    BY <1>2
  <2>2. QED
    BY <1>3, <2>1, LiveEntries, Zenon
<1>5. ASSUME NEW i \in 1..Len(m_threads), m_threads[i].ptr
      PROVE  \E j \in 1..Len(m_threads') : m_threads'[j].id = m_threads[i].id /\ m_threads'[j].ptr
  <2>1. i \in 1..Len(s) /\ s[i].ptr /\ s[i].id = m_threads[i].id
    BY <1>2, <1>5
  <2>2. QED
    BY <1>4, <2>1
<1>6. ~overlapped => \A i \in 1..Len(m_threads') : ~m_threads'[i].sleep
  BY <1>2, <1>4
<1>7. QED
  BY <1>2, <1>4, <1>5, <1>6, CallEndInv DEF JoinErase

\* sleepThreadByName() ends.
LEMMA SleepEndInv ==
    ASSUME IInv, NEW c \in Callers, SleepEnd(c)
    PROVE  IInv'
<1>1. /\ m_threads' \in Seq(Entry) /\ Len(m_threads') = Len(m_threads)
      /\ \A i \in 1..Len(m_threads) : /\ m_threads'[i].id = m_threads[i].id
                                       /\ m_threads'[i].ptr = m_threads[i].ptr
      /\ ~overlapped => \A i \in 1..Len(m_threads) : ~m_threads'[i].sleep
  BY ClearedVector DEF SleepEnd
<1>2. Len(m_threads) \in Nat
  BY DEF IInv, VectorOK
<1>3. Len(m_threads') <= Len(m_threads)
  BY <1>1, <1>2
<1>4. \A i \in 1..Len(m_threads) : m_threads[i].ptr =>
          \E j \in 1..Len(m_threads') : m_threads'[j].id = m_threads[i].id /\ m_threads'[j].ptr
  BY <1>1
<1>5. ~overlapped => \A i \in 1..Len(m_threads') : ~m_threads'[i].sleep
  BY <1>1
<1>6. QED
  BY <1>1, <1>3, <1>4, <1>5, CallEndInv DEF SleepEnd

\* sleepThreadByName() marks an entry and keeps a reference to it.
LEMMA SleepBeginInv ==
    ASSUME IInv, NEW c \in Callers, NEW n \in Names, SleepBegin(c, n)
    PROVE  IInv'
<1> USE DEF IInv
<1>1. pc[c] = "idle" /\ Free /\ UNCHANGED <<cap, m_mtx, m_stopFlag, th, freed, aborted>>
  BY DEF SleepBegin
<1>2. PICK r \in 1..Len(m_threads) : r = SlotOf(n)
  BY SlotInVector DEF SleepBegin
<1>3. PICK e \in Entry : e = [m_threads[r] EXCEPT !.sleep = TRUE]
  <2>1. m_threads[r] \in Entry
    BY DEF VectorOK
  <2>2. QED
    BY <2>1, MarkedEntry, Zenon
<1>4. e.id = m_threads[r].id /\ e.ptr = m_threads[r].ptr
  BY <1>3 DEF VectorOK, Entry
<1>5. m_threads' = [m_threads EXCEPT ![r] = e] /\ ref' = [ref EXCEPT ![c] = r]
  BY <1>2, <1>3 DEF SleepBegin
<1>6. /\ VectorOK' /\ Len(m_threads') = Len(m_threads)
      /\ m_threads'[r] = e /\ \A j \in 1..Len(m_threads) : j # r => m_threads'[j] = m_threads[j]
  BY <1>1, <1>5, EntryMarked
<1>7. GoesTo(c, "dozing") /\ \A d \in Callers : pc'[d] \notin Asleep
  <2>1. "dozing" \in PCs \ Asleep
    BY DEF PCs, Asleep
  <2>2. QED
    BY <2>1, NotifiesAll DEF SleepBegin
<1>8. /\ overlapped' \in BOOLEAN
      /\ ~overlapped' => ~overlapped /\ \A d \in Callers \ {c} : pc[d] = "idle"
  BY Alone DEF SleepBegin
<1>9. FlagsOK'
  BY <1>1, <1>8, Zenon DEF FlagsOK
<1>10. ControlOK'
  <2>1. r \in 0..cap
    BY DEF VectorOK
  <2>2. QED
    BY <1>1, <1>5, <1>7, <2>1 DEF ControlOK, GoesTo
<1>11. AtMostMaxThreads'
  BY <1>6 DEF AtMostMaxThreads
<1>12. NoOrphanThread'
  <2>1. \A i \in 1..Len(m_threads) : /\ m_threads'[i].id = m_threads[i].id
                                     /\ m_threads'[i].ptr = m_threads[i].ptr
    BY <1>4, <1>6
  <2>2. QED
    BY <1>1, <1>6, <2>1 DEF NoOrphanThread
<1>13. SleepersHaveCause'
  BY <1>7 DEF SleepersHaveCause, Asleep
<1>14. JoinerLocks'
  BY <1>1, <1>7, NobodyJoins DEF JoinerLocks, GoesTo
<1>15. RefsInCalls'
  BY <1>5, <1>7 DEF RefsInCalls, GoesTo, Asleep, ControlOK
<1>16. OneCall'
  BY <1>7, <1>8, OneCallKept
<1>17. GoodRefs'
  BY <1>1, <1>5, <1>6, <1>7, <1>8 DEF GoodRefs, GoesTo, Asleep, ControlOK
<1>18. SerialCallsAreSafe'
  <2>1. ASSUME ~overlapped', NEW i \in 1..Len(m_threads) PROVE ~m_threads[i].sleep
    BY <1>1, <1>8, <2>1 DEF SerialCallsAreSafe
  <2>2. ref'[c] = r /\ pc'[c] = "dozing"
    BY <1>5, <1>7 DEF ControlOK, GoesTo
  <2>3. QED
    BY <1>1, <1>6, <1>8, <2>1, <2>2 DEF SerialCallsAreSafe
<1>19. QED
  BY <1>6, <1>9, <1>10, <1>11, <1>12, <1>13, <1>14, <1>15, <1>16, <1>17, <1>18

\* The invariant is inductive.
LEMMA NextInv == IInv /\ [Next]_vars => IInv'
<1> SUFFICES ASSUME IInv, [Next]_vars PROVE IInv'
  OBVIOUS
<1>1. CASE UNCHANGED vars
  <2>1. FlagsOK'
    BY <1>1, Zenon DEF IInv, FlagsOK, vars
  <2>2. QED
    BY <1>1, <2>1
    DEF IInv, VectorOK, ControlOK, AtMostMaxThreads, NoOrphanThread, SleepersHaveCause, HasRoom,
        JoinerLocks, RefsInCalls, OneCall, GoodRefs, SerialCallsAreSafe, vars
<1>2. ASSUME NEW x \in Ids, ThreadEnd(x) PROVE IInv'
  BY <1>2, ThreadEndInv
<1>3. ASSUME NEW c \in Callers, Call(c) PROVE IInv'
  BY <1>3, WaitInv, AddThreadInv, JoinBeginInv, SleepBeginInv DEF Call
<1>4. ASSUME NEW c \in Callers, Continue(c) PROVE IInv'
  BY <1>4, WaitInv, AddThreadInv, JoinWaitInv, JoinResetInv, JoinEraseInv, SleepEndInv DEF Continue
<1>5. QED
  BY <1>1, <1>2, <1>3, <1>4 DEF Next
-----------------------------------------------------------------------------
\* ThreadManager's members keep their types, and the vector stays within its capacity.
THEOREM TypeCorrect == Spec => []TypeOK
<1>1. IInv /\ [Next]_vars => IInv'
  BY NextInv
<1>2. QED
  BY <1>1, InitInv, TypeFromParts, PTL DEF Spec

\* addThread() keeps the number of threads within m_maxThreads, whatever joins and erases run.
THEOREM ThreadsAreBounded == Spec => []AtMostMaxThreads
<1>1. IInv => AtMostMaxThreads
  BY DEF IInv
<1>2. IInv /\ [Next]_vars => IInv'
  BY NextInv
<1>3. QED
  BY <1>1, <1>2, InitInv, PTL DEF Spec

\* joinThreadByName() never forgets a thread that still runs, however many joiners erase.
THEOREM ThreadsAreNotOrphaned == Spec => []NoOrphanThread
<1>1. IInv => NoOrphanThread
  BY DEF IInv
<1>2. IInv /\ [Next]_vars => IInv'
  BY NextInv
<1>3. QED
  BY <1>1, <1>2, InitInv, PTL DEF Spec

\* No wake-up on m_cv is lost: addThread() and joinAllThreads() sleep only with a cause.
THEOREM SleepHasCause == Spec => []SleepersHaveCause
<1>1. IInv => SleepersHaveCause
  BY DEF IInv
<1>2. IInv /\ [Next]_vars => IInv'
  BY NextInv
<1>3. QED
  BY <1>1, <1>2, InitInv, PTL DEF Spec

\* Calls that do not overlap destroy no unjoined std::thread, but for the destructor, and leave no stale sleep flag.
THEOREM SerialCallsSafe == Spec => []SerialCallsAreSafe
<1>1. IInv => SerialCallsAreSafe
  BY DEF IInv
<1>2. IInv /\ [Next]_vars => IInv'
  BY NextInv
<1>3. QED
  BY <1>1, <1>2, InitInv, PTL DEF Spec
=============================================================================
