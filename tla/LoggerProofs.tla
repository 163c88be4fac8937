---------------------------- MODULE LoggerProofs ----------------------------
(***************************************************************************)
(* Proofs about Logger, for any set of levels and any bounds: its types,   *)
(* that the messages log() accepts are written once and in order, and that *)
(* the errors among them are kept.                                         *)
(***************************************************************************)
EXTENDS Logger, SequenceTheorems, WellFoundedInduction, NaturalsInduction, TLAPS

Message == [id : 1..MaxLogs, level : Levels]
Line == [id : 1..MaxLogs, to : {"cout", "file", "failed"}]

\* While the flag is false a background thread that has not been joined is being waited for, so
\* that the flag cannot become true again under it; and one that has seen the predicate true
\* finds a message if the flag is still set.
ThreadAndFlag ==
    /\ Alive /\ background # "none" /\ ~asyncLoggingEnabled => owner \in {"notify", "join"}
    /\ Alive /\ background = "check" /\ asyncLoggingEnabled => logQueue # <<>>

IInv == TypeOK /\ ThreadAndFlag /\ InOrderOnce

\* TypeOK in four parts: the values, the flags, the sequences, the message in hand.
ValuesOK ==
    /\ currentLogLevel \in Levels \cup {Info, LNone} /\ filterLevel \in Levels \cup {Info, LNone}
    /\ queueMutex \in {"free", "background", "owner"}
    /\ outputStream \in {"cout", "file", "failed"}
    /\ background \in {"none", "lock", "check", "sleeping", "asleep", "level", "push", "write", "done"}
    /\ owner \in {"idle", "notify", "join", "hung", "terminated", "gone"}
    /\ logs \in 0..MaxLogs /\ calls \in 0..MaxCalls
FlagsOK ==
    /\ asyncLoggingEnabled \in BOOLEAN /\ closing \in BOOLEAN
    /\ missed \in BOOLEAN /\ errorLevel \in BOOLEAN
SequencesOK ==
    /\ logQueue \in Seq(Message) /\ accepted \in Seq(Message) /\ written \in Seq(Line)
    /\ errorMessages \in Seq(1..MaxLogs)
InHand ==
    \/ message = <<>> /\ background \notin {"level", "push", "write"}
    \/ (\E m \in Message : message = <<m>>) /\ background \in {"level", "push", "write"}
-----------------------------------------------------------------------------
(* Sequences of identifiers. *)

\* What Ids returns.
LEMMA IdsType ==
    ASSUME NEW S, \A m \in S : m.id \in Nat, NEW s \in Seq(S)
    PROVE  /\ Ids(s) \in Seq(Nat)
           /\ Len(Ids(s)) = Len(s)
           /\ \A i \in 1..Len(s) : Ids(s)[i] = s[i].id
<1>1. DOMAIN s = 1..Len(s) /\ Len(s) \in Nat
  OBVIOUS
<1>2. \A i \in 1..Len(s) : s[i] \in S
  BY ElementOfSeq
<1>3. Ids(s) \in [1..Len(s) -> Nat]
  BY <1>1, <1>2 DEF Ids
<1>4. \A i \in 1..Len(s) : Ids(s)[i] = s[i].id
  BY <1>1 DEF Ids
<1>5. Ids(s) \in Seq(Nat)
  BY <1>1, <1>3, IsASeq
<1>6. DOMAIN Ids(s) = 1..Len(s)
  BY <1>3
<1>7. Len(Ids(s)) = Len(s)
  BY <1>1, <1>5, <1>6, LenProperties
<1> QED
  BY <1>4, <1>5, <1>7

\* No messages have no identifiers.
LEMMA IdsEmpty == Ids(<<>>) = <<>>
  BY DEF Ids

\* The identifiers of a longer sequence.
LEMMA IdsAppend ==
    ASSUME NEW S, \A m \in S : m.id \in Nat, NEW s \in Seq(S), NEW m \in S
    PROVE  Ids(Append(s, m)) = Append(Ids(s), m.id)
<1>1. Append(s, m) \in Seq(S) /\ Len(Append(s, m)) = Len(s) + 1
  OBVIOUS
<1>2. \A i \in 1..Len(s) : Append(s, m)[i] = s[i]
  OBVIOUS
<1>3. Append(s, m)[Len(s) + 1] = m
  OBVIOUS
<1>4. /\ Ids(s) \in Seq(Nat) /\ Len(Ids(s)) = Len(s)
      /\ \A i \in 1..Len(s) : Ids(s)[i] = s[i].id
  BY IdsType
<1>5. /\ Ids(Append(s, m)) \in Seq(Nat) /\ Len(Ids(Append(s, m))) = Len(s) + 1
      /\ \A i \in 1..(Len(s) + 1) : Ids(Append(s, m))[i] = Append(s, m)[i].id
  BY <1>1, IdsType
<1> DEFINE t == Ids(s)
           n == m.id
<1>6. /\ Append(t, n) \in Seq(Nat) /\ Len(Append(t, n)) = Len(s) + 1
      /\ \A i \in 1..Len(s) : Append(t, n)[i] = t[i]
      /\ Append(t, n)[Len(s) + 1] = n
  <2>1. t \in Seq(Nat) /\ n \in Nat /\ Len(t) = Len(s)
    BY <1>4
  <2> HIDE DEF t, n
  <2> QED
    BY <2>1, AppendProperties
<1>7. ASSUME NEW i \in 1..(Len(s) + 1)
      PROVE  Ids(Append(s, m))[i] = Append(t, n)[i]
  <2>1. CASE i = Len(s) + 1
    <3>1. Ids(Append(s, m))[i] = n
      BY <2>1, <1>3, <1>5
    <3> HIDE DEF t, n
    <3> QED
      BY <2>1, <3>1, <1>6
  <2>2. CASE i \in 1..Len(s)
    <3>1. Ids(Append(s, m))[i] = t[i]
      <4>1. Ids(Append(s, m))[i] = Append(s, m)[i].id
        BY <1>5
      <4>2. Append(s, m)[i] = s[i] /\ t[i] = s[i].id
        BY <2>2, <1>2, <1>4
      <4> QED
        BY <4>1, <4>2
    <3> HIDE DEF t, n
    <3> QED
      BY <2>2, <3>1, <1>6
  <2>3. Len(s) \in Nat
    OBVIOUS
  <2>4. i = Len(s) + 1 \/ i \in 1..Len(s)
    BY <2>3
  <2> HIDE DEF t, n
  <2> QED
    BY <2>1, <2>2, <2>4
<1>8. Ids(Append(s, m)) = Append(t, n)
  <2> HIDE DEF t, n
  <2> QED
    BY <1>5, <1>6, <1>7, SeqEqual
<1> QED
  BY <1>8

\* The identifiers of a queue, by its head.
LEMMA IdsTail ==
    ASSUME NEW S, \A m \in S : m.id \in Nat, NEW s \in Seq(S), s # <<>>
    PROVE  Ids(s) = <<Head(s).id>> \o Ids(Tail(s))
<1>1. Head(s) \in S /\ Tail(s) \in Seq(S) /\ Len(Tail(s)) = Len(s) - 1 /\ Len(s) \in Nat \ {0}
  OBVIOUS
<1>2. Head(s) = s[1] /\ \A i \in 1..Len(Tail(s)) : Tail(s)[i] = s[i + 1]
  OBVIOUS
<1>3. /\ Ids(s) \in Seq(Nat) /\ Len(Ids(s)) = Len(s)
      /\ \A i \in 1..Len(s) : Ids(s)[i] = s[i].id
  BY IdsType
<1>4. /\ Ids(Tail(s)) \in Seq(Nat) /\ Len(Ids(Tail(s))) = Len(s) - 1
      /\ \A i \in 1..(Len(s) - 1) : Ids(Tail(s))[i] = Tail(s)[i].id
  BY <1>1, IdsType
<1> DEFINE h == <<Head(s).id>>
           t == Ids(Tail(s))
<1>5. h \in Seq(Nat) /\ Len(h) = 1 /\ h[1] = Head(s).id
  BY <1>1
<1>6. /\ h \o t \in Seq(Nat) /\ Len(h \o t) = Len(s)
      /\ \A i \in 1..Len(s) : (h \o t)[i] = IF i <= 1 THEN h[i] ELSE t[i - 1]
  <2>1. t \in Seq(Nat) /\ Len(t) = Len(s) - 1
    BY <1>4
  <2> HIDE DEF h, t
  <2>2. /\ h \o t \in Seq(Nat) /\ Len(h \o t) = Len(h) + Len(t)
        /\ \A i \in 1..(Len(h) + Len(t)) :
              (h \o t)[i] = IF i <= Len(h) THEN h[i] ELSE t[i - Len(h)]
    BY <1>5, <2>1, ConcatProperties
  <2>3. Len(h) + Len(t) = Len(s)
    BY <1>1, <1>5, <2>1
  <2> QED
    BY <2>2, <2>3, <1>5
<1>7. ASSUME NEW i \in 1..Len(s)
      PROVE  Ids(s)[i] = (h \o t)[i]
  <2>1. CASE i = 1
    <3>1. Ids(s)[i] = h[1]
      BY <2>1, <1>2, <1>3, <1>5
    <3> HIDE DEF h, t
    <3> QED
      BY <2>1, <3>1, <1>6
  <2>2. CASE i # 1
    <3>1. i - 1 \in 1..(Len(s) - 1) /\ ~(i <= 1) /\ (i - 1) + 1 = i
      BY <2>2, <1>1
    <3>2. t[i - 1] = Tail(s)[i - 1].id
      BY <3>1, <1>4
    <3>3. Tail(s)[i - 1] = s[i]
      BY <3>1, <1>1, <1>2
    <3>4. t[i - 1] = Ids(s)[i]
      BY <3>2, <3>3, <1>3
    <3> HIDE DEF h, t
    <3> QED
      BY <3>1, <3>4, <1>6
  <2> QED
    BY <2>1, <2>2
<1>8. Ids(s) = h \o t
  <2> HIDE DEF h, t
  <2> QED
    BY <1>3, <1>6, <1>7, SeqEqual
<1> QED
  BY <1>8
-----------------------------------------------------------------------------
(* The inductive invariant. *)

\* Identifiers are numbers.
LEMMA MessageIds ==
    /\ \A m \in Message : m.id \in Nat
    /\ \A m \in Line : m.id \in Nat
  BY BoundsAssumption DEF Message, Line

\* The four parts are TypeOK.
LEMMA TypeParts == TypeOK <=> ValuesOK /\ FlagsOK /\ SequencesOK /\ InHand
<1> DEFINE Hand == /\ message \in {<<>>} \cup {<<m>> : m \in Message}
                   /\ message # <<>> <=> background \in {"level", "push", "write"}
<1>1. ASSUME NEW m PROVE <<m>> # <<>>
  OBVIOUS
<1>2. Hand <=> InHand
  BY <1>1 DEF InHand
<1> HIDE DEF Hand
<1>3. TypeOK <=> ValuesOK /\ FlagsOK /\ SequencesOK /\ Hand
  BY DEF TypeOK, ValuesOK, FlagsOK, SequencesOK, Message, Line, Hand
<1> QED
  BY <1>2, <1>3

\* The identifiers of the four sequences of InOrderOnce are sequences of numbers.
LEMMA TypeIds ==
    ASSUME SequencesOK, InHand
    PROVE  /\ Ids(accepted) \in Seq(Nat) /\ Ids(written) \in Seq(Nat)
           /\ Ids(message) \in Seq(Nat) /\ Ids(logQueue) \in Seq(Nat)
<1>1. \A m \in Message : <<m>> \in Seq(Message)
  OBVIOUS
<1>2. <<>> \in Seq(Message)
  OBVIOUS
<1>3. message \in Seq(Message)
  BY <1>1, <1>2, Zenon DEF InHand
<1> QED
  BY <1>3, MessageIds, IdsType DEF SequencesOK

\* It holds initially.
LEMMA InitInv == Init => IInv
<1> SUFFICES ASSUME Init PROVE IInv
  OBVIOUS
<1>1. ValuesOK
  BY LevelsAssumption, BoundsAssumption DEF Init, ValuesOK
<1>2. SequencesOK /\ InHand
  BY DEF Init, SequencesOK, InHand
<1>3. FlagsOK
  BY Zenon DEF Init, FlagsOK
<1>4. ThreadAndFlag
  BY DEF Init, ThreadAndFlag
<1>5. InOrderOnce
  BY IdsEmpty, ConcatEmptySeq, EmptySeq DEF Init, InOrderOnce
<1> QED
  BY <1>1, <1>2, <1>3, <1>4, <1>5, TypeParts DEF IInv

\* Every step keeps the invariant.
LEMMA NextInv ==
    ASSUME IInv, [Next]_vars
    PROVE  IInv'
<1> USE DEF vars, config, queue, control
<1>1. ValuesOK /\ FlagsOK /\ SequencesOK /\ InHand /\ ThreadAndFlag /\ InOrderOnce
  BY TypeParts DEF IInv
<1>2. SUFFICES ValuesOK' /\ FlagsOK' /\ SequencesOK' /\ InHand' /\ ThreadAndFlag' /\ InOrderOnce'
  <2>1. TypeOK' <=> ValuesOK' /\ FlagsOK' /\ SequencesOK' /\ InHand'
    BY TypeParts, PTL
  <2> QED
    BY <2>1 DEF IInv
<1>3. ASSUME UNCHANGED <<accepted, written, message, logQueue>>
      PROVE  InOrderOnce'
  BY <1>1, <1>3 DEF InOrderOnce, Ids
<1>4. CASE UNCHANGED vars
  <2>1. ValuesOK'
    BY <1>4, <1>1, LevelsAssumption, BoundsAssumption DEF ValuesOK
  <2>2. FlagsOK'
    BY <1>4, <1>1, Zenon DEF FlagsOK
  <2>3. SequencesOK'
    BY <1>4, <1>1 DEF SequencesOK
  <2>4. InHand'
    BY <1>4, <1>1 DEF InHand
  <2>5. ThreadAndFlag'
    BY <1>4, <1>1 DEF ThreadAndFlag, Alive
  <2>6. InOrderOnce'
    BY <1>4, <1>3
  <2> QED
    BY <2>1, <2>2, <2>3, <2>4, <2>5, <2>6
<1>5. CASE TestPredicate
  <2>1. ValuesOK'
    BY <1>5, <1>1, LevelsAssumption, BoundsAssumption DEF TestPredicate, At, ValuesOK
  <2>2. FlagsOK'
    BY <1>5, <1>1, Zenon DEF TestPredicate, At, FlagsOK
  <2>3. SequencesOK'
    BY <1>5, <1>1 DEF TestPredicate, At, SequencesOK
  <2>4. InHand'
    BY <1>5, <1>1 DEF TestPredicate, At, InHand
  <2>5. ThreadAndFlag'
    BY <1>5, <1>1 DEF TestPredicate, At, ThreadAndFlag, ValuesOK, Alive
  <2>6. InOrderOnce'
    BY <1>5, <1>3 DEF TestPredicate, At
  <2> QED
    BY <2>1, <2>2, <2>3, <2>4, <2>5, <2>6
<1>6. CASE Sleep
  <2>1. ValuesOK'
    BY <1>6, <1>1, LevelsAssumption, BoundsAssumption DEF Sleep, At, ValuesOK
  <2>2. FlagsOK'
    BY <1>6, <1>1, Zenon DEF Sleep, At, FlagsOK
  <2>3. SequencesOK'
    BY <1>6, <1>1 DEF Sleep, At, SequencesOK
  <2>4. InHand'
    BY <1>6, <1>1 DEF Sleep, At, InHand
  <2>5. ThreadAndFlag'
    BY <1>6, <1>1 DEF Sleep, At, ThreadAndFlag, ValuesOK, Alive
  <2>6. InOrderOnce'
    BY <1>6, <1>3 DEF Sleep, At
  <2> QED
    BY <2>1, <2>2, <2>3, <2>4, <2>5, <2>6
<1>7. CASE SpuriousWakeup
  <2>1. ValuesOK'
    BY <1>7, <1>1, LevelsAssumption, BoundsAssumption DEF SpuriousWakeup, At, ValuesOK
  <2>2. FlagsOK'
    BY <1>7, <1>1, Zenon DEF SpuriousWakeup, At, FlagsOK
  <2>3. SequencesOK'
    BY <1>7, <1>1 DEF SpuriousWakeup, At, SequencesOK
  <2>4. InHand'
    BY <1>7, <1>1 DEF SpuriousWakeup, At, InHand
  <2>5. ThreadAndFlag'
    BY <1>7, <1>1 DEF SpuriousWakeup, At, ThreadAndFlag, ValuesOK, Alive
  <2>6. InOrderOnce'
    BY <1>7, <1>3 DEF SpuriousWakeup, At
  <2> QED
    BY <2>1, <2>2, <2>3, <2>4, <2>5, <2>6
<1>8. CASE ReadLevel
  <2>1. ValuesOK'
    BY <1>8, <1>1, LevelsAssumption, BoundsAssumption DEF ReadLevel, At, ValuesOK
  <2>2. FlagsOK'
    BY <1>8, <1>1, Zenon DEF ReadLevel, At, FlagsOK
  <2>3. SequencesOK'
    BY <1>8, <1>1 DEF ReadLevel, At, SequencesOK
  <2>4. InHand'
    BY <1>8, <1>1 DEF ReadLevel, At, InHand
  <2>5. ThreadAndFlag'
    BY <1>8, <1>1 DEF ReadLevel, At, ThreadAndFlag, ValuesOK, Alive
  <2>6. InOrderOnce'
    BY <1>8, <1>3 DEF ReadLevel, At
  <2> QED
    BY <2>1, <2>2, <2>3, <2>4, <2>5, <2>6
<1>9. CASE KeepError
  <2>1. ValuesOK'
    BY <1>9, <1>1, LevelsAssumption, BoundsAssumption DEF KeepError, At, ValuesOK
  <2>2. FlagsOK'
    BY <1>9, <1>1, Zenon DEF KeepError, At, FlagsOK
  <2>3. SequencesOK'
    <3>1. PICK m \in Message : message = <<m>>
      BY <1>9, <1>1 DEF KeepError, At, InHand
    <3>2. message[1].id \in 1..MaxLogs
      BY <3>1 DEF Message
    <3> QED
      BY <1>9, <1>1, <3>2 DEF KeepError, SequencesOK
  <2>4. InHand'
    BY <1>9, <1>1 DEF KeepError, At, InHand
  <2>5. ThreadAndFlag'
    BY <1>9, <1>1 DEF KeepError, At, ThreadAndFlag, ValuesOK, Alive
  <2>6. InOrderOnce'
    BY <1>9, <1>3 DEF KeepError, At
  <2> QED
    BY <2>1, <2>2, <2>3, <2>4, <2>5, <2>6
<1>10. CASE Write
  <2>a. PICK m \in Message : message = <<m>>
    BY <1>10, <1>1 DEF Write, At, InHand
  <2> DEFINE line == [id |-> m.id, to |-> outputStream]
  <2>b. line \in Line /\ line.id = m.id
    BY <1>1 DEF ValuesOK, Message, Line
  <2>c. written' = Append(written, line) /\ message' = <<>> /\ UNCHANGED <<accepted, logQueue>>
    BY <1>10, <2>a DEF Write
  <2> HIDE DEF line
  <2>1. ValuesOK'
    BY <1>10, <1>1, LevelsAssumption, BoundsAssumption DEF Write, At, ValuesOK
  <2>2. FlagsOK'
    BY <1>10, <1>1, Zenon DEF Write, At, FlagsOK
  <2>3. SequencesOK'
    BY <1>10, <1>1, <2>c, <2>b DEF Write, SequencesOK
  <2>4. InHand'
    BY <1>10, <1>1 DEF Write, At, InHand
  <2>5. ThreadAndFlag'
    BY <1>10, <1>1 DEF Write, At, ThreadAndFlag, ValuesOK, Alive
  <2>6. InOrderOnce'
    <3> DEFINE W == Ids(written)
               Q == Ids(logQueue)
               i == m.id
    <3>1. W \in Seq(Nat) /\ Q \in Seq(Nat) /\ i \in Nat
      BY <1>1, TypeIds, MessageIds
    <3>2. Ids(message) = <<i>>
      BY <2>a DEF Ids
    <3>3. Ids(written') = Append(W, i)
      BY <1>1, <2>c, <2>b, MessageIds, IdsAppend DEF SequencesOK
    <3>4. Ids(accepted) = W \o <<i>> \o Q
      BY <1>1, <3>2 DEF InOrderOnce
    <3>5. Ids(message') = <<>> /\ Ids(accepted') = Ids(accepted) /\ Ids(logQueue') = Q
      BY <2>c, IdsEmpty DEF Ids
    <3>6. Ids(written') \o Ids(message') \o Ids(logQueue') = Append(W, i) \o <<>> \o Q
      BY <3>3, <3>5
    <3> HIDE DEF W, Q, i
    <3>7. Append(W, i) \o <<>> \o Q = W \o <<i>> \o Q
      BY <3>1, AppendIsConcat, AppendProperties, ConcatEmptySeq
    <3> QED
      BY <3>4, <3>5, <3>6, <3>7 DEF InOrderOnce
  <2> QED
    BY <2>1, <2>2, <2>3, <2>4, <2>5, <2>6
<1>11. CASE TakeOrReturn
  <2>a. \/ ~asyncLoggingEnabled /\ background' = "done" /\ UNCHANGED <<logQueue, message>>
        \/ /\ asyncLoggingEnabled /\ logQueue # <<>>
           /\ background' = "level" /\ message' = <<Head(logQueue)>> /\ logQueue' = Tail(logQueue)
    BY <1>11, <1>1 DEF TakeOrReturn, ThreadAndFlag
  <2>1. ValuesOK'
    BY <1>11, <1>1, LevelsAssumption, BoundsAssumption DEF TakeOrReturn, ValuesOK
  <2>2. FlagsOK'
    BY <1>11, <1>1, Zenon DEF TakeOrReturn, FlagsOK
  <2>3. SequencesOK'
    BY <1>11, <1>1, <2>a, HeadTailProperties DEF TakeOrReturn, SequencesOK
  <2>4. InHand'
    <3>1. CASE UNCHANGED message /\ background' = "done"
      BY <1>11, <1>1, <3>1 DEF TakeOrReturn, InHand
    <3>2. CASE logQueue # <<>> /\ background' = "level" /\ message' = <<Head(logQueue)>>
      <4>1. logQueue \in Seq(Message)
        BY <1>1 DEF SequencesOK
      <4>2. Head(logQueue) \in Message
        BY <3>2, <4>1, HeadTailProperties
      <4>3. \E m \in Message : message' = <<m>>
        BY <3>2, <4>2, Zenon
      <4> QED
        BY <3>2, <4>3 DEF InHand
    <3> QED
      BY <2>a, <3>1, <3>2
  <2>5. ThreadAndFlag'
    BY <1>11, <1>1 DEF TakeOrReturn, ThreadAndFlag, ValuesOK, Alive
  <2>6. InOrderOnce'
    <3>1. CASE UNCHANGED <<logQueue, message>>
      BY <1>11, <3>1, <1>3 DEF TakeOrReturn
    <3>2. CASE logQueue # <<>> /\ message' = <<Head(logQueue)>> /\ logQueue' = Tail(logQueue)
      <4> DEFINE W == Ids(written)
                 Q == Ids(Tail(logQueue))
                 i == Head(logQueue).id
      <4>1. Head(logQueue) \in Message /\ Tail(logQueue) \in Seq(Message) /\ i \in Nat
        BY <1>1, <3>2, HeadTailProperties, MessageIds DEF SequencesOK
      <4>2. W \in Seq(Nat) /\ Q \in Seq(Nat)
        BY <1>1, <4>1, TypeIds, MessageIds, IdsType
      <4>3. Ids(logQueue) = <<i>> \o Q
        BY <1>1, <3>2, MessageIds, IdsTail DEF SequencesOK
      <4>4. message = <<>>
        BY <1>11, <1>1 DEF TakeOrReturn, InHand
      <4>5. Ids(accepted) = W \o <<>> \o (<<i>> \o Q)
        BY <1>1, <4>3, <4>4, IdsEmpty DEF InOrderOnce
      <4>6. Ids(message') = <<i>>
        BY <3>2 DEF Ids
      <4>7. Ids(accepted') = Ids(accepted) /\ Ids(written') = W /\ Ids(logQueue') = Q
        BY <1>11, <3>2 DEF TakeOrReturn, Ids
      <4> HIDE DEF W, Q, i
      <4>8. W \o <<>> \o (<<i>> \o Q) = W \o <<i>> \o Q
        <5>1. <<i>> \in Seq(Nat)
          BY <4>1
        <5> QED
          BY <4>2, <5>1, ConcatEmptySeq, ConcatAssociative
      <4> QED
        BY <4>5, <4>6, <4>7, <4>8 DEF InOrderOnce
    <3> QED
      BY <2>a, <3>1, <3>2
  <2> QED
    BY <2>1, <2>2, <2>3, <2>4, <2>5, <2>6
<1>12. CASE \E level \in Levels : Log(level)
  <2>a. PICK level \in Levels : Log(level)
    BY <1>12
  <2> DEFINE m == [id |-> logs + 1, level |-> level]
  <2>b. logs + 1 \in 1..MaxLogs /\ logs' = logs + 1
    BY <1>1, <2>a, BoundsAssumption DEF Log, ValuesOK
  <2>c. m \in Message /\ m.id = logs + 1
    BY <2>b DEF Message
  <2>d. \/ logQueue' = Append(logQueue, m) /\ accepted' = Append(accepted, m)
        \/ UNCHANGED <<logQueue, accepted>>
    BY <2>a, <2>b DEF Log
  <2> HIDE DEF m
  <2>1. ValuesOK'
    BY <2>a, <1>1, <2>b DEF Log, Notified, ValuesOK
  <2>2. FlagsOK'
    BY <2>a, <1>1, Zenon DEF Log, FlagsOK
  <2>3. SequencesOK'
    <3>1. logQueue' \in Seq(Message) /\ accepted' \in Seq(Message)
      <4>1. CASE UNCHANGED <<logQueue, accepted>>
        BY <1>1, <4>1 DEF SequencesOK
      <4>2. CASE logQueue' = Append(logQueue, m) /\ accepted' = Append(accepted, m)
        BY <1>1, <2>c, <4>2 DEF SequencesOK
      <4> QED
        BY <2>d, <4>1, <4>2
    <3>2. errorMessages' = Append(errorMessages, logs + 1) \/ UNCHANGED errorMessages
      BY <2>a, <2>b DEF Log, PushError
    <3>3. errorMessages' \in Seq(1..MaxLogs)
      <4>1. CASE UNCHANGED errorMessages
        BY <1>1, <4>1 DEF SequencesOK
      <4>2. CASE errorMessages' = Append(errorMessages, logs + 1)
        <5>1. errorMessages \in Seq(1..MaxLogs)
          BY <1>1 DEF SequencesOK
        <5> QED
          BY <2>b, <4>2, <5>1, AppendProperties
      <4> QED
        BY <3>2, <4>1, <4>2
    <3> QED
      BY <2>a, <1>1, <3>1, <3>3 DEF Log, SequencesOK
  <2>4. InHand'
    BY <2>a, <1>1 DEF Log, Notified, InHand
  <2>5. ThreadAndFlag'
    <3>1. logQueue # <<>> => logQueue' # <<>>
      BY <1>1, <2>d, <2>c, AppendProperties DEF SequencesOK
    <3> QED
      BY <2>a, <1>1, <3>1 DEF Log, Notified, ThreadAndFlag, Alive
  <2>6. InOrderOnce'
    <3>1. CASE UNCHANGED <<logQueue, accepted>>
      BY <2>a, <3>1, <1>3 DEF Log
    <3>2. CASE logQueue' = Append(logQueue, m) /\ accepted' = Append(accepted, m)
      <4> DEFINE V == Ids(written) \o Ids(message)
                 Q == Ids(logQueue)
                 i == m.id
      <4>1. V \in Seq(Nat) /\ Q \in Seq(Nat) /\ i \in Nat
        BY <1>1, <2>c, TypeIds, MessageIds, ConcatProperties
      <4>2. Ids(logQueue') = Append(Q, i) /\ Ids(accepted') = Append(Ids(accepted), i)
        BY <1>1, <2>c, <3>2, MessageIds, IdsAppend DEF SequencesOK
      <4>3. Ids(written') \o Ids(message') = V
        BY <2>a DEF Log, Ids
      <4>4. Ids(accepted) = V \o Q
        BY <1>1 DEF InOrderOnce
      <4> HIDE DEF V, Q, i
      <4>5. Append(V \o Q, i) = V \o Append(Q, i)
        <5>1. <<i>> \in Seq(Nat) /\ V \o Q \in Seq(Nat)
          BY <4>1, ConcatProperties
        <5>2. Append(V \o Q, i) = (V \o Q) \o <<i>>
          BY <4>1, <5>1, AppendIsConcat
        <5>3. Append(Q, i) = Q \o <<i>>
          BY <4>1, AppendIsConcat
        <5>4. (V \o Q) \o <<i>> = V \o (Q \o <<i>>)
          BY <4>1, <5>1, ConcatAssociative
        <5> QED
          BY <5>2, <5>3, <5>4
      <4> QED
        BY <4>2, <4>3, <4>4, <4>5 DEF InOrderOnce
    <3> QED
      BY <2>d, <3>1, <3>2
  <2> QED
    BY <2>1, <2>2, <2>3, <2>4, <2>5, <2>6
<1>13. CASE NotifyEnd
  <2>1. ValuesOK'
    BY <1>13, <1>1, LevelsAssumption, BoundsAssumption DEF NotifyEnd, Notified, ValuesOK
  <2>2. FlagsOK'
    BY <1>13, <1>1, Zenon DEF NotifyEnd, Notified, FlagsOK
  <2>3. SequencesOK'
    BY <1>13, <1>1 DEF NotifyEnd, Notified, SequencesOK
  <2>4. InHand'
    BY <1>13, <1>1 DEF NotifyEnd, Notified, InHand
  <2>5. ThreadAndFlag'
    BY <1>13, <1>1 DEF NotifyEnd, Notified, ThreadAndFlag, ValuesOK, Alive
  <2>6. InOrderOnce'
    BY <1>13, <1>3 DEF NotifyEnd, Notified
  <2> QED
    BY <2>1, <2>2, <2>3, <2>4, <2>5, <2>6
<1>14. CASE Join
  <2>1. ValuesOK'
    BY <1>14, <1>1, LevelsAssumption, BoundsAssumption DEF Join, ValuesOK
  <2>2. FlagsOK'
    BY <1>14, <1>1, Zenon DEF Join, FlagsOK
  <2>3. SequencesOK'
    BY <1>14, <1>1 DEF Join, SequencesOK
  <2>4. InHand'
    BY <1>14, <1>1 DEF Join, InHand
  <2>5. ThreadAndFlag'
    BY <1>14, <1>1 DEF Join, ThreadAndFlag, ValuesOK, Alive
  <2>6. InOrderOnce'
    BY <1>14, <1>3 DEF Join
  <2> QED
    BY <2>1, <2>2, <2>3, <2>4, <2>5, <2>6
<1>15. CASE \E level \in Levels : setLogLevel(level)
  <2>1. ValuesOK'
    BY <1>15, <1>1, LevelsAssumption, BoundsAssumption DEF setLogLevel, Call, ValuesOK
  <2>2. FlagsOK'
    BY <1>15, <1>1, Zenon DEF setLogLevel, Call, FlagsOK
  <2>3. SequencesOK'
    BY <1>15, <1>1 DEF setLogLevel, Call, SequencesOK
  <2>4. InHand'
    BY <1>15, <1>1 DEF setLogLevel, Call, InHand
  <2>5. ThreadAndFlag'
    BY <1>15, <1>1 DEF setLogLevel, Call, ThreadAndFlag, ValuesOK, Alive
  <2>6. InOrderOnce'
    BY <1>15, <1>3 DEF setLogLevel, Call
  <2> QED
    BY <2>1, <2>2, <2>3, <2>4, <2>5, <2>6
<1>16. CASE \E level \in Levels : setFilterLevel(level)
  <2>1. ValuesOK'
    BY <1>16, <1>1, LevelsAssumption, BoundsAssumption DEF setFilterLevel, Call, ValuesOK
  <2>2. FlagsOK'
    BY <1>16, <1>1, Zenon DEF setFilterLevel, Call, FlagsOK
  <2>3. SequencesOK'
    BY <1>16, <1>1 DEF setFilterLevel, Call, SequencesOK
  <2>4. InHand'
    BY <1>16, <1>1 DEF setFilterLevel, Call, InHand
  <2>5. ThreadAndFlag'
    BY <1>16, <1>1 DEF setFilterLevel, Call, ThreadAndFlag, ValuesOK, Alive
  <2>6. InOrderOnce'
    BY <1>16, <1>3 DEF setFilterLevel, Call
  <2> QED
    BY <2>1, <2>2, <2>3, <2>4, <2>5, <2>6
<1>17. CASE setLogToFile
  <2>1. ValuesOK'
    BY <1>17, <1>1, LevelsAssumption, BoundsAssumption DEF setLogToFile, Call, ValuesOK
  <2>2. FlagsOK'
    BY <1>17, <1>1, Zenon DEF setLogToFile, Call, FlagsOK
  <2>3. SequencesOK'
    BY <1>17, <1>1 DEF setLogToFile, Call, SequencesOK
  <2>4. InHand'
    BY <1>17, <1>1 DEF setLogToFile, Call, InHand
  <2>5. ThreadAndFlag'
    BY <1>17, <1>1 DEF setLogToFile, Call, ThreadAndFlag, ValuesOK, Alive
  <2>6. InOrderOnce'
    BY <1>17, <1>3 DEF setLogToFile, Call
  <2> QED
    BY <2>1, <2>2, <2>3, <2>4, <2>5, <2>6
<1>18. CASE setLogToFileFails
  <2>1. ValuesOK'
    BY <1>18, <1>1, LevelsAssumption, BoundsAssumption DEF setLogToFileFails, Call, ValuesOK
  <2>2. FlagsOK'
    BY <1>18, <1>1, Zenon DEF setLogToFileFails, Call, FlagsOK
  <2>3. SequencesOK'
    BY <1>18, <1>1 DEF setLogToFileFails, Call, SequencesOK
  <2>4. InHand'
    BY <1>18, <1>1 DEF setLogToFileFails, Call, InHand
  <2>5. ThreadAndFlag'
    BY <1>18, <1>1 DEF setLogToFileFails, Call, ThreadAndFlag, ValuesOK, Alive
  <2>6. InOrderOnce'
    BY <1>18, <1>3 DEF setLogToFileFails, Call
  <2> QED
    BY <2>1, <2>2, <2>3, <2>4, <2>5, <2>6
<1>19. CASE enableAsyncLogging
  <2>1. ValuesOK'
    BY <1>19, <1>1, LevelsAssumption, BoundsAssumption DEF enableAsyncLogging, Call, ValuesOK
  <2>2. FlagsOK'
    BY <1>19, <1>1, Zenon DEF enableAsyncLogging, Call, FlagsOK
  <2>3. SequencesOK'
    BY <1>19, <1>1 DEF enableAsyncLogging, Call, SequencesOK
  <2>4. InHand'
    BY <1>19, <1>1 DEF enableAsyncLogging, Call, InHand
  <2>5. ThreadAndFlag'
    BY <1>19, <1>1 DEF enableAsyncLogging, Call, ThreadAndFlag, ValuesOK, Alive
  <2>6. InOrderOnce'
    BY <1>19, <1>3 DEF enableAsyncLogging, Call
  <2> QED
    BY <2>1, <2>2, <2>3, <2>4, <2>5, <2>6
<1>20. CASE \E d \in BOOLEAN : disableAsyncLogging(d)
  <2>1. ValuesOK'
    BY <1>20, <1>1, LevelsAssumption, BoundsAssumption DEF disableAsyncLogging, Call, ValuesOK
  <2>2. FlagsOK'
    BY <1>20, <1>1, Zenon DEF disableAsyncLogging, Call, FlagsOK
  <2>3. SequencesOK'
    BY <1>20, <1>1 DEF disableAsyncLogging, Call, SequencesOK
  <2>4. InHand'
    BY <1>20, <1>1 DEF disableAsyncLogging, Call, InHand
  <2>5. ThreadAndFlag'
    BY <1>20, <1>1 DEF disableAsyncLogging, Call, ThreadAndFlag, ValuesOK, Alive
  <2>6. InOrderOnce'
    BY <1>20, <1>3 DEF disableAsyncLogging, Call
  <2> QED
    BY <2>1, <2>2, <2>3, <2>4, <2>5, <2>6
<1> QED
  BY <1>4, <1>5, <1>6, <1>7, <1>8, <1>9, <1>10, <1>11, <1>12, <1>13, <1>14, <1>15, <1>16, <1>17, <1>18, <1>19, <1>20 DEF Next, Background, OwnerStep

\* The types hold in every reachable state: in particular the background thread holds a message
\* exactly between taking it from the queue and writing it.
THEOREM TypeCorrect == Spec => []TypeOK
<1>1. IInv => TypeOK
  BY DEF IInv
<1>2. IInv /\ [Next]_vars => IInv'
  BY NextInv
<1>3. QED
  BY <1>1, <1>2, InitInv, PTL DEF Spec

\* log() and the background thread write every accepted message once and in the order of the
\* calls, whenever asynchronous logging is stopped and started again.
THEOREM WrittenInOrder == Spec => []InOrderOnce
<1>1. IInv => InOrderOnce
  BY DEF IInv
<1>2. IInv /\ [Next]_vars => IInv'
  BY NextInv
<1>3. QED
  BY <1>1, <1>2, InitInv, PTL DEF Spec
-----------------------------------------------------------------------------
(* The errors. *)

\* One step of the loop of Errors(), and its results up to the m-th message.
Kept(before, m) == IF m.level = Error THEN Append(before, m.id) ELSE before
KeptTo(f, s, m) == f = [n \in 0..m |-> IF n = 0 THEN <<>> ELSE Kept(f[n - 1], s[n])]

\* While the logger's level has not been Error the background thread keeps no error itself.
NoErrorLevel == ~errorLevel => currentLogLevel # Error /\ background # "push"

\* A set of natural numbers has a least element; inductions are by the least counterexample.
LEMMA HasMinimum ==
    ASSUME NEW S, S \subseteq Nat, S # {}
    PROVE  \E x \in S : \A y \in S : x <= y
<1>1. PICK x \in S : \A y \in S : ~(<<y, x>> \in OpToRel(<, Nat))
  BY NatLessThanWellFounded, WFMin
<1>2. \A y \in S : <<y, x>> \in OpToRel(<, Nat) <=> y < x
  BY DEF OpToRel
<1>3. \A y \in S : ~(y < x)
  BY <1>1, <1>2, Zenon
<1>4. \A y \in S : x <= y
  BY <1>3
<1>5. QED
  BY <1>4

\* The loop of Errors() has a result for every length.
LEMMA KeptExists ==
    ASSUME NEW s, NEW m \in Nat
    PROVE  \E f : KeptTo(f, s, m)
<1> DEFINE Bad == {n \in Nat : ~ \E f : KeptTo(f, s, n)}
<1>1. SUFFICES ASSUME Bad # {} PROVE FALSE
  OBVIOUS
<1>2. PICK x \in Bad : \A y \in Bad : x <= y
  BY <1>1, HasMinimum
<1>3. x # 0
  <2>1. KeptTo([n \in 0..0 |-> <<>>], s, 0)
    BY DEF KeptTo
  <2>2. QED
    BY <2>1
<1>4. PICK f : KeptTo(f, s, x - 1)
  BY <1>2, <1>3
<1> DEFINE g == [n \in 0..x |-> IF n = x THEN Kept(f[x - 1], s[x]) ELSE f[n]]
<1>5. KeptTo(g, s, x)
  BY <1>2, <1>3, <1>4 DEF KeptTo
<1>6. QED
  BY <1>2, <1>5

\* Errors() is that result for the whole sequence.
LEMMA ErrorsAreKept ==
    ASSUME NEW s, Len(s) \in Nat
    PROVE  \E f : KeptTo(f, s, Len(s)) /\ Errors(s) = f[Len(s)]
<1> DEFINE K == CHOOSE f : f = [n \in 0..Len(s) |->
                   IF n = 0 THEN <<>>
                   ELSE IF s[n].level = Error THEN Append(f[n - 1], s[n].id) ELSE f[n - 1]]
<1>1. Errors(s) = K[Len(s)]
  BY DEF Errors
<1>2. PICK f : KeptTo(f, s, Len(s))
  BY KeptExists
<1>3. f = [n \in 0..Len(s) |->
              IF n = 0 THEN <<>>
              ELSE IF s[n].level = Error THEN Append(f[n - 1], s[n].id) ELSE f[n - 1]]
  BY <1>2 DEF KeptTo, Kept
<1>4. K = [n \in 0..Len(s) |->
              IF n = 0 THEN <<>>
              ELSE IF s[n].level = Error THEN Append(K[n - 1], s[n].id) ELSE K[n - 1]]
  BY <1>3, Zenon
<1> HIDE DEF K
<1>5. KeptTo(K, s, Len(s))
  BY <1>4 DEF KeptTo, Kept
<1>6. QED
  BY <1>1, <1>5

\* The errors of a longer sequence: the loop agrees with the one on the shorter as far as that goes.
LEMMA ErrorsAppend ==
    ASSUME NEW S, NEW s \in Seq(S), NEW e \in S
    PROVE  Errors(Append(s, e)) = IF e.level = Error THEN Append(Errors(s), e.id) ELSE Errors(s)
<1>1. PICK m \in Nat : m = Len(s)
  OBVIOUS
<1>2. PICK t : t = Append(s, e)
  OBVIOUS
<1>3. Len(t) = m + 1 /\ t[m + 1] = e /\ \A i \in 1..m : s[i] = t[i]
  BY <1>1, <1>2
<1>4. PICK f : KeptTo(f, s, m) /\ Errors(s) = f[m]
  BY <1>1, ErrorsAreKept
<1>5. PICK g : KeptTo(g, t, m + 1) /\ Errors(t) = g[m + 1]
  BY <1>3, ErrorsAreKept
<1>6. g[m + 1] = Kept(g[m], e)
  BY <1>3, <1>5 DEF KeptTo
<1>7. f[m] = g[m]
  <2> DEFINE Bad == {n \in 0..m : f[n] # g[n]}
  <2>1. SUFFICES ASSUME Bad # {} PROVE FALSE
    BY <1>1
  <2>2. PICK x \in Bad : \A y \in Bad : x <= y
    <3>1. Bad \subseteq Nat
      BY <1>1
    <3> HIDE DEF Bad
    <3>2. QED
      BY <2>1, <3>1, HasMinimum
  <2>3. f[0] = <<>> /\ \A n \in 1..m : f[n] = Kept(f[n - 1], s[n])
    BY <1>1, <1>4 DEF KeptTo
  <2>4. g[0] = <<>> /\ \A n \in 1..m : g[n] = Kept(g[n - 1], t[n])
    <3>1. \A n \in 0..(m + 1) : g[n] = IF n = 0 THEN <<>> ELSE Kept(g[n - 1], t[n])
      BY <1>5, Zenon DEF KeptTo
    <3>2. QED
      BY <1>1, <3>1
  <2>5. x # 0
    BY <2>2, <2>3, <2>4
  <2>6. x \in 1..m /\ f[x - 1] = g[x - 1]
    BY <1>1, <2>2, <2>5
  <2>7. f[x] = g[x]
    BY <1>3, <2>3, <2>4, <2>6
  <2>8. QED
    BY <2>2, <2>7
<1>8. QED
  BY <1>2, <1>4, <1>5, <1>6, <1>7 DEF Kept

\* No messages have no errors.
LEMMA ErrorsEmpty == Errors(<<>>) = <<>>
<1>1. PICK f : KeptTo(f, <<>>, Len(<<>>)) /\ Errors(<<>>) = f[Len(<<>>)]
  BY ErrorsAreKept
<1>2. QED
  BY <1>1 DEF KeptTo

\* Every step keeps NoErrorLevel: only setLogLevel() makes the level Error, and the background
\* thread comes to its own push_back() only when it reads that level.
LEMMA NextNoErrorLevel == TypeOK /\ NoErrorLevel /\ [Next]_vars => NoErrorLevel'
<1> SUFFICES ASSUME TypeOK, NoErrorLevel, [Next]_vars PROVE NoErrorLevel'
  OBVIOUS
<1> USE DEF NoErrorLevel
<1>1. CASE TestPredicate
  BY <1>1 DEF TestPredicate, At, config
<1>2. CASE Sleep
  BY <1>2 DEF Sleep, At, config
<1>3. CASE SpuriousWakeup
  BY <1>3 DEF SpuriousWakeup, At, config
<1>4. CASE TakeOrReturn
  BY <1>4 DEF TakeOrReturn, config
<1>5. CASE ReadLevel
  BY <1>5 DEF ReadLevel, At, config
<1>6. CASE KeepError
  BY <1>6 DEF KeepError, At, config
<1>7. CASE Write
  BY <1>7 DEF Write, At, config
<1>8. CASE NotifyEnd
  BY <1>8 DEF NotifyEnd, Notified, config
<1>9. CASE Join
  BY <1>9 DEF Join, config
<1>10. ASSUME NEW level \in Levels, Log(level) PROVE NoErrorLevel'
  BY <1>10 DEF Log, Notified, config
<1>11. ASSUME NEW level \in Levels, setLogLevel(level) PROVE NoErrorLevel'
  BY <1>11, Zenon DEF setLogLevel
<1>12. ASSUME NEW level \in Levels, setFilterLevel(level) PROVE NoErrorLevel'
  BY <1>12 DEF setFilterLevel
<1>13. CASE setLogToFile
  BY <1>13 DEF setLogToFile, config
<1>14. CASE setLogToFileFails
  BY <1>14 DEF setLogToFileFails, config
<1>15. CASE enableAsyncLogging
  BY <1>15 DEF enableAsyncLogging, config
<1>16. ASSUME NEW d \in BOOLEAN, disableAsyncLogging(d) PROVE NoErrorLevel'
  BY <1>16 DEF disableAsyncLogging, config
<1>17. CASE UNCHANGED vars
  BY <1>17 DEF vars, config
<1>18. QED
  BY <1>1, <1>2, <1>3, <1>4, <1>5, <1>6, <1>7, <1>8, <1>9, <1>10, <1>11, <1>12, <1>13, <1>14,
     <1>15, <1>16, <1>17 DEF Next, Background, OwnerStep

\* log() adds a message and, if it is an error, its identifier: the background thread is not in
\* its own push_back(), so neither element is lost.
LEMMA LogKeepsErrors ==
    ASSUME TypeOK, NoErrorLevel, ErrorsKept, NEW level \in Levels, Log(level), ~errorLevel
    PROVE  errorMessages' = Errors(accepted')
<1>1. errorMessages = Errors(accepted) /\ background # "push"
  BY DEF ErrorsKept, NoErrorLevel
<1>2. CASE shouldLog(level)
  <2>1. PICK e : e = [id |-> logs', level |-> level]
    OBVIOUS
  <2>2. accepted' = Append(accepted, e)
    BY <1>2, <2>1 DEF Log
  <2>3. accepted \in Seq([id : 1..MaxLogs, level : Levels]) /\ e \in [id : 1..MaxLogs, level : Levels]
    BY <2>1, BoundsAssumption DEF TypeOK, Log
  <2>4. Errors(accepted') = IF e.level = Error THEN Append(Errors(accepted), e.id) ELSE Errors(accepted)
    BY <2>2, <2>3, ErrorsAppend
  <2>5. errorMessages' = IF level = Error THEN Append(errorMessages, logs') ELSE errorMessages
    BY <1>1, <1>2 DEF Log, PushError
  <2>6. QED
    BY <1>1, <2>1, <2>4, <2>5
<1>3. CASE ~shouldLog(level)
  BY <1>1, <1>3 DEF Log
<1>4. QED
  BY <1>2, <1>3

\* Every step keeps ErrorsKept: log() alone adds messages, and the other step that adds to
\* errorMessages, KeepError, does not happen while the level has not been Error.
LEMMA NextErrorsKept == TypeOK /\ NoErrorLevel /\ ErrorsKept /\ [Next]_vars => ErrorsKept'
<1> SUFFICES ASSUME TypeOK, NoErrorLevel, ErrorsKept, [Next]_vars, ~errorLevel'
             PROVE  errorMessages' = Errors(accepted')
  BY DEF ErrorsKept
<1>1. ASSUME NEW level \in Levels, setLogLevel(level) PROVE ~errorLevel
  BY <1>1, Zenon DEF setLogLevel
<1>2. ASSUME NEW level \in Levels, Log(level) PROVE errorMessages' = Errors(accepted')
  <2>1. ~errorLevel
    BY <1>2 DEF Log, config
  <2>2. QED
    BY <1>2, <2>1, LogKeepsErrors
<1>3. ASSUME ~errorLevel, UNCHANGED <<errorMessages, accepted>>
      PROVE  errorMessages' = Errors(accepted')
  BY <1>3 DEF ErrorsKept
<1>4. ~KeepError
  BY DEF KeepError, At, NoErrorLevel, config
<1>5. CASE Background \/ SpuriousWakeup \/ OwnerStep
  <2>1. UNCHANGED <<config, errorMessages, accepted>>
    BY <1>4, <1>5 DEF Background, OwnerStep, TestPredicate, Sleep, SpuriousWakeup, TakeOrReturn,
       ReadLevel, Write, NotifyEnd, Join, queue
  <2>2. QED
    BY <1>3, <2>1 DEF config
<1>6. ASSUME NEW level \in Levels, setLogLevel(level) \/ setFilterLevel(level)
      PROVE  errorMessages' = Errors(accepted')
  <2>1. UNCHANGED <<errorMessages, accepted>> /\ ~errorLevel
    BY <1>1, <1>6 DEF setLogLevel, setFilterLevel, queue
  <2>2. QED
    BY <1>3, <2>1
<1>7. CASE setLogToFile \/ setLogToFileFails \/ enableAsyncLogging \/ UNCHANGED vars
  <2>1. UNCHANGED <<config, errorMessages, accepted>>
    BY <1>7 DEF setLogToFile, setLogToFileFails, enableAsyncLogging, vars, queue
  <2>2. QED
    BY <1>3, <2>1 DEF config
<1>8. ASSUME NEW d \in BOOLEAN, disableAsyncLogging(d) PROVE errorMessages' = Errors(accepted')
  <2>1. UNCHANGED <<config, errorMessages, accepted>>
    BY <1>8 DEF disableAsyncLogging, queue
  <2>2. QED
    BY <1>3, <2>1 DEF config
<1>9. QED
  BY <1>2, <1>5, <1>6, <1>7, <1>8 DEF Next

\* As long as currentLogLevel has not been Error, errorMessages is exactly the accepted messages
\* of level Error, each once and in the order of the calls of log(), for every number of messages.
THEOREM ErrorsStay == Spec => []ErrorsKept
<1>1. Init => NoErrorLevel /\ ErrorsKept
  BY ErrorsEmpty DEF Init, NoErrorLevel, ErrorsKept, Info, Error
<1>2. TypeOK /\ NoErrorLevel /\ ErrorsKept /\ [Next]_vars => (NoErrorLevel /\ ErrorsKept)'
  BY NextNoErrorLevel, NextErrorsKept
<1>3. Spec => []TypeOK
  BY TypeCorrect
<1>4. QED
  BY <1>1, <1>2, <1>3, PTL DEF Spec
=============================================================================
