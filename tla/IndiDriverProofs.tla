-------------------------- MODULE IndiDriverProofs --------------------------
(***************************************************************************)
(* Proofs about IndiDriver, for any of the four drivers, any number of     *)
(* calls and any number of messages.                                       *)
(***************************************************************************)
EXTENDS IndiDriver, SequenceTheorems, TLAPS

Message == [type : {"def", "set", "del", "delDevice"}, prop : Props[kind], on : BOOLEAN]

\* TypeOK, and the type of the channel, in parts: the flags, the crash, the other values.
FlagsOK == /\ is_connected \in BOOLEAN /\ is_ready \in BOOLEAN /\ device_on \in BOOLEAN
           /\ asked \in BOOLEAN /\ again \in BOOLEAN /\ raced \in BOOLEAN /\ refused \in BOOLEAN
CrashOK == crash = <<>> \/ crash \in {"caller", "listener"} \X Props[kind] \X CrashCause
ValuesOK ==
    /\ kind \in Kinds
    /\ ptr \in [Props[kind] -> Pointer]
    /\ lpc \in {"idle", "connection"}
    /\ link \in {"never", "up", "closing", "closed", "gone", "lost"}
    /\ known \subseteq Props[kind] /\ defined \subseteq Props[kind]
    /\ pc \in {"idle", "check", "connecting", "connected", "device", "flag", "joining", "unflag",
               "write", "send", "read"}
CountsOK == calls \in 0..MaxCalls[kind] /\ events \in 0..MaxEvents[kind]
ChanOK == chan \in Seq(Message)

\* The focuser's pointers for its motion are assigned by nothing.
MotionUnassigned == kind = "focuser" => ptr["FOCUS_MOTION"] \in {"null", "wild"}

\* A link is closed by disconnect() alone, which waits for the listener; the end of connect()
\* meets a link that is up or that the server has left.
LinkAndCaller ==
    /\ link = "closing" => pc = "joining"
    /\ pc = "joining" => link \in {"closing", "closed"}
    /\ pc \in {"connected", "device", "flag"} => link \in {"up", "gone", "lost"}
    /\ pc = "unflag" => link \notin {"up", "closing"}

\* What the driver has still to learn about a connected device is on its way.
IsOn(m) == m.type \in {"def", "set"} /\ m.prop = "CONNECTION" /\ m.on
OnComing == \E i \in 1..Len(chan) : IsOn(chan[i])
OnComes ==
    (/\ Alive /\ link = "up" /\ lpc = "idle" /\ pc # "connected" /\ ~is_connected /\ ~refused
     /\ device_on /\ ~asked /\ "CONNECTION" \in defined)
        => OnComing

\* A pointer that the focuser's methods have checked becomes null only through ClearStatus().
CheckedPointers ==
    /\ pc \in {"write", "send", "read"} => kind = "focuser"
    /\ pc \in {"write", "send"} /\ ~raced => ptr["ABS_FOCUS_POSITION"] # "null"
    /\ pc = "read" /\ ~raced => ptr["FOCUS_TEMPERATURE"] # "null"

\* Before the i-th message the listener knows CCD_INFO: it does already, or it will have got a
\* definition, and no deletion comes after it.
Source(j) == \/ j = 0 /\ "CCD_INFO" \in known
             \/ j # 0 /\ chan[j].type = "def" /\ chan[j].prop = "CCD_INFO"
Withdrawn(j) == chan[j].type = "delDevice" \/ (chan[j].type = "del" /\ chan[j].prop = "CCD_INFO")
Announced(i) == \E j \in 0..(i - 1) : Source(j) /\ \A k \in (j + 1)..(i - 1) : ~Withdrawn(k)

\* The server updates CCD_INFO only while it is announced, and the camera has a pointer to a
\* CCD_INFO that it knows unless ClearStatus() took it from a driver that was ready.
InfoAnnounced ==
    /\ \A i \in 1..Len(chan) : chan[i].type = "set" /\ chan[i].prop = "CCD_INFO" => Announced(i)
    /\ "CCD_INFO" \in defined => Announced(Len(chan) + 1)
KnownInfo ==
    kind = "camera" /\ "CCD_INFO" \in known =>
        ptr["CCD_INFO"] = "valid" \/ (ptr["CCD_INFO"] = "null" /\ is_ready /\ raced)

IInv == /\ FlagsOK /\ CrashOK /\ ValuesOK /\ CountsOK /\ ChanOK
        /\ MotionUnassigned /\ LinkAndCaller /\ OnComes /\ CheckedPointers /\ InfoAnnounced /\ KnownInfo
        /\ SessionEndsClean /\ CrashHasCause
-----------------------------------------------------------------------------
\* What the proofs use of the table of properties.
LEMMA DriverProps ==
    ASSUME kind \in Kinds
    PROVE  /\ kind \in {"camera", "focuser", "telescope", "filterwheel"}
           /\ "CONNECTION" \in Props[kind] /\ "CONNECTION" \in ClearedProps
           /\ kind = "focuser" => /\ "ABS_FOCUS_POSITION" \in Props[kind]
                                  /\ "FOCUS_TEMPERATURE" \in Props[kind]
                                  /\ "FOCUS_MOTION" \in Props[kind]
           /\ "CCD_INFO" \in Props[kind] <=> kind = "camera"
           /\ kind = "camera" => "CCD_INFO" \in ClearedProps
  BY KindsAssumption DEF Props, ClearedProps

\* The invariant's parts are TypeOK and more.
LEMMA TypeFromParts == IInv => TypeOK
<1>1. FlagsOK => {is_connected, is_ready, device_on, asked, again, raced, refused} \subseteq BOOLEAN
  BY DEF FlagsOK
<1>2. QED
  BY <1>1 DEF IInv, ValuesOK, CountsOK, CrashOK, LinkAndCaller, TypeOK

\* Steps that leave the messages and the properties known alone.
LEMMA SameMessages ==
    ASSUME InfoAnnounced, UNCHANGED <<chan, known>>, "CCD_INFO" \in defined' => "CCD_INFO" \in defined
    PROVE  InfoAnnounced'
  BY DEF InfoAnnounced, Announced, Source, Withdrawn

\* Without messages, and with nothing announced, there is nothing to keep.
LEMMA NoMessages ==
    ASSUME chan' = <<>>, defined' = {}
    PROVE  InfoAnnounced'
  BY DEF InfoAnnounced

\* Announced(i) is about the messages before the i-th.
LEMMA AnnouncedBySent ==
    ASSUME ChanOK, NEW m \in Message, chan' = Append(chan, m), UNCHANGED known,
           NEW i \in 1..(Len(chan) + 1), Announced(i)
    PROVE  Announced(i)'
<1>1. /\ Len(chan) \in Nat
      /\ \A j \in 1..Len(chan) : chan'[j] = chan[j]
  BY DEF ChanOK
<1>2. PICK j \in 0..(i - 1) : Source(j) /\ \A k \in (j + 1)..(i - 1) : ~Withdrawn(k)
  BY DEF Announced
<1>3. Source(j)'
  BY <1>1, <1>2 DEF Source
<1>4. \A k \in (j + 1)..(i - 1) : ~Withdrawn(k)'
  BY <1>1, <1>2 DEF Withdrawn
<1>5. QED
  BY <1>3, <1>4 DEF Announced

\* The server sends a message: it updates CCD_INFO only when that is announced, and when it has
\* announced it the message is the announcement or does not withdraw it.
LEMMA SentMessage ==
    ASSUME ChanOK, InfoAnnounced, NEW m \in Message, chan' = Append(chan, m), UNCHANGED <<kind, known>>,
           m.type = "set" /\ m.prop = "CCD_INFO" => "CCD_INFO" \in defined,
           "CCD_INFO" \in defined' =>
               \/ m.type = "def" /\ m.prop = "CCD_INFO"
               \/ /\ "CCD_INFO" \in defined
                  /\ m.type # "delDevice" /\ ~(m.type = "del" /\ m.prop = "CCD_INFO")
    PROVE  ChanOK' /\ InfoAnnounced'
<1>0. PICK n \in Nat : n = Len(chan)
  BY DEF ChanOK
<1>1. /\ n \in Nat /\ Len(chan') = n + 1
      /\ \A j \in 1..n : chan'[j] = chan[j]
      /\ chan'[n + 1] = m
  BY <1>0 DEF ChanOK
<1>2. ChanOK'
  BY DEF ChanOK, Message
<1>3. ASSUME NEW i \in 1..(n + 1), chan'[i].type = "set", chan'[i].prop = "CCD_INFO"
      PROVE  Announced(i)'
  <2>1. Announced(i)
    <3>1. CASE i = n + 1
      BY <3>1, <1>1, <1>3, <1>0 DEF InfoAnnounced
    <3>2. CASE i # n + 1
      BY <3>2, <1>1, <1>3, <1>0 DEF InfoAnnounced
    <3>3. QED
      BY <3>1, <3>2
  <2>2. QED
    BY <2>1, <1>0, AnnouncedBySent
<1>4. ASSUME "CCD_INFO" \in defined' PROVE Announced(n + 2)'
  <2>1. CASE m.type = "def" /\ m.prop = "CCD_INFO"
    <3>1. Source(n + 1)'
      BY <1>1, <2>1 DEF Source
    <3>2. QED
      BY <1>1, <3>1 DEF Announced
  <2>2. CASE /\ "CCD_INFO" \in defined
             /\ m.type # "delDevice" /\ ~(m.type = "del" /\ m.prop = "CCD_INFO")
    <3>1. Announced(n + 1)'
      BY <1>1, <2>2, AnnouncedBySent, <1>0 DEF InfoAnnounced
    <3>2. PICK j \in 0..n : Source(j)' /\ \A k \in (j + 1)..n : ~Withdrawn(k)'
      BY <1>1, <3>1 DEF Announced
    <3>3. ~Withdrawn(n + 1)'
      BY <1>1, <2>2 DEF Withdrawn
    <3>4. \A k \in (j + 1)..(n + 1) : ~Withdrawn(k)'
      BY <1>1, <3>2, <3>3
    <3>5. QED
      BY <1>1, <3>2, <3>4 DEF Announced
  <2>3. QED
    BY <1>4, <2>1, <2>2
<1>5. QED
  BY <1>1, <1>2, <1>3, <1>4, <1>0 DEF InfoAnnounced

\* The listener takes a message: what was announced before a later message still is, by the
\* messages left or by the properties now known.
LEMMA TakenMessage ==
    ASSUME ChanOK, InfoAnnounced, chan # <<>>, chan' = Tail(chan), UNCHANGED <<kind, defined>>,
           Source(1) \/ ("CCD_INFO" \in known /\ ~Withdrawn(1)) => "CCD_INFO" \in known'
    PROVE  ChanOK' /\ InfoAnnounced'
<1>0. PICK n \in Nat : n = Len(chan)
  BY DEF ChanOK
<1>1. /\ n \in Nat \ {0} /\ Len(chan') = n - 1
      /\ \A j \in 1..(n - 1) : chan'[j] = chan[j + 1]
  BY <1>0, HeadTailProperties DEF ChanOK
<1>2. ChanOK'
  BY HeadTailProperties DEF ChanOK, Message
<1>3. ASSUME NEW i \in 1..n, Announced(i + 1)
      PROVE  Announced(i)'
  <2>1. PICK j \in 0..i : Source(j) /\ \A k \in (j + 1)..i : ~Withdrawn(k)
    BY <1>3, <1>1 DEF Announced
  <2>2. \A k \in 1..(i - 1) : Withdrawn(k)' <=> Withdrawn(k + 1)
    BY <1>1 DEF Withdrawn
  <2>3. CASE j \in {0, 1}
    <3>1. Source(0)'
      BY <1>1, <2>1, <2>3 DEF Source
    <3>2. \A k \in 1..(i - 1) : ~Withdrawn(k)'
      BY <1>1, <2>1, <2>2, <2>3
    <3>3. QED
      BY <1>1, <3>1, <3>2 DEF Announced
  <2>4. CASE j \notin {0, 1}
    <3>1. Source(j - 1)'
      BY <1>1, <2>1, <2>4 DEF Source
    <3>2. \A k \in j..(i - 1) : ~Withdrawn(k)'
      BY <1>1, <2>1, <2>2, <2>4
    <3>3. j - 1 \in 0..(i - 1) /\ (j - 1) + 1 = j
      BY <1>1, <2>1, <2>4
    <3>4. QED
      BY <3>1, <3>2, <3>3 DEF Announced
  <2>5. QED
    BY <2>3, <2>4
<1>4. ASSUME NEW i \in 1..(n - 1), chan'[i].type = "set", chan'[i].prop = "CCD_INFO"
      PROVE  Announced(i)'
  BY <1>1, <1>3, <1>4, <1>0 DEF InfoAnnounced
<1>5. "CCD_INFO" \in defined' => Announced(n)'
  BY <1>1, <1>3, <1>0 DEF InfoAnnounced
<1>6. QED
  BY <1>1, <1>2, <1>4, <1>5, <1>0 DEF InfoAnnounced

\* The message that makes is_connected true, when one is sent and when one is taken.
LEMMA OnSent ==
    ASSUME ChanOK, NEW m \in Message, chan' = Append(chan, m)
    PROVE  /\ OnComing => OnComing'
           /\ IsOn(m) => OnComing'
<1>1. /\ Len(chan) \in Nat /\ Len(chan') = Len(chan) + 1
      /\ \A j \in 1..Len(chan) : chan'[j] = chan[j]
      /\ chan'[Len(chan')] = m
  BY DEF ChanOK
<1>2. QED
  BY <1>1 DEF OnComing

\* See OnSent.
LEMMA OnTaken ==
    ASSUME ChanOK, chan # <<>>, chan' = Tail(chan), OnComing, ~IsOn(chan[1])
    PROVE  OnComing'
<1>1. /\ Len(chan) \in Nat \ {0} /\ Len(chan') = Len(chan) - 1
      /\ \A j \in 1..(Len(chan) - 1) : chan'[j] = chan[j + 1]
  BY HeadTailProperties DEF ChanOK
<1>2. PICK i \in 1..Len(chan) : IsOn(chan[i])
  BY DEF OnComing
<1>3. i # 1
  BY <1>2
<1>4. i - 1 \in 1..Len(chan') /\ chan'[i - 1] = chan[i]
  BY <1>1, <1>3
<1>5. QED
  BY <1>2, <1>4 DEF OnComing

\* A step of the caller leaves the messages and the properties announced and known alone.
LEMMA QuietStep ==
    ASSUME ChanOK, InfoAnnounced, UNCHANGED <<kind, chan, known, defined>>
    PROVE  ChanOK' /\ InfoAnnounced' /\ (OnComing' <=> OnComing)
<1>1. InfoAnnounced'
  BY SameMessages
<1>2. QED
  BY <1>1 DEF ChanOK, Message, OnComing
-----------------------------------------------------------------------------
\* Initially the invariant holds.
LEMMA InitInv == Init => IInv
<1> SUFFICES ASSUME Init PROVE IInv
  OBVIOUS
<1> USE DEF Init
<1>1. FlagsOK
  BY Zenon DEF FlagsOK
<1>2. ChanOK /\ InfoAnnounced
  BY DEF ChanOK, InfoAnnounced
<1>3. CountsOK
  BY BoundsAssumption DEF CountsOK
<1>4. ValuesOK
  BY DEF ValuesOK, Pointer, Props
<1>5. MotionUnassigned
  BY DEF MotionUnassigned, Props
<1>6. QED
  BY <1>1, <1>2, <1>3, <1>4, <1>5
  DEF IInv, CrashOK, LinkAndCaller, OnComes, CheckedPointers, KnownInfo, SessionEndsClean,
      CrashHasCause, Alive

\* The caller's steps keep the invariant.
LEMMA CallerInv ==
    ASSUME IInv,
           \/ CallerStep \/ Connect \/ MoveToAbsolute \/ GetTemperature
           \/ \E re \in BOOLEAN : Disconnect(re)
    PROVE  IInv'
<1> USE DEF IInv, ValuesOK, CountsOK, CrashOK, MotionUnassigned, LinkAndCaller, OnComes, CheckedPointers, KnownInfo,
            SessionEndsClean, CrashHasCause, CrashCause, ClearedProps, Pointer, Alive, driver, server, caller
<1>1. CASE Connect
  <2>1. FlagsOK'
    BY <1>1, Zenon DEF FlagsOK, Connect, Call
  <2>2. ChanOK' /\ InfoAnnounced' /\ (OnComing' <=> OnComing)
    BY <1>1, QuietStep DEF Connect, Call
  <2>3. QED
    BY <1>1, <2>1, <2>2, DriverProps, BoundsAssumption DEF Connect, Call
<1>2. CASE MoveToAbsolute
  <2>1. FlagsOK'
    BY <1>2, Zenon DEF FlagsOK, MoveToAbsolute, Call
  <2>2. ChanOK' /\ InfoAnnounced' /\ (OnComing' <=> OnComing)
    BY <1>2, QuietStep DEF MoveToAbsolute, Call
  <2>3. QED
    BY <1>2, <2>1, <2>2, DriverProps, BoundsAssumption DEF MoveToAbsolute, Call
<1>3. CASE GetTemperature
  <2>1. FlagsOK'
    BY <1>3, Zenon DEF FlagsOK, GetTemperature, Call
  <2>2. ChanOK' /\ InfoAnnounced' /\ (OnComing' <=> OnComing)
    BY <1>3, QuietStep DEF GetTemperature, Call
  <2>3. QED
    BY <1>3, <2>1, <2>2, DriverProps, BoundsAssumption DEF GetTemperature, Call
<1>4. CASE Check
  <2>1. FlagsOK'
    BY <1>4, Zenon DEF FlagsOK, Check, At
  <2>2. ChanOK' /\ InfoAnnounced' /\ (OnComing' <=> OnComing)
    BY <1>4, QuietStep DEF Check, At
  <2>3. QED
    BY <1>4, <2>1, <2>2, DriverProps, BoundsAssumption DEF Check, At, AfterCheck
<1>5. CASE Connected
  <2>1. FlagsOK'
    BY <1>5, Zenon DEF FlagsOK, Connected, At
  <2>2. ChanOK' /\ InfoAnnounced' /\ (OnComing' <=> OnComing)
    BY <1>5, QuietStep DEF Connected, At
  <2>3. QED
    BY <1>5, <2>1, <2>2, DriverProps, BoundsAssumption DEF Connected, At
<1>6. CASE NotConnected
  <2>1. FlagsOK'
    BY <1>6, Zenon DEF FlagsOK, NotConnected, At
  <2>2. ChanOK' /\ InfoAnnounced' /\ (OnComing' <=> OnComing)
    BY <1>6, QuietStep DEF NotConnected, At
  <2>3. QED
    BY <1>6, <2>1, <2>2, DriverProps, BoundsAssumption DEF NotConnected, At
<1>7. CASE IndiServerConnected
  <2>1. FlagsOK'
    BY <1>7, Zenon DEF FlagsOK, IndiServerConnected, At
  <2>2. ChanOK' /\ InfoAnnounced' /\ (OnComing' <=> OnComing)
    BY <1>7, QuietStep DEF IndiServerConnected, At
  <2>3. QED
    BY <1>7, <2>1, <2>2, DriverProps, BoundsAssumption DEF IndiServerConnected, At
<1>8. CASE ConnectDevice
  <2>1. FlagsOK'
    BY <1>8, Zenon DEF FlagsOK, ConnectDevice, At
  <2>2. ChanOK' /\ InfoAnnounced' /\ (OnComing' <=> OnComing)
    BY <1>8, QuietStep DEF ConnectDevice, At
  <2>3. QED
    BY <1>8, <2>1, <2>2, DriverProps, BoundsAssumption DEF ConnectDevice, At
<1>9. CASE ConnectFlag
  <2>1. FlagsOK'
    BY <1>9, Zenon DEF FlagsOK, ConnectFlag, At
  <2>2. ChanOK' /\ InfoAnnounced' /\ (OnComing' <=> OnComing)
    BY <1>9, QuietStep DEF ConnectFlag, At
  <2>3. QED
    BY <1>9, <2>1, <2>2, DriverProps, BoundsAssumption DEF ConnectFlag, At
<1>10. CASE Joined
  <2>1. FlagsOK'
    BY <1>10, Zenon DEF FlagsOK, Joined, At
  <2>2. ChanOK' /\ InfoAnnounced' /\ (OnComing' <=> OnComing)
    BY <1>10, QuietStep DEF Joined, At
  <2>3. QED
    BY <1>10, <2>1, <2>2, DriverProps, BoundsAssumption DEF Joined, At
<1>11. CASE DisconnectFlag
  <2>1. FlagsOK'
    BY <1>11, Zenon DEF FlagsOK, DisconnectFlag, At, AfterDisconnect
  <2>2. ChanOK' /\ InfoAnnounced' /\ (OnComing' <=> OnComing)
    BY <1>11, QuietStep DEF DisconnectFlag, At, AfterDisconnect
  <2>3. QED
    BY <1>11, <2>1, <2>2, DriverProps, BoundsAssumption DEF DisconnectFlag, At, AfterDisconnect
<1>12. CASE WritePosition
  <2>1. FlagsOK'
    BY <1>12, Zenon DEF FlagsOK, WritePosition, At, Use, Deref
  <2>2. ChanOK' /\ InfoAnnounced' /\ (OnComing' <=> OnComing)
    BY <1>12, QuietStep DEF WritePosition, At, Use, Deref
  <2>3. QED
    BY <1>12, <2>1, <2>2, DriverProps, BoundsAssumption DEF WritePosition, At, Use, Deref
<1>13. CASE SendPosition
  <2>1. FlagsOK'
    BY <1>13, Zenon DEF FlagsOK, SendPosition, At, Use, Deref
  <2>2. ChanOK' /\ InfoAnnounced' /\ (OnComing' <=> OnComing)
    BY <1>13, QuietStep DEF SendPosition, At, Use, Deref
  <2>3. QED
    BY <1>13, <2>1, <2>2, DriverProps, BoundsAssumption DEF SendPosition, At, Use, Deref
<1>14. CASE ReadTemperature
  <2>1. FlagsOK'
    BY <1>14, Zenon DEF FlagsOK, ReadTemperature, At, Use, Deref
  <2>2. ChanOK' /\ InfoAnnounced' /\ (OnComing' <=> OnComing)
    BY <1>14, QuietStep DEF ReadTemperature, At, Use, Deref
  <2>3. QED
    BY <1>14, <2>1, <2>2, DriverProps, BoundsAssumption DEF ReadTemperature, At, Use, Deref
<1>15. ASSUME NEW re \in BOOLEAN, Disconnect(re) PROVE IInv'
  <2>1. FlagsOK'
    BY <1>15, Zenon DEF FlagsOK, Disconnect, Call, AfterDisconnect
  <2>2. ChanOK' /\ InfoAnnounced' /\ (OnComing' <=> OnComing)
    BY <1>15, QuietStep DEF Disconnect, Call, AfterDisconnect
  <2>3. QED
    BY <1>15, <2>1, <2>2, DriverProps, BoundsAssumption DEF Disconnect, Call, AfterDisconnect
<1>16. QED
  BY <1>1, <1>2, <1>3, <1>4, <1>5, <1>6, <1>7, <1>8, <1>9, <1>10, <1>11, <1>12, <1>13, <1>14, <1>15 DEF CallerStep

\* What Send() leaves of the messages.
LEMMA ServerSends ==
    ASSUME ChanOK, InfoAnnounced, UNCHANGED <<kind, known>>,
           NEW type \in {"def", "set", "del", "delDevice"}, NEW p \in Props[kind], NEW on \in BOOLEAN,
           Send(type, p, on),
           type = "set" /\ p = "CCD_INFO" => "CCD_INFO" \in defined,
           "CCD_INFO" \in defined' =>
               \/ type = "def" /\ p = "CCD_INFO"
               \/ /\ "CCD_INFO" \in defined
                  /\ type # "delDevice" /\ ~(type = "del" /\ p = "CCD_INFO")
    PROVE  /\ ChanOK' /\ InfoAnnounced'
           /\ OnComing => OnComing'
           /\ type \in {"def", "set"} /\ p = "CONNECTION" /\ on => OnComing'
<1>1. PICK m \in Message : m = [type |-> type, prop |-> p, on |-> on]
  BY DEF Message
<1>2. m.type = type /\ m.prop = p /\ m.on = on
  BY <1>1
<1>3. chan' = Append(chan, m)
  BY <1>1 DEF Send
<1>4. ChanOK' /\ InfoAnnounced'
  BY <1>2, <1>3, SentMessage
<1>5. QED
  BY <1>2, <1>3, <1>4, OnSent DEF IsOn

\* So does Announce(), whether or not it sends.
LEMMA Announces ==
    ASSUME ChanOK, InfoAnnounced, UNCHANGED <<kind, known, defined>>, kind \in Kinds,
           NEW on \in BOOLEAN, Announce(on)
    PROVE  /\ ChanOK' /\ InfoAnnounced'
           /\ OnComing => OnComing'
           /\ link = "up" /\ "CONNECTION" \in defined /\ on => OnComing'
<1>1. CASE link = "up" /\ "CONNECTION" \in defined
  <2>1. Send("set", "CONNECTION", on)
    BY <1>1 DEF Announce
  <2>2. QED
    BY <2>1, ServerSends, DriverProps
<1>2. CASE ~(link = "up" /\ "CONNECTION" \in defined)
  BY <1>2, QuietStep DEF Announce
<1>3. QED
  BY <1>1, <1>2

\* The server's steps keep the invariant.
LEMMA ServerInv ==
    ASSUME IInv, Server
    PROVE  IInv'
<1> USE DEF IInv, ValuesOK, CountsOK, CrashOK, MotionUnassigned, LinkAndCaller, OnComes, CheckedPointers, KnownInfo,
            SessionEndsClean, CrashHasCause, CrashCause, ClearedProps, Pointer, Alive, Event, driver, server, caller
<1> USE DriverProps, BoundsAssumption
<1>1. ASSUME NEW p \in Props[kind], Define(p) PROVE IInv'
  <2>1. FlagsOK'
    BY <1>1, Zenon DEF FlagsOK, Define
  <2>2. ChanOK' /\ InfoAnnounced' /\ (OnComing => OnComing')
        /\ (p = "CONNECTION" /\ device_on => OnComing')
    BY <1>1, ServerSends DEF Define, FlagsOK
  <2>3. QED
    BY <1>1, <2>1, <2>2 DEF Define
<1>2. ASSUME NEW p \in Props[kind], NEW type \in {"set", "del"}, Update(type, p) PROVE IInv'
  <2>1. FlagsOK'
    BY <1>2, Zenon DEF FlagsOK, Update
  <2>2. Send(type, p, FALSE) /\ p \in defined /\ UNCHANGED <<kind, known>>
    BY <1>2, Zenon DEF Update
  <2>3. ChanOK' /\ InfoAnnounced' /\ (OnComing => OnComing')
    <3>1. CASE type = "set"
      <4>1. Send("set", p, FALSE) /\ UNCHANGED defined
        BY <1>2, <3>1, Zenon DEF Update
      <4>2. ChanOK /\ InfoAnnounced /\ p \in Props[kind] /\ "set" \in {"def", "set", "del", "delDevice"}
        BY <1>2
      <4> HIDE DEF IInv
      <4>3. QED
        BY <2>2, <4>1, <4>2, ServerSends
    <3>2. CASE type = "del"
      BY <1>2, <2>2, <3>2, ServerSends DEF Update
    <3>3. QED
      BY <3>1, <3>2
  <2>4. QED
    BY <1>2, <2>1, <2>3 DEF Update
<1>3. CASE DeleteDevice
  <2>1. FlagsOK'
    BY <1>3, Zenon DEF FlagsOK, DeleteDevice
  <2>2. ChanOK' /\ InfoAnnounced'
    BY <1>3, ServerSends DEF DeleteDevice
  <2>3. QED
    BY <1>3, <2>1, <2>2 DEF DeleteDevice
<1>4. CASE Switch
  <2>1. FlagsOK'
    BY <1>4, Zenon DEF FlagsOK, Switch
  <2>2. /\ ChanOK' /\ InfoAnnounced' /\ (OnComing => OnComing')
        /\ link = "up" /\ "CONNECTION" \in defined /\ device_on' => OnComing'
    BY <1>4, <2>1, Announces DEF Switch, FlagsOK
  <2>3. QED
    BY <1>4, <2>1, <2>2 DEF Switch
<1>5. CASE Serve
  <2>1. FlagsOK'
    BY <1>5, Zenon DEF FlagsOK, Serve
  <2>2. /\ ChanOK' /\ InfoAnnounced' /\ (OnComing => OnComing')
        /\ link = "up" /\ "CONNECTION" \in defined /\ device_on' => OnComing'
    BY <1>5, <2>1, Announces DEF Serve, FlagsOK
  <2>3. QED
    BY <1>5, <2>1, <2>2 DEF Serve
<1>6. CASE ServerLost
  <2>1. FlagsOK'
    BY <1>6, Zenon DEF FlagsOK, ServerLost
  <2>2. ChanOK' /\ InfoAnnounced'
    BY <1>6, NoMessages DEF ServerLost, ChanOK
  <2>3. QED
    BY <1>6, <2>1, <2>2 DEF ServerLost, Freed
<1>7. QED
  BY <1>1, <1>2, <1>3, <1>4, <1>5, <1>6 DEF Server

\* What a message taken leaves of the others.
LEMMA ListenerTakes ==
    ASSUME ChanOK, InfoAnnounced, UNCHANGED <<kind, defined>>, chan # <<>>, chan' = Tail(chan)
    PROVE  LET m == Head(chan) IN
           /\ m \in Message
           /\ m.type = "set" /\ m.prop = "CCD_INFO" => "CCD_INFO" \in known
           /\ ("CCD_INFO" \in known' <=>
                  \/ m.type = "def" /\ m.prop = "CCD_INFO"
                  \/ /\ "CCD_INFO" \in known
                     /\ m.type # "delDevice" /\ ~(m.type = "del" /\ m.prop = "CCD_INFO"))
              => ChanOK' /\ InfoAnnounced'
           /\ OnComing /\ ~IsOn(m) => OnComing'
<1>1. PICK m \in Message : m = Head(chan)
  BY HeadTailProperties DEF ChanOK
<1>2. Len(chan) \in Nat \ {0} /\ chan[1] = m
  BY <1>1 DEF ChanOK
<1>3. m.type = "set" /\ m.prop = "CCD_INFO" => "CCD_INFO" \in known
  <2>1. Announced(1) => "CCD_INFO" \in known
    BY DEF Announced, Source
  <2>2. QED
    BY <1>2, <2>1 DEF InfoAnnounced
<1>4. /\ Source(1) <=> m.type = "def" /\ m.prop = "CCD_INFO"
      /\ Withdrawn(1) <=> m.type = "delDevice" \/ (m.type = "del" /\ m.prop = "CCD_INFO")
  BY <1>2 DEF Source, Withdrawn
<1>5. OnComing /\ ~IsOn(m) => OnComing'
  BY <1>2, OnTaken
<1>6. QED
  BY <1>1, <1>3, <1>4, <1>5, TakenMessage

\* The listener's steps keep the invariant.
LEMMA ListenerInv ==
    ASSUME IInv, Listener
    PROVE  IInv'
<1> USE DEF IInv, ValuesOK, CountsOK, CrashOK, MotionUnassigned, LinkAndCaller, OnComes, CheckedPointers, KnownInfo,
            SessionEndsClean, CrashHasCause, CrashCause, ClearedProps, Pointer, Alive, driver, server, caller
<1> USE DriverProps, BoundsAssumption
<1>1. CASE ServerDisconnected
  <2>1. FlagsOK'
    BY <1>1, Zenon DEF FlagsOK, ServerDisconnected, ClearStatus
  <2>2. ChanOK' /\ InfoAnnounced'
    BY <1>1, NoMessages DEF ServerDisconnected, ChanOK
  <2>3. QED
    BY <1>1, <2>1, <2>2 DEF ServerDisconnected, ClearStatus
<1>2. CASE Receive
  <2> DEFINE m == Head(chan)
  <2>1. /\ UNCHANGED <<kind, is_ready, link, server, asked, caller, events, refused>>
        /\ Alive /\ chan # <<>> /\ chan' = Tail(chan) /\ link \in {"up", "closing"}
    BY <1>2 DEF Receive
  <2>2. /\ m \in Message
        /\ m.type = "set" /\ m.prop = "CCD_INFO" => "CCD_INFO" \in known
        /\ ("CCD_INFO" \in known' <=>
               \/ m.type = "def" /\ m.prop = "CCD_INFO"
               \/ /\ "CCD_INFO" \in known
                  /\ m.type # "delDevice" /\ ~(m.type = "del" /\ m.prop = "CCD_INFO"))
           => ChanOK' /\ InfoAnnounced'
        /\ OnComing /\ ~IsOn(m) => OnComing'
    BY <2>1, ListenerTakes
  <2>3. m.prop \in Props[kind] /\ m.on \in BOOLEAN
    BY <2>2 DEF Message
  <2>4. \/ m.type = "def" /\ NewProperty(m.prop, m.on) /\ known' = known \cup {m.prop}
        \/ m.type = "set" /\ m.prop = "CONNECTION" /\ NewSwitch(m.on) /\ UNCHANGED known
        \/ m.type = "set" /\ m.prop # "CONNECTION" /\ NewNumber(m.prop) /\ UNCHANGED known
        \/ m.type = "del" /\ RemoveProperty(m.prop) /\ known' = known \ {m.prop}
        \/ m.type = "delDevice" /\ RemoveDevice /\ known' = {}
    BY <1>2 DEF Receive
  <2> HIDE DEF m
  <2>5. CASE m.type = "def" /\ m.prop = "CONNECTION" /\ NewConnection(m.on) /\ known' = known \cup {m.prop}
    <3>1. FlagsOK'
      BY <2>1, <2>3, <2>5, Zenon DEF FlagsOK, NewConnection
    <3>2. QED
      BY <2>1, <2>2, <2>3, <2>5, <3>1 DEF NewConnection, Find, Assign, IsOn, FlagsOK
  <2>6. CASE /\ m.type = "def" /\ m.prop # "CONNECTION" /\ kind = "focuser"
             /\ NewFocuserProperty(m.prop) /\ known' = known \cup {m.prop}
    <3>1. FlagsOK'
      BY <2>1, <2>6, Zenon DEF FlagsOK, NewFocuserProperty
    <3>2. QED
      BY <2>1, <2>2, <2>3, <2>6, <3>1 DEF NewFocuserProperty, Assign, Deref, IsOn
  <2>7. CASE /\ m.type = "def" /\ m.prop # "CONNECTION" /\ kind # "focuser"
             /\ NewDeviceProperty(m.prop) /\ known' = known \cup {m.prop}
    <3>1. FlagsOK'
      BY <2>1, <2>7, Zenon DEF FlagsOK, NewDeviceProperty
    <3>2. QED
      BY <2>1, <2>2, <2>3, <2>7, <3>1 DEF NewDeviceProperty, Find, Assign, IsOn
  <2>8. CASE m.type = "set" /\ m.prop = "CONNECTION" /\ NewSwitch(m.on) /\ UNCHANGED known
    <3>1. FlagsOK'
      BY <2>1, <2>3, <2>8, Zenon DEF FlagsOK, NewSwitch, ClearStatus
    <3>2. QED
      BY <2>1, <2>2, <2>3, <2>8, <3>1 DEF NewSwitch, Find, ClearStatus, IsOn, FlagsOK
  <2>9. CASE m.type = "set" /\ m.prop # "CONNECTION" /\ NewNumber(m.prop) /\ UNCHANGED known
    <3>1. FlagsOK'
      BY <2>1, <2>9, Zenon DEF FlagsOK, NewNumber
    <3>2. QED
      BY <2>1, <2>2, <2>3, <2>9, <3>1
      DEF NewNumber, NewCameraNumber, NewFocuserNumber, Find, Deref, IsOn
  <2>10. CASE m.type = "del" /\ RemoveProperty(m.prop) /\ known' = known \ {m.prop}
    <3>1. FlagsOK'
      BY <2>1, <2>10, Zenon DEF FlagsOK, RemoveProperty
    <3>2. QED
      BY <2>1, <2>2, <2>3, <2>10, <3>1 DEF RemoveProperty, Freed, IsOn
  <2>11. CASE m.type = "delDevice" /\ RemoveDevice /\ known' = {}
    <3>1. FlagsOK'
      BY <2>1, <2>11, Zenon DEF FlagsOK, RemoveDevice, ClearStatus
    <3>2. QED
      BY <2>1, <2>2, <2>3, <2>11, <3>1 DEF RemoveDevice, ClearStatus, IsOn
  <2>12. QED
    BY <2>4, <2>5, <2>6, <2>7, <2>8, <2>9, <2>10, <2>11 DEF NewProperty
<1>3. CASE AskToConnect
  <2>1. FlagsOK'
    BY <1>3, Zenon DEF FlagsOK, AskToConnect
  <2>2. ChanOK' /\ InfoAnnounced' /\ (OnComing' <=> OnComing)
    BY <1>3, QuietStep DEF AskToConnect
  <2>3. QED
    BY <1>3, <2>1, <2>2 DEF AskToConnect, FlagsOK
<1>4. QED
  BY <1>1, <1>2, <1>3 DEF Listener

\* The invariant is inductive.
LEMMA NextInv == IInv /\ [Next]_vars => IInv'
<1> SUFFICES ASSUME IInv, [Next]_vars PROVE IInv'
  OBVIOUS
<1>1. CASE UNCHANGED vars
  <2>1. ChanOK' /\ InfoAnnounced' /\ (OnComing' <=> OnComing)
    BY <1>1, QuietStep DEF IInv, vars, driver, server
  <2>2. FlagsOK'
    BY <1>1, Zenon DEF IInv, FlagsOK, vars, driver, server, caller
  <2>3. QED
    BY <1>1, <2>1, <2>2
    DEF IInv, ValuesOK, CountsOK, CrashOK, MotionUnassigned, LinkAndCaller, OnComes, CheckedPointers, KnownInfo,
        SessionEndsClean, CrashHasCause, ClearedProps, Alive, vars, driver, server, caller
<1>2. CASE Next
  BY <1>2, ServerInv, ListenerInv, CallerInv DEF Next
<1>3. QED
  BY <1>1, <1>2
-----------------------------------------------------------------------------
\* The types are kept, and a link is half closed only while disconnect() waits for the listener.
THEOREM TypeCorrect == Spec => []TypeOK
<1>1. IInv /\ [Next]_vars => IInv'
  BY NextInv
<1>2. QED
  BY <1>1, InitInv, TypeFromParts, PTL DEF Spec

\* ServerDisconnected() leaves no pointer of ClearStatus() to a property of the ended session,
\* and disconnect() no is_connected, whatever the listener still had to handle.
THEOREM SessionsEndClean == Spec => []SessionEndsClean
<1>1. IInv => SessionEndsClean
  BY DEF IInv
<1>2. IInv /\ [Next]_vars => IInv'
  BY NextInv
<1>3. QED
  BY <1>1, <1>2, InitInv, PTL DEF Spec

\* is_connected is true of a connected device once newProperty() and newSwitch() have handled
\* what was sent, however they interleave with connect(), unless connect() was refused.
THEOREM DeviceIsSeen == Spec => []ConnectedDeviceIsSeen
<1>1. IInv => ConnectedDeviceIsSeen
  BY DEF IInv, OnComes, OnComing, ConnectedDeviceIsSeen
<1>2. IInv /\ [Next]_vars => IInv'
  BY NextInv
<1>3. QED
  BY <1>1, <1>2, InitInv, PTL DEF Spec

\* Of null and dangling pointers, the caller's null comes from ClearStatus() between its check
\* and its use, and the listener dies only of FOCUS_MOTION's pointers, which nothing assigns, and
\* of a CCD_INFO that newSwitch() cleared on a ready camera.
THEOREM CrashesHaveCauses == Spec => []CrashHasCause
<1>1. IInv => CrashHasCause
  BY DEF IInv
<1>2. IInv /\ [Next]_vars => IInv'
  BY NextInv
<1>3. QED
  BY <1>1, <1>2, InitInv, PTL DEF Spec
=============================================================================
