----------------------------- MODULE IndiDriver -----------------------------
(***************************************************************************)
(* One of the four INDI drivers (INDICamera, INDIFocuser, INDITelescope,   *)
(* INDIFilterwheel) on top of OpenAptIndiClient.  Two threads share its    *)
(* members without a lock: the caller of connect(), disconnect(),          *)
(* reconnect(), moveToAbsolute() and getTemperature(), and the listener    *)
(* thread of libindi, which calls newProperty(), newSwitch(), newNumber(), *)
(* removeDevice() and serverDisconnected() for the messages it receives.   *)
(* libindi and the INDI server are external: messages arrive in order, a   *)
(* property is updated or deleted only after it was defined, connectServer *)
(* fails on a link that is open already, and disconnectServer joins the    *)
(* listener, whose last callback is serverDisconnected().                  *)
(***************************************************************************)
EXTENDS Naturals, Sequences

CONSTANTS Kinds,     \* the drivers to check
          MaxCalls,  \* bound, for each driver: calls of its methods
          MaxEvents  \* bound, for each driver: messages and changes of state of the device

Props == [camera      |-> {"CONNECTION", "CCD_INFO", "STREAM_DELAY"},
          focuser     |-> {"CONNECTION", "ABS_FOCUS_POSITION", "FOCUS_TEMPERATURE", "FOCUS_MOTION"},
          telescope   |-> {"CONNECTION", "INFO", "DEVICE_BAUD_RATE"},
          filterwheel |-> {"CONNECTION", "INFO", "DEVICE_BAUD_RATE"}]

ASSUME KindsAssumption == Kinds \subseteq DOMAIN Props
ASSUME BoundsAssumption == MaxCalls \in [Kinds -> Nat] /\ MaxEvents \in [Kinds -> Nat]

VARIABLES kind,
          is_connected,
          is_ready,   \* declared, read, and assigned nowhere
          lpc,        \* whether the listener is inside newProperty() for CONNECTION
          ptr,        \* the driver's pointer to each property of the device
          link,       \* "never", "up", "closing", "closed", "gone" or "lost"
          known,      \* the properties that libindi holds
          chan,       \* the messages on their way to the listener
          device_on,  \* whether the driver at the server is connected to its device
          defined,    \* the properties that the server has announced
          asked,      \* whether a request to switch CONNECTION on is on its way
          pc,         \* where the caller is
          again,      \* whether the call is reconnect()
          calls, events,
          crash,      \* <<>>, or who dereferenced which bad pointer or missing element
          raced,      \* history: ClearStatus() has run since the caller looked at a pointer
          refused     \* history: connect() has failed because the link was open already

driver == <<kind, is_ready, lpc>>
server == <<device_on, defined>>
caller == <<pc, again, calls>>
vars   == <<driver, is_connected, ptr, link, known, chan, server, asked, caller, events,
            crash, raced, refused>>

Pointer == {"null", "valid", "stale", "wild"}

CrashCause == {"null", "stale", "wild", "element"}

\* The pointers that ClearStatus() sets to null: all but the camera's three of its video.
ClearedProps == Props[kind] \ {"STREAM_DELAY"}

\* No member is initialised by a constructor.
Init == /\ kind \in Kinds
        /\ is_connected \in BOOLEAN
        /\ is_ready \in BOOLEAN
        /\ lpc = "idle"
        /\ ptr \in {[p \in Props[kind] |-> v] : v \in {"null", "wild"}}
        /\ link = "never"
        /\ known = {} /\ defined = {}
        /\ chan = <<>>
        /\ device_on \in BOOLEAN
        /\ asked = FALSE
        /\ pc = "idle" /\ again = FALSE
        /\ calls = 0 /\ events = 0
        /\ crash = <<>>
        /\ raced = FALSE /\ refused = FALSE

Alive == crash = <<>>
-----------------------------------------------------------------------------
(* The server and the device (external). *)

Event == /\ Alive
         /\ events < MaxEvents[kind]
         /\ events' = events + 1

Send(type, p, on) == chan' = Append(chan, [type |-> type, prop |-> p, on |-> on])

\* A property is announced: with CONNECTION goes the state of its switch.
Define(p) ==
    /\ Event /\ link = "up"
    /\ p \in Props[kind] \ defined
    /\ defined' = defined \cup {p}
    /\ Send("def", p, device_on)
    /\ UNCHANGED <<driver, is_connected, ptr, link, known, device_on, asked, caller, crash, raced, refused>>

\* A number of a defined property changes, or the property is deleted.
Update(type, p) ==
    /\ Event /\ link = "up"
    /\ p \in defined \ {"CONNECTION"}
    /\ defined' = IF type = "del" THEN defined \ {p} ELSE defined
    /\ Send(type, p, FALSE)
    /\ UNCHANGED <<driver, is_connected, ptr, link, known, device_on, asked, caller, crash, raced, refused>>

\* The device is deleted with all of its properties.
DeleteDevice ==
    /\ Event /\ link = "up"
    /\ defined # {}
    /\ defined' = {}
    /\ Send("delDevice", "CONNECTION", FALSE)
    /\ UNCHANGED <<driver, is_connected, ptr, link, known, device_on, asked, caller, crash, raced, refused>>

Announce(on) ==
    IF link = "up" /\ "CONNECTION" \in defined THEN Send("set", "CONNECTION", on) ELSE UNCHANGED chan

\* Somebody else connects or disconnects the device.
Switch ==
    /\ Event
    /\ device_on' = ~device_on
    /\ Announce(device_on')
    /\ UNCHANGED <<driver, is_connected, ptr, link, known, defined, asked, caller, crash, raced, refused>>

\* The server serves the request to connect, with or without success, and answers.
Serve ==
    /\ Alive /\ asked
    /\ asked' = FALSE
    /\ device_on' \in {device_on, TRUE}
    /\ Announce(device_on')
    /\ UNCHANGED <<driver, is_connected, ptr, link, known, defined, caller, events, crash, raced, refused>>

Freed(ps) == [p \in Props[kind] |-> IF p \in ps /\ ptr[p] = "valid" THEN "stale" ELSE ptr[p]]

\* The server goes away: the listener notices between two callbacks, what is on its way is
\* lost and libindi frees the properties.
ServerLost ==
    /\ Event /\ link = "up" /\ lpc = "idle"
    /\ link' = "gone"
    /\ ptr' = Freed(known)
    /\ known' = {} /\ defined' = {}
    /\ chan' = <<>>
    /\ asked' = FALSE
    /\ UNCHANGED <<driver, is_connected, device_on, caller, crash, raced, refused>>
-----------------------------------------------------------------------------
(* The listener thread. *)

\* Mutant: one pointer is forgotten.
ClearStatusPartly ==
    /\ ptr' = [p \in Props[kind] |-> IF p = "CONNECTION" THEN "null" ELSE ptr[p]]
    /\ raced' = TRUE

\* The pointers are set to null; is_connected is not touched.
ClearStatus ==
    /\ ptr' = [p \in Props[kind] |-> IF p \in ClearedProps THEN "null" ELSE ptr[p]]
    /\ raced' = TRUE

Assign(p) == ptr' = [ptr EXCEPT ![p] = "valid"]

\* Who dereferences ptr[p]: null ends the process, a dangling or uninitialised pointer may.
Deref(who, p) ==
    \/ ptr[p] # "valid" /\ crash' = <<who, p, ptr[p]>>
    \/ ptr[p] # "null" /\ UNCHANGED crash

\* An element is looked up in p by name and used unchecked; the server may not have sent it.
Find(p) == UNCHANGED crash \/ crash' = <<"listener", p, "element">>

\* newProperty() for CONNECTION: the flag follows the device.  The focuser alone checks that
\* there is a CONNECT, and takes a missing one for off.
NewConnection(on) ==
    /\ Assign("CONNECTION")
    /\ is_connected' = on
    /\ lpc' = "connection"
    /\ IF kind = "focuser" THEN UNCHANGED crash ELSE Find("CONNECTION")
    /\ UNCHANGED raced

\* Its end: the flag is read again, and the device is asked to connect if it is off by now.
AskToConnect ==
    /\ Alive
    /\ lpc = "connection"
    /\ lpc' = "idle"
    /\ asked' = (asked \/ ~is_connected)
    /\ UNCHANGED <<kind, is_ready, is_connected, ptr, link, known, chan, server, caller, events,
                   crash, raced, refused>>

\* INDIFocuser::newProperty() drops a number without an element FOCUS_ABSOLUTE_POSITION, and
\* looks FOCUS_MOTION and FOCUS_BACKLASH_TOGGLE up in pointers that nothing assigns.
NewFocuserProperty(p) ==
    /\ \/ p = "FOCUS_MOTION" /\ Deref("listener", p) /\ UNCHANGED ptr
       \/ p # "FOCUS_MOTION" /\ Assign(p) /\ UNCHANGED crash
       \/ p # "FOCUS_MOTION" /\ UNCHANGED <<ptr, crash>>
    /\ UNCHANGED <<is_connected, lpc, raced>>

\* The other drivers keep the pointer and read the values through it, but for INFO, which the
\* telescope and the filter wheel only log.
NewDeviceProperty(p) ==
    /\ Assign(p)
    /\ IF p = "INFO" THEN UNCHANGED crash ELSE Find(p)
    /\ UNCHANGED <<is_connected, lpc, raced>>

NewProperty(p, on) ==
    \/ p = "CONNECTION" /\ NewConnection(on)
    \/ p # "CONNECTION" /\ kind = "focuser" /\ NewFocuserProperty(p)
    \/ p # "CONNECTION" /\ kind # "focuser" /\ NewDeviceProperty(p)

\* Mutant: the device's disconnection clears the pointers whatever is_ready says.
NewSwitchClears(on) ==
    /\ IF on
         THEN is_connected' = TRUE /\ UNCHANGED <<ptr, raced>>
         ELSE ClearStatus /\ UNCHANGED is_connected
    /\ UNCHANGED <<lpc, crash>>

\* Mutant: the flag is set only on a driver that is ready.
NewSwitchReady(on) ==
    /\ is_connected' = (is_connected \/ (on /\ is_ready))
    /\ IF ~on /\ is_ready THEN ClearStatus ELSE UNCHANGED <<ptr, raced>>
    /\ UNCHANGED <<lpc, crash>>

\* newSwitch() for CONNECTION: a disconnection leaves is_connected as it is.
NewSwitch(on) ==
    /\ is_connected' = (is_connected \/ on)
    /\ IF ~on /\ is_ready THEN ClearStatus ELSE UNCHANGED <<ptr, raced>>
    /\ Find("CONNECTION")
    /\ UNCHANGED lpc

\* INDICamera::newNumber() reads CCD_INFO through the driver's own pointer.
NewCameraNumber(p) ==
    \/ p = "CCD_INFO" /\ Deref("listener", p)
    \/ (p = "CCD_INFO" => ptr[p] # "null") /\ Find(p)

\* INDIFocuser::newNumber() looks for an element CCD_TEMPERATURE_VALUE in its temperature.
NewFocuserNumber(p) ==
    IF p = "FOCUS_TEMPERATURE" /\ ptr[p] = "valid" THEN Find(p) ELSE UNCHANGED crash

\* A number, or another switch, changes.  The telescope and the filter wheel only log numbers.
NewNumber(p) ==
    /\ \/ kind = "camera" /\ NewCameraNumber(p)
       \/ kind = "focuser" /\ NewFocuserNumber(p)
       \/ p = "INFO" /\ UNCHANGED crash
       \/ p = "DEVICE_BAUD_RATE" /\ Find(p)
    /\ UNCHANGED <<ptr, is_connected, lpc, raced>>

\* removeProperty() is empty: libindi frees the property and the pointer stays.
RemoveProperty(p) ==
    /\ ptr' = Freed({p})
    /\ UNCHANGED <<is_connected, lpc, crash, raced>>

RemoveDevice == ClearStatus /\ UNCHANGED <<is_connected, lpc, crash>>

\* The listener takes the next message and runs its callback.
Receive ==
    /\ Alive
    /\ link \in {"up", "closing"} /\ lpc = "idle"
    /\ chan # <<>>
    /\ chan' = Tail(chan)
    /\ LET m == Head(chan) IN
       \/ /\ m.type = "def"
          /\ NewProperty(m.prop, m.on)
          /\ known' = known \cup {m.prop}
       \/ /\ m.type = "set" /\ m.prop = "CONNECTION"
          /\ NewSwitch(m.on)
          /\ UNCHANGED known
       \/ /\ m.type = "set" /\ m.prop # "CONNECTION"
          /\ NewNumber(m.prop)
          /\ UNCHANGED known
       \/ /\ m.type = "del"
          /\ RemoveProperty(m.prop)
          /\ known' = known \ {m.prop}
       \/ /\ m.type = "delDevice"
          /\ RemoveDevice
          /\ known' = {}
    /\ UNCHANGED <<kind, is_ready, link, server, asked, caller, events, refused>>

\* Mutant: the callback calls disconnectServer(), which joins the listener itself.
ServerDisconnectedJoins ==
    /\ Alive
    /\ link = "gone" /\ lpc = "idle"
    /\ link' = "lost"
    /\ ClearStatus
    /\ known' = {} /\ defined' = {}
    /\ chan' = <<>>
    /\ asked' = FALSE
    /\ UNCHANGED <<driver, is_connected, device_on, caller, events, crash, refused>>

\* The listener's last callback, serverDisconnected() and IndiServerDisconnected().
ServerDisconnected ==
    /\ Alive
    /\ link \in {"gone", "closing"} /\ lpc = "idle"
    /\ link' = IF link = "gone" THEN "lost" ELSE "closed"
    /\ ClearStatus
    /\ known' = {} /\ defined' = {}
    /\ chan' = <<>>
    /\ asked' = FALSE
    /\ UNCHANGED <<driver, is_connected, device_on, caller, events, crash, refused>>
-----------------------------------------------------------------------------
(* The caller. *)

\* A task calls a method of the driver.  The methods that change nothing are left out.
Call == /\ Alive
        /\ pc = "idle"
        /\ calls < MaxCalls[kind]
        /\ calls' = calls + 1

At(from, to) == Alive /\ pc = from /\ pc' = to

\* connect(), and reconnect() of the drivers whose disconnect() does nothing.
Connect ==
    /\ Call
    /\ pc' = "check"
    /\ again' = FALSE
    /\ UNCHANGED <<driver, is_connected, ptr, link, known, chan, server, asked, events, crash, raced, refused>>

\* A driver that says it is connected is not connected again; the camera does not ask.  The
\* telescope throws if it has no host or no port.
AfterCheck == IF kind # "camera" /\ is_connected THEN {"idle"}
              ELSE IF kind = "telescope" THEN {"connecting", "idle"} ELSE {"connecting"}
Check ==
    /\ \E to \in AfterCheck : At("check", to)
    /\ UNCHANGED <<driver, is_connected, ptr, link, known, chan, server, asked, again, calls, events,
                   crash, raced, refused>>

\* BaseClient::connectServer() opens the link and starts the listener.
Connected ==
    /\ At("connecting", "connected")
    /\ link \in {"never", "closed", "lost"}
    /\ link' = "up"
    /\ refused' = FALSE
    /\ UNCHANGED <<driver, is_connected, ptr, known, chan, server, asked, again, calls, events, crash, raced>>

\* It fails: there is no server, or the link is open.  The camera leaves is_connected alone.
NotConnected ==
    /\ At("connecting", "idle")
    /\ is_connected' = (is_connected /\ kind = "camera")
    /\ refused' = (link = "up" \/ refused)
    /\ UNCHANGED <<driver, ptr, link, known, chan, server, asked, again, calls, events, crash, raced>>

\* IndiServerConnected(), called by connectServer() while the listener is already at work.
IndiServerConnected ==
    /\ At("connected", "device")
    /\ is_connected' = TRUE
    /\ UNCHANGED <<driver, ptr, link, known, chan, server, asked, again, calls, events, crash, raced, refused>>

\* connectDevice(): libindi asks the device to connect if it knows the device by now.
ConnectDevice ==
    /\ At("device", IF kind = "camera" THEN "idle" ELSE "flag")
    /\ asked' \in {asked, asked \/ (link = "up" /\ "CONNECTION" \in known)}
    /\ UNCHANGED <<driver, is_connected, ptr, link, known, chan, server, again, calls, events, crash, raced, refused>>

\* The end of connect().
ConnectFlag ==
    /\ At("flag", "idle")
    /\ is_connected' = TRUE
    /\ UNCHANGED <<driver, ptr, link, known, chan, server, asked, again, calls, events, crash, raced, refused>>

AfterDisconnect(re) == IF re THEN "check" ELSE "idle"

\* Mutant: disconnect() does not wait for the listener to end.
DisconnectNoJoin(re) ==
    /\ Call
    /\ again' = re
    /\ kind = "telescope"
    /\ \/ ~is_connected /\ UNCHANGED link /\ pc' = AfterDisconnect(re)
       \/ /\ is_connected /\ pc' = "unflag"
          /\ link' = IF link = "up" THEN "closing" ELSE link
    /\ UNCHANGED <<driver, is_connected, ptr, known, chan, server, asked, events, crash, raced, refused>>

\* INDITelescope::disconnect(), alone or as the first half of reconnect().
Disconnect(re) ==
    /\ Call
    /\ again' = re
    /\ kind = "telescope"
    /\ \/ ~is_connected /\ UNCHANGED link /\ pc' = AfterDisconnect(re)
       \/ is_connected /\ link = "up" /\ link' = "closing" /\ pc' = "joining"
       \/ is_connected /\ link # "up" /\ UNCHANGED link /\ pc' = "unflag"
    /\ UNCHANGED <<driver, is_connected, ptr, known, chan, server, asked, events, crash, raced, refused>>

\* disconnectServer() has joined the listener.
Joined ==
    /\ At("joining", "unflag")
    /\ link = "closed"
    /\ UNCHANGED <<driver, is_connected, ptr, link, known, chan, server, asked, again, calls, events,
                   crash, raced, refused>>

DisconnectFlag ==
    /\ At("unflag", AfterDisconnect(again))
    /\ is_connected' = FALSE
    /\ UNCHANGED <<driver, ptr, link, known, chan, server, asked, again, calls, events, crash, raced, refused>>

\* INDIFocuser::moveToAbsolute(): the checks; the position may be out of range.
MoveToAbsolute ==
    /\ Call
    /\ kind = "focuser"
    /\ pc' \in IF is_connected /\ ptr["ABS_FOCUS_POSITION"] # "null" THEN {"idle", "write"} ELSE {"idle"}
    /\ raced' = FALSE
    /\ UNCHANGED <<driver, is_connected, ptr, link, known, chan, server, asked, again, events, crash, refused>>

\* INDIFocuser::getTemperature(): the check.
GetTemperature ==
    /\ Call
    /\ kind = "focuser"
    /\ pc' = IF ptr["FOCUS_TEMPERATURE"] # "null" THEN "read" ELSE "idle"
    /\ raced' = FALSE
    /\ UNCHANGED <<driver, is_connected, ptr, link, known, chan, server, asked, again, events, crash, refused>>

\* The member is read again and dereferenced.
Use(from, p, to) ==
    /\ At(from, to)
    /\ kind = "focuser"
    /\ Deref("caller", p)
    /\ UNCHANGED <<driver, is_connected, ptr, link, known, chan, server, asked, again, calls, events, raced, refused>>

WritePosition == Use("write", "ABS_FOCUS_POSITION", "send")
SendPosition == Use("send", "ABS_FOCUS_POSITION", "idle")
ReadTemperature == Use("read", "FOCUS_TEMPERATURE", "idle")
-----------------------------------------------------------------------------
Server == \/ \E p \in Props[kind] : Define(p) \/ Update("set", p) \/ Update("del", p)
          \/ DeleteDevice \/ Switch \/ Serve \/ ServerLost
Listener == Receive \/ AskToConnect \/ ServerDisconnected
CallerStep == \/ Check \/ Connected \/ NotConnected \/ IndiServerConnected \/ ConnectDevice \/ ConnectFlag
              \/ Joined \/ DisconnectFlag
              \/ WritePosition \/ SendPosition \/ ReadTemperature
Next == \/ Server \/ Listener \/ CallerStep
        \/ Connect \/ MoveToAbsolute \/ GetTemperature
        \/ \E re \in BOOLEAN : Disconnect(re)

\* Both threads are scheduled by the operating system; the server owes nothing.
Fairness == WF_vars(Listener) /\ WF_vars(CallerStep)

Spec == Init /\ [][Next]_vars /\ Fairness
-----------------------------------------------------------------------------
\* The types; and the link is half closed only while disconnect() waits for the listener.
TypeOK ==
    /\ kind \in Kinds
    /\ {is_connected, is_ready, device_on, asked, again, raced, refused} \subseteq BOOLEAN
    /\ ptr \in [Props[kind] -> Pointer]
    /\ lpc \in {"idle", "connection"}
    /\ link \in {"never", "up", "closing", "closed", "gone", "lost"}
    /\ link = "closing" => pc = "joining"
    /\ known \subseteq Props[kind] /\ defined \subseteq Props[kind]
    /\ pc \in {"idle", "check", "connecting", "connected", "device", "flag", "joining", "unflag",
               "write", "send", "read"}
    /\ calls \in 0..MaxCalls[kind] /\ events \in 0..MaxEvents[kind]
    /\ crash = <<>> \/ crash \in {"caller", "listener"} \X Props[kind] \X CrashCause

\* After the end of a session no pointer of ClearStatus() refers to a property of it, whatever
\* the listener was doing when the link went; and once disconnect() has closed the link,
\* no late message makes is_connected true again before the next connect().
SessionEndsClean ==
    /\ link \in {"closed", "lost"} => \A p \in ClearedProps : ptr[p] = "null"
    /\ link = "closed" /\ pc \notin {"joining", "unflag"} => ~is_connected

\* When the device is connected, its CONNECTION is announced and every message has been handled,
\* is_connected is true: however connect() and the listener interleave their writes, it is left
\* false only by a connect() on a link that was open already.
ConnectedDeviceIsSeen ==
    (/\ link = "up" /\ chan = <<>> /\ lpc = "idle" /\ pc = "idle" /\ Alive
     /\ device_on /\ ~asked
     /\ "CONNECTION" \in defined)
        => is_connected \/ refused

\* The caller dies of a null pointer only if ClearStatus() ran between its check and its use.
\* Messages that lack an element aside, the listener dies only of the focuser's pointers that
\* nothing ever assigns, and of a CCD_INFO whose pointer was cleared on a ready camera.
CrashHasCause ==
    ~Alive =>
        /\ crash[1] = "caller" /\ crash[3] = "null" => raced
        /\ crash[1] = "listener" /\ crash[3] # "element" =>
              \/ kind = "focuser" /\ crash[2] = "FOCUS_MOTION" /\ crash[3] \in {"null", "wild"}
              \/ /\ kind = "camera" /\ crash[2] = "CCD_INFO" /\ crash[3] = "null"
                 /\ is_ready /\ raced

\* Every call of the driver returns, also disconnect(), which waits for the listener to end:
\* no callback waits for the caller in turn.  (If the process does not die before.)
CallsReturn == pc # "idle" ~> pc = "idle" \/ ~Alive

\* What the comment in IndiServerDisconnected() says, "after disconnection we reset the
\* connection status and the properties pointers": a lost server leaves is_connected false.
StatusIsReset == [][link = "gone" /\ link' = "lost" => ~is_connected']_vars
=============================================================================
