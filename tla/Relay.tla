-------------------------------- MODULE Relay --------------------------------
(***************************************************************************)
(* The shim's transparent TCP relay (internal/shim/relay.go).              *)
(*                                                                         *)
(* A redirected connection is accepted, dialled through the SOCKS          *)
(* endpoint, and spliced: one goroutine per direction copies until its     *)
(* source ends or one of the sockets fails, and the first to end makes     *)
(* `handle` return, whose defers close both sockets.                       *)
(*                                                                         *)
(* What a peer sends is a sequence of Chunks pieces; of each direction the *)
(* model keeps how many its source sent, how many the copier has read and  *)
(* has written, and whether the source is done.                            *)
(***************************************************************************)
EXTENDS Naturals

CONSTANTS
    Conn,           \* the connections the account makes
    Chunks          \* bound on what a peer sends in a connection

ASSUME ChunksAssumption == Chunks \in Nat

Leg == {"out", "back"}      \* from the account to the endpoint, and back

VARIABLES
    accepting,      \* the relay's listener is open and Serve accepts on it
    conn            \* each connection and its two directions

relayVars == <<accepting, conn>>

\* `source`: whether the sender may send on, has said FIN, or was reset.
\* `why`: what made the copier end.
Direction == [sent: 0..Chunks, read: 0..Chunks, written: 0..Chunks,
              source: {"open", "fin", "reset"}, why: {"off", "copying", "eof", "error"}]
Quiet     == [sent |-> 0, read |-> 0, written |-> 0, source |-> "open", why |-> "off"]

\* "spliced": both sockets open; "half": the endpoint's is closed; "shut": both are.
Stage == {"free", "accepted", "dialing", "spliced", "half", "shut"}

RelayTypeOK ==
    /\ accepting \in BOOLEAN
    /\ conn \in [Conn -> [at: Stage, out: Direction, back: Direction]]

Fresh == [at |-> "free", out |-> Quiet, back |-> Quiet]

RelayInit ==
    /\ accepting = FALSE
    /\ conn = [c \in Conn |-> Fresh]

-----------------------------------------------------------------------------
(* The listener and the dial. *)

Listen ==
    /\ ~accepting
    /\ accepting' = TRUE
    /\ UNCHANGED conn

StopListening ==
    /\ accepting' = FALSE
    /\ UNCHANGED conn

AcceptConn(c) ==
    /\ accepting /\ conn[c].at = "free"
    /\ conn' = [conn EXCEPT ![c] = [Fresh EXCEPT !.at = "accepted"]]
    /\ UNCHANGED accepting

\* The socket has no original destination: it was not redirected here.
NoDestination(c) ==
    /\ conn[c].at = "accepted"
    /\ conn' = [conn EXCEPT ![c].at = "shut"]
    /\ UNCHANGED accepting

\* proxy.Direct dials without a deadline, and nothing watches the client meanwhile.
Dial(c) ==
    /\ conn[c].at = "accepted"
    /\ conn' = [conn EXCEPT ![c].at = "dialing"]
    /\ UNCHANGED accepting

DialRefused(c) ==
    /\ conn[c].at = "dialing"
    /\ conn' = [conn EXCEPT ![c].at = "shut"]
    /\ UNCHANGED accepting

Dialled(c) ==
    /\ conn[c].at = "dialing"
    /\ conn' = [conn EXCEPT ![c].at = "spliced", ![c].out.why = "copying", ![c].back.why = "copying"]
    /\ UNCHANGED accepting

-----------------------------------------------------------------------------
(* The peers.  The account may send before the dial is done. *)

Other(l) == CHOOSE m \in Leg : m # l

MaySend(c, l) ==
    /\ conn[c].at \in IF l = "out" THEN {"accepted", "dialing", "spliced", "half"} ELSE {"spliced"}
    /\ conn[c][l].source = "open"

Send(c, l) ==
    /\ MaySend(c, l) /\ conn[c][l].sent < Chunks
    /\ conn' = [conn EXCEPT ![c][l].sent = @ + 1]
    /\ UNCHANGED accepting

\* A peer says it is done sending, or its connection is lost for both directions.
SayFin(c, l) ==
    /\ MaySend(c, l)
    /\ conn' = [conn EXCEPT ![c][l].source = "fin"]
    /\ UNCHANGED accepting

BreakOff(c, l) ==
    /\ MaySend(c, l)
    /\ conn' = [conn EXCEPT ![c][l].source = "reset"]
    /\ UNCHANGED accepting

-----------------------------------------------------------------------------
(* The copiers (io.Copy). *)

\* Which of its sockets a copier finds closed: out reads the account's and writes the
\* endpoint's, back the other way round.
SourceShut(c, l) == conn[c].at = "shut" \/ (conn[c].at = "half" /\ l = "back")
TargetShut(c, l) == conn[c].at = "shut" \/ (conn[c].at = "half" /\ l = "out")
Copying(c, l)    == conn[c][l].why = "copying"
Holding(c, l)    == conn[c][l].read > conn[c][l].written

ReadChunk(c, l) ==
    /\ Copying(c, l) /\ ~Holding(c, l) /\ ~SourceShut(c, l)
    /\ conn[c][l].source # "reset" /\ conn[c][l].read < conn[c][l].sent
    /\ conn' = [conn EXCEPT ![c][l].read = @ + 1]
    /\ UNCHANGED accepting

ReadEnds(c, l) ==
    /\ Copying(c, l) /\ ~Holding(c, l) /\ ~SourceShut(c, l)
    /\ conn[c][l].source = "fin" /\ conn[c][l].read = conn[c][l].sent
    /\ conn' = [conn EXCEPT ![c][l].why = "eof"]
    /\ UNCHANGED accepting

ReadFails(c, l) ==
    /\ Copying(c, l) /\ ~Holding(c, l)
    /\ SourceShut(c, l) \/ conn[c][l].source = "reset"
    /\ conn' = [conn EXCEPT ![c][l].why = "error"]
    /\ UNCHANGED accepting

\* The peer takes what is written.  The code sets no deadline, so nothing limits how
\* long it may not.
WriteChunk(c, l) ==
    /\ Copying(c, l) /\ Holding(c, l) /\ ~TargetShut(c, l)
    /\ conn[c][Other(l)].source # "reset"
    /\ conn' = [conn EXCEPT ![c][l].written = @ + 1]
    /\ UNCHANGED accepting

WriteFails(c, l) ==
    /\ Copying(c, l) /\ Holding(c, l)
    /\ TargetShut(c, l) \/ conn[c][Other(l)].source = "reset"
    /\ conn' = [conn EXCEPT ![c][l].why = "error"]
    /\ UNCHANGED accepting

-----------------------------------------------------------------------------
(* The end (splice, handle). *)

Ended(c, l) == conn[c][l].why \in {"eof", "error"}

\* Faulty variant: splice returns before a direction has ended.
SpliceReturnsAtOnce(c) ==
    /\ conn[c].at = "spliced"
    /\ conn' = [conn EXCEPT ![c].at = "half"]
    /\ UNCHANGED accepting

\* Faulty variant: splice waits for both directions.
SpliceReturnsLast(c) ==
    /\ conn[c].at = "spliced" /\ \A l \in Leg : Ended(c, l)
    /\ conn' = [conn EXCEPT ![c].at = "half"]
    /\ UNCHANGED accepting

\* splice returns with the first direction, and the deferred closes run, the
\* endpoint's before the account's.
SpliceReturns(c) ==
    /\ conn[c].at = "spliced" /\ \E l \in Leg : Ended(c, l)
    /\ conn' = [conn EXCEPT ![c].at = "half"]
    /\ UNCHANGED accepting

CloseClient(c) ==
    /\ conn[c].at = "half"
    /\ conn' = [conn EXCEPT ![c].at = "shut"]
    /\ UNCHANGED accepting

\* Both goroutines are gone and the connection is forgotten.
Forget(c) ==
    /\ conn[c].at = "shut" /\ \A l \in Leg : ~Copying(c, l)
    /\ conn' = [conn EXCEPT ![c] = Fresh]
    /\ UNCHANGED accepting

\* What a copier does without its target's peer.
CopierGoesOn(c, l) ==
    ReadChunk(c, l) \/ ReadEnds(c, l) \/ ReadFails(c, l) \/ WriteFails(c, l)

Copy(c, l) == CopierGoesOn(c, l) \/ WriteChunk(c, l)

End(c) == SpliceReturns(c) \/ CloseClient(c) \/ Forget(c)

RelayNext ==
    \E c \in Conn :
       \/ AcceptConn(c) \/ NoDestination(c) \/ Dial(c) \/ DialRefused(c) \/ Dialled(c)
       \/ \E l \in Leg : Send(c, l) \/ SayFin(c, l) \/ BreakOff(c, l) \/ Copy(c, l)
       \/ End(c)

\* The goroutines go on when nothing blocks them: a step of theirs that stays possible
\* is taken.
RelayFairness ==
    \A c \in Conn : WF_relayVars(End(c)) /\ \A l \in Leg : WF_relayVars(CopierGoesOn(c, l))

\* Both peers of a connection take what is written to them, in the end.
PeersRead(c) == \A l \in Leg : WF_relayVars(WriteChunk(c, l))

-----------------------------------------------------------------------------

\* A relay closes its sockets for a cause: a direction has passed on everything its
\* source sent before it was done, or a peer was lost.  Until then nothing of either
\* direction is cut short.
ClosesForCause ==
    \A c \in Conn :
       conn[c].at \in {"half", "shut"} /\ (\E l \in Leg : conn[c][l].why # "off") =>
          \E l \in Leg :
             \/ conn[c][l].source = "reset"
             \/ conn[c][l].why = "eof" /\ conn[c][l].written = conn[c][l].sent

\* Once a peer of a spliced connection is done or lost, both sockets close and both
\* goroutines end, also when the other peer never ends: relays do not pile up, as long
\* as the peers read.  One that stops reading leaves a copier in its Write, without a
\* deadline, and the splice with it.
EndingEnds ==
    \A c \in Conn : PeersRead(c) =>
       ((conn[c].at = "spliced" /\ \E l \in Leg : conn[c][l].source # "open")
          ~> conn[c].at = "free")

=============================================================================
