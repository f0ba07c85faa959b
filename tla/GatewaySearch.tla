--------------------------- MODULE GatewaySearch ---------------------------
(***************************************************************************)
(* A search as its user sees it: sent to the tracker directly, or through  *)
(* the gateway, whose proxies/search.go joins the user's stream to one it  *)
(* opens to the tracker.  The proxy is a handler that relays responses and *)
(* a goroutine that forwards requests; Search is the tracker's end.        *)
(*                                                                         *)
(* The proxy never closes its side of the tracker's stream: what ends the  *)
(* tracker's call when the user is gone is the context of the handler.     *)
(***************************************************************************)
EXTENDS Search

CONSTANTS Paths,         \* the ways to the tracker: "direct", "gateway"
          UserMessages,  \* the messages a user of the gateway may send
          GatewayGraphs, \* the graphs a search through the gateway may start on
          GatewayChanges \* how often Track changes the graph during one

VARIABLES path,          \* the way this call takes
          userWire,      \* messages on their way to the gateway
          userSent,      \* how many messages the user has sent
          userClosed,    \* the user has closed its side of the stream
          userDone,      \* the context of the user's call is done
          fwd,           \* the forwarding goroutine
          request,       \* the request it holds
          proxy,         \* where the handler of the gateway is
          taken,         \* how many responses it has received
          response,      \* the response it holds
          delivered,     \* the responses it has sent to the user
          proxyResult    \* what it returned

userVars == <<userWire, userSent, userClosed, userDone>>
fwdVars == <<fwd, request>>
proxyVars == <<proxy, taken, response, delivered, proxyResult>>
gatewayVars == <<path, userVars, fwdVars, proxyVars>>
allVars == <<vars, gatewayVars>>

ASSUME PathsAssumption == Paths \subseteq {"direct", "gateway"}

ASSUME GatewayAssumption ==
  /\ UserMessages \subseteq Messages
  /\ GatewayGraphs \subseteq Graphs
  /\ GatewayChanges \in 0..MaxChanges

GatewayInit ==
  /\ Init
  /\ path \in Paths
  /\ path = "gateway" => graph \in GatewayGraphs
  /\ userWire = <<>> /\ userSent = 0 /\ userClosed = FALSE /\ userDone = FALSE
  /\ fwd = "none" /\ request = "none"
  /\ proxy = IF path = "gateway" THEN "start" ELSE "none"
  /\ taken = 0 /\ response = "none" /\ delivered = <<>> /\ proxyResult = "none"

\* The tracker has a call to work on.
Opened == proxy # "start" /\ ~(proxy = "returned" /\ fwd = "none")

-----------------------------------------------------------------------------
(* The user of the gateway.                                                *)

UserSends(msg) ==
  /\ path = "gateway" /\ proxy # "returned" /\ ~userClosed /\ ~userDone
  /\ userSent < MaxMessages
  /\ userWire' = Append(userWire, msg)
  /\ userSent' = userSent + 1
  /\ UNCHANGED <<vars, path, userClosed, userDone, fwdVars, proxyVars>>

UserCloses ==
  /\ path = "gateway" /\ proxy # "returned" /\ ~userClosed /\ ~userDone
  /\ userClosed' = TRUE
  /\ UNCHANGED <<vars, path, userWire, userSent, userDone, fwdVars, proxyVars>>

\* The user cancels, its deadline passes or its connection breaks.
UserGone ==
  /\ path = "gateway" /\ proxy # "returned" /\ ~userDone
  /\ userDone' = TRUE
  /\ UNCHANGED <<vars, path, userWire, userSent, userClosed, fwdVars, proxyVars>>

-----------------------------------------------------------------------------
(* process: the goroutine that forwards requests.                          *)

ForwardSelects ==
  /\ fwd = "select"
  /\ fwd' = IF userDone \/ proxy = "returned" THEN "exit" ELSE "recv"
  /\ UNCHANGED <<vars, path, userVars, request, proxyVars>>

ForwardReceives ==
  /\ fwd = "recv" /\ userWire # <<>>
  /\ request' = Head(userWire)
  /\ userWire' = Tail(userWire)
  /\ fwd' = "send"
  /\ UNCHANGED <<vars, path, userSent, userClosed, userDone, proxyVars>>

\* A mutant: Recv of the user's stream goes on after the handler has returned.
ForwardRecvWaits ==
  /\ fwd = "recv"
  /\ (userClosed /\ userWire = <<>>) \/ userDone
  /\ fwd' = "exit"
  /\ UNCHANGED <<vars, path, userVars, request, proxyVars>>

\* server.Recv fails: end of stream, context done, or the handler has returned.
ForwardRecvFails ==
  /\ fwd = "recv"
  /\ (userClosed /\ userWire = <<>>) \/ userDone \/ proxy = "returned"
  /\ fwd' = "exit"
  /\ UNCHANGED <<vars, path, userVars, request, proxyVars>>

ForwardSends ==
  /\ fwd = "send"
  /\ ClientSends(request)
  /\ fwd' = "select"
  /\ UNCHANGED <<path, userVars, request, proxyVars>>

\* client.Send on a call that is over: an error, or a message nobody reads.
ForwardSendFails ==
  /\ fwd = "send" /\ (done \/ pc = "returned")
  /\ fwd' \in {"select", "exit"}
  /\ UNCHANGED <<vars, path, userVars, request, proxyVars>>

Forward == \/ ForwardSelects \/ ForwardReceives \/ ForwardRecvFails
           \/ ForwardSends \/ ForwardSendFails

-----------------------------------------------------------------------------
(* The handler of the gateway: open the tracker's stream, then process.    *)

ProxyReturns(r) == proxy' = "returned" /\ proxyResult' = r

ProxyStarts ==
  /\ proxy = "start"
  /\ \/ /\ proxy' = "select" /\ fwd' = "select"
        /\ UNCHANGED proxyResult
     \/ ProxyReturns("error") /\ UNCHANGED fwd
  /\ UNCHANGED <<vars, path, userVars, request, taken, response, delivered>>

ProxySelects ==
  /\ proxy = "select"
  /\ IF userDone THEN ProxyReturns("ok")
     ELSE proxy' = "recv" /\ UNCHANGED proxyResult
  /\ UNCHANGED <<vars, path, userVars, fwdVars, taken, response, delivered>>

ProxyReceives ==
  /\ proxy = "recv" /\ taken < Len(sent)
  /\ response' = sent[taken + 1]
  /\ taken' = taken + 1
  /\ proxy' = "send"
  /\ UNCHANGED <<vars, path, userVars, fwdVars, delivered, proxyResult>>

\* A mutant: every error of client.Recv is taken for the end of the stream.
EveryErrorEnds ==
  /\ proxy = "recv" /\ pc = "returned" /\ taken = Len(sent)
  /\ ProxyReturns("ok")
  /\ UNCHANGED <<vars, path, userVars, fwdVars, taken, response, delivered>>

\* The status of the tracker comes after its responses: io.EOF for OK, an error.
ProxyEnds ==
  /\ proxy = "recv" /\ pc = "returned" /\ taken = Len(sent)
  /\ ProxyReturns(IF result = "error" THEN "error" ELSE "ok")
  /\ UNCHANGED <<vars, path, userVars, fwdVars, taken, response, delivered>>

\* client.Recv on a call whose context is done or whose connection is lost.
ProxyRecvFails ==
  /\ proxy = "recv" /\ (userDone \/ done)
  /\ ProxyReturns("error")
  /\ UNCHANGED <<vars, path, userVars, fwdVars, taken, response, delivered>>

ProxySends ==
  /\ proxy = "send"
  /\ delivered' = Append(delivered, response)
  /\ proxy' = "select"
  /\ UNCHANGED <<vars, path, userVars, fwdVars, taken, response, proxyResult>>

ProxySendFails ==
  /\ proxy = "send" /\ userDone
  /\ ProxyReturns("error")
  /\ UNCHANGED <<vars, path, userVars, fwdVars, taken, response, delivered>>

Proxy == \/ ProxyStarts \/ ProxySelects \/ ProxyReceives \/ ProxyEnds
         \/ ProxyRecvFails \/ ProxySends \/ ProxySendFails

-----------------------------------------------------------------------------
(* The tracker.                                                            *)

\* The context of the tracker's call is that of the user's, cancelled at the end of
\* the handler as well; the tracker learns of it.
CancelTracker ==
  /\ Opened /\ (userDone \/ proxy = "returned")
  /\ ContextDone
  /\ UNCHANGED gatewayVars

TrackerHandler == Opened /\ Handler /\ UNCHANGED gatewayVars

TrackerReader == Opened /\ Reader /\ UNCHANGED gatewayVars

\* A direct client, Track calls, and a connection that is lost.
Surroundings ==
  /\ \/ path = "direct" /\ \E msg \in Messages : ClientSends(msg)
     \/ path = "direct" /\ ClientCloses
     \/ Opened /\ ContextDone
     \/ Opened /\ (path = "gateway" => changes < GatewayChanges) /\ GraphChanges
  /\ UNCHANGED gatewayVars

User == (\E msg \in UserMessages : UserSends(msg)) \/ UserCloses \/ UserGone

GatewayNext == \/ TrackerHandler \/ TrackerReader \/ Surroundings
               \/ User \/ Forward \/ Proxy \/ CancelTracker

\* The Go schedulers run the goroutines of both processes, the user and the gateway
\* read what they are sent, and a cancellation reaches the tracker.
GatewayFairness ==
  /\ WF_allVars(TrackerHandler) /\ WF_allVars(TrackerReader)
  /\ WF_allVars(Forward) /\ WF_allVars(Proxy) /\ WF_allVars(CancelTracker)

GatewaySpec == GatewayInit /\ [][GatewayNext]_allVars /\ GatewayFairness

-----------------------------------------------------------------------------
(* Properties.                                                             *)

\* The gateway opens a call to the tracker before anything else happens in it.
GatewayTypeOK ==
  /\ TypeOK
  /\ path \in Paths
  /\ userWire \in Seq(UserMessages) /\ userSent \in 0..MaxMessages
  /\ userClosed \in BOOLEAN /\ userDone \in BOOLEAN
  /\ fwd \in {"none", "select", "recv", "send", "exit"}
  /\ request \in Messages \cup {"none"}
  /\ proxy \in {"none", "start", "select", "recv", "send", "returned"}
  /\ taken \in 0..Len(sent) /\ response \in Messages \cup {"none"}
  /\ delivered \in Seq(Messages) /\ proxyResult \in {"none", "ok", "error"}
  /\ ~Opened => pc = "await" /\ reader = "start" /\ ~done

\* The user gets what the tracker sent, in its order and without a gap; and all of
\* it when the gateway answers OK to a user who is still there, which it does only
\* when the tracker did.  No failure on the way looks like the end of the search.
RelayExact ==
  /\ Len(delivered) <= Len(sent) /\ \A i \in 1..Len(delivered) : delivered[i] = sent[i]
  /\ (proxyResult = "ok" /\ ~userDone) =>
       pc = "returned" /\ result \in {"ok", "cancelled"} /\ delivered = sent

\* The gateway's call ends with the tracker's and with the user; after it the
\* forwarding goroutine ends, and on both ways the tracker's goroutines end, all but
\* a handler whose root never came.
GatewayEnds ==
  /\ (path = "gateway" /\ (pc = "returned" \/ userDone)) ~> (proxy = "returned")
  /\ (proxy = "returned") ~> (fwd \in {"none", "exit"})
  /\ (proxy = "returned" /\ Opened) ~> (pc = "returned" \/ RootNeverCame)
  /\ (pc = "returned") ~> (reader = "exit")
=============================================================================
