----------------------------- MODULE HappyEyeballs -----------------------------
(***************************************************************************)
(* The connector of the dialer crate (http.rs, dns.rs): a name is resolved *)
(* to addresses, those of the first one's family are tried one after the   *)
(* other, and after a delay those of the other family beside them.         *)
(*                                                                         *)
(* The connector is a future. It takes a step (Poll) when something that   *)
(* it asked about at its last step has happened; "woken" says so.          *)
(* An address is named by its place in the list, so that one that is       *)
(* listed twice is tried twice.                                            *)
(***************************************************************************)
EXTENDS Naturals, Sequences, FiniteSetsExt

CONSTANTS
  Addrs,          \* the addresses: [family, n]
  Urls            \* the destinations: [enforce_http, scheme, host, happy_eyeballs, resolved]

\* SocketAddr is one of two.
ASSUME FamilyAssumption == \A a \in Addrs : a.family \in {"v4", "v6"}

\* A host that is an address has one.
ASSUME UrlsAssumption ==
  \A u \in Urls :
    /\ u.resolved \in Seq(Addrs)
    /\ u.host = "literal" => u.resolved # <<>>

VARIABLES
  network,        \* how each address answers: "accepts", "refuses", "silent"
  noSocket,       \* the families that no socket can be made for
  url,            \* the destination
  dial,           \* the future's state
  answered,       \* the attempts that the network has answered
  delayOver,      \* the fallback delay has passed
  woken           \* the future is to be polled

dialVars == <<network, noSocket, url, dial, answered, delayOver, woken>>

\* The addresses to try, in the order of their places, and the attempt under
\* way: 0 if there is none.
Remote(addrs) == [addrs |-> addrs, current |-> 0]

\* "fallback" is <<remote>> or <<>>.
Dial(state, preferred, fallback) ==
  [state |-> state, preferred |-> preferred, fallback |-> fallback, tried |-> {}]

NoRemote == Remote({})

-------------------------------------------------------------------------------
(* connect: what is wrong with a URL, if anything is. *)

InvalidUrl ==
  IF url.enforce_http
  THEN IF url.scheme # "http" THEN {"not_http"}
       ELSE IF url.host = "none" THEN {"missing_authority"} ELSE {}
  ELSE IF url.scheme = "none" THEN {"missing_scheme"}
       ELSE IF url.host = "none" THEN {"missing_authority"} ELSE {}

DialInit ==
  /\ network \in [Addrs -> {"accepts", "refuses", "silent"}]
  /\ noSocket \in SUBSET {a.family : a \in Addrs}
  /\ url \in Urls
  /\ dial = Dial("start", NoRemote, <<>>)
  /\ answered = {}
  /\ delayOver = FALSE
  /\ woken = TRUE

-------------------------------------------------------------------------------
(* split_by_preference, ConnectingTcp::new *)

Family(i) == url.resolved[i].family

Preferred(addrs) == {i \in addrs : Family(i) = Family(1)}

Others(addrs) == {i \in addrs : Family(i) # Family(1)}

ConnectingTcp(addrs) ==
  IF ~url.happy_eyeballs \/ Others(addrs) = {}
  THEN Dial("connecting", Remote(addrs), <<>>)
  ELSE Dial("connecting", Remote(Preferred(addrs)), <<Remote(Others(addrs))>>)

-------------------------------------------------------------------------------
(* ConnectingTcpRemote::poll *)

Polled(is, remote, tried) == [is |-> is, remote |-> remote, tried |-> tried]

\* The next address is tried. A socket that cannot be made ends the remote; the
\* addresses behind it are not looked at.
TryNext(remote) ==
  LET addr == Min(remote.addrs)
      rest == [addrs |-> remote.addrs \ {addr}, current |-> addr]
  IN  IF Family(addr) \in noSocket THEN Polled("error", rest, {addr})
      ELSE Polled("pending", rest, {addr})

Accepts(i) == network[url.resolved[i]] = "accepts"

PollRemote(remote) ==
  LET done == remote.current # 0 /\ remote.current \in answered
  IN  IF remote.current # 0 /\ ~done THEN Polled("pending", remote, {})
      ELSE IF done /\ Accepts(remote.current) THEN Polled("ready", remote, {})
      ELSE IF remote.addrs # {} THEN TryNext(remote)
      ELSE Polled(IF done THEN "error" ELSE "panic", remote, {})

-------------------------------------------------------------------------------
(* ConnectingTcp::poll *)

Outcome(p, fallback) ==
  [state |-> IF p.is = "pending" THEN "connecting" ELSE p.is,
   preferred |-> p.remote, fallback |-> fallback, tried |-> dial.tried \cup p.tried]

\* Mutant of PreferredFailed: the other addresses are forgotten.
PreferredFailedEnds(p, fallback) == Outcome(p, <<>>)

\* The preferred addresses have failed: the others take their place.
PreferredFailed(p, fallback) ==
  LET q == PollRemote(fallback)
  IN  Outcome([q EXCEPT !.tried = @ \cup p.tried], <<>>)

\* Mutant of PreferredPending: the others wait until the preferred have failed.
PreferredPendingWaits(p, fallback) == Outcome(p, <<fallback>>)

\* The preferred addresses are not ready: the others are tried once it is time.
PreferredPending(p, fallback) ==
  LET q == PollRemote(fallback)
      both == [p EXCEPT !.tried = @ \cup q.tried]
  IN  IF ~delayOver THEN Outcome(p, <<fallback>>)
      ELSE CASE q.is = "ready" -> Outcome([q EXCEPT !.tried = @ \cup p.tried], <<>>)
             [] q.is = "pending" -> Outcome(both, <<q.remote>>)
             [] q.is = "error" -> Outcome(both, <<>>)
             [] q.is = "panic" -> Outcome([p EXCEPT !.is = "panic"], <<>>)

PollConnecting ==
  LET p == PollRemote(dial.preferred)
  IN  IF dial.fallback = <<>> THEN Outcome(p, <<>>)
      ELSE CASE p.is = "pending" -> PreferredPending(p, dial.fallback[1])
             [] p.is = "error" -> PreferredFailed(p, dial.fallback[1])
             [] OTHER -> Outcome(p, <<>>)

-------------------------------------------------------------------------------
(* The steps *)

\* connect, and Lazy: an address is not resolved.
Start ==
  /\ dial.state = "start"
  /\ IF InvalidUrl # {} THEN dial' = [dial EXCEPT !.state = "invalid_url"] /\ woken' = FALSE
     ELSE IF url.host = "literal"
     THEN dial' = ConnectingTcp({1}) /\ woken' = TRUE
     ELSE dial' = [dial EXCEPT !.state = "resolving"] /\ woken' = FALSE
  /\ UNCHANGED <<network, noSocket, url, answered, delayOver>>

\* getaddrinfo comes back, with addresses or an error.
Resolved ==
  /\ dial.state = "resolving"
  /\ \/ dial' = ConnectingTcp(DOMAIN url.resolved) /\ woken' = TRUE
     \/ dial' = [dial EXCEPT !.state = "not_resolved"] /\ woken' = FALSE
  /\ UNCHANGED <<network, noSocket, url, answered, delayOver>>

\* HttpConnecting::poll in Connecting. The options of a connected socket may not
\* be accepted.
Poll ==
  /\ dial.state = "connecting"
  /\ woken
  /\ woken' = FALSE
  /\ LET next == PollConnecting
     IN  dial' \in {next} \cup (IF next.state = "ready"
                                THEN {[next EXCEPT !.state = "option_error"]} ELSE {})
  /\ UNCHANGED <<network, noSocket, url, answered, delayOver>>

\* The attempts that the future waits for.
Waiting == {dial.preferred.current} \cup {dial.fallback[i].current : i \in DOMAIN dial.fallback}

\* An address that is not silent answers the attempt.
Answer(i) ==
  /\ dial.state = "connecting"
  /\ i \in Waiting \ (answered \cup {0})
  /\ network[url.resolved[i]] # "silent"
  /\ answered' = answered \cup {i}
  /\ woken' = TRUE
  /\ UNCHANGED <<network, noSocket, url, dial, delayOver>>

\* The delay runs from the moment the addresses are known.
DelayPasses ==
  /\ dial.state = "connecting"
  /\ dial.fallback # <<>>
  /\ ~delayOver
  /\ delayOver' = TRUE
  /\ woken' = TRUE
  /\ UNCHANGED <<network, noSocket, url, dial, answered>>

DialNext ==
  Start \/ Resolved \/ Poll \/ DelayPasses \/ (\E i \in DOMAIN url.resolved : Answer(i))

DialSpec == DialInit /\ [][DialNext]_dialVars

-------------------------------------------------------------------------------
(* Properties *)

Candidates == IF url.host = "literal" THEN {1} ELSE DOMAIN url.resolved

\* Safety: the future fails only when no address is left that it could have
\* tried. Every one has refused, but for those that no socket can be made for
\* (and, if the families are not told apart, those behind them); and it never
\* comes to the missing error that it would panic on, if there is an address.
FailsOnlyAfterAll ==
  /\ dial.state = "error" =>
       \A i \in Candidates :
         \/ i \in dial.tried /\ i \in answered /\ network[url.resolved[i]] = "refuses"
         \/ Family(i) \in noSocket
         \/ ~url.happy_eyeballs /\ noSocket # {}
  /\ dial.state = "panic" => Candidates = {}

\* Liveness: one family that has no silent address and one that accepts is
\* enough for a connection, however silent the other family is. (The resolver
\* answers, and the socket takes its options.)
ReachableIsReached ==
  (\E f \in {Family(i) : i \in Candidates} :
     LET mine == {i \in Candidates : Family(i) = f}
     IN  /\ dial.state = "connecting"
         /\ url.happy_eyeballs
         /\ noSocket = {}
         /\ \A i \in mine : network[url.resolved[i]] # "silent"
         /\ \E i \in mine : Accepts(i))
    ~> dial.state \in {"ready", "option_error"}

===============================================================================
