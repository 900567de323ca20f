------------------------------- MODULE Login -------------------------------
(***************************************************************************)
(* /login (src/oauth.ts) and its one-shot callback server                  *)
(* (src/auth-server.ts).  The user picks the browser or pastes a key; the  *)
(* browser flow listens on a local port and races the website's POST       *)
(* against a timeout, after which the user is asked to paste the key.      *)
(* Connections are served concurrently: one that was accepted before the   *)
(* server closed is still answered afterwards.                             *)
(***************************************************************************)
EXTENDS Integers, FiniteSets

CONSTANTS
    Connections,  \* requests that may reach the callback server
    PastedKeys,   \* keys a user may paste or the website may post
    MemberTokens, \* those that start with os_member_
    WellFormed,   \* member tokens of the right length
    PortRange     \* ports tried before any free one (10 in the code)

NoKey == "no key"

ASSUME LoginAssumption ==
    /\ WellFormed \subseteq MemberTokens /\ MemberTokens \subseteq PastedKeys
    /\ {NoKey, "pending", "rejected"} \cap PastedKeys = {}
    /\ PortRange \in Nat

\* What a request to the server carries: OPTIONS or a wrong path or method; a body that
\* is too long, not JSON, reports an error, lacks a field or has another state; a key.
Bodies == {"other", "huge", "garbage", "denied", "incomplete", "foreign", "key"}

VARIABLES
    loginStage, \* where login() is
    prompted,   \* the key the user typed last
    result,     \* the key of the credentials, once returned
    server,     \* the callback server: off, trying a port, listening, closed
    offset,     \* ports found in use
    callback,   \* waitForCallback: "pending", "rejected" or the key it resolved to
    conn,       \* connections: phase, body, key
    sentTo,     \* history: keys sent to CommandCode's whoami
    vouched     \* history: keys CommandCode accepted, or the website posted with our state

loginVars == <<loginStage, prompted, result, server, offset, callback, conn, sentTo, vouched>>
servers == <<server, offset, callback, conn>>

LoginInit ==
    /\ loginStage = "choosing" /\ prompted = NoKey /\ result = NoKey
    /\ server = "off" /\ offset = 0 /\ callback = "pending"
    /\ conn = [c \in Connections |-> [phase |-> "idle", body |-> "other", key |-> NoKey]]
    /\ sentTo = {} /\ vouched = {}

-----------------------------------------------------------------------------
(* login() and the prompts *)

\* chooseLoginFlow(): Enter, "key", or a key; the prompt may be cancelled.
Choose ==
    /\ loginStage = "choosing"
    /\ \/ loginStage' = "starting" /\ server' = "trying" /\ UNCHANGED prompted
       \/ loginStage' \in {"prompting", "failed"} /\ UNCHANGED <<prompted, server>>
       \/ /\ \E key \in PastedKeys : prompted' = key
          /\ loginStage' = "validating" /\ UNCHANGED server
    /\ UNCHANGED <<result, offset, callback, conn, sentTo, vouched>>

\* promptForApiKey(): an empty answer ends the login.
Pastes ==
    /\ loginStage = "prompting"
    /\ \/ loginStage' = "failed" /\ UNCHANGED prompted
       \/ loginStage' = "validating" /\ \E key \in PastedKeys : prompted' = key
    /\ UNCHANGED <<result, servers, sentTo, vouched>>

\* Mutant: member tokens are validated like any other key.
NeverLocal(key) == FALSE

ValidatedLocally(key) == key \in MemberTokens

\* validateApiKey(): a member token is only looked at; any other key is sent to whoami,
\* which accepts it, refuses it or cannot be reached.
Validates ==
    /\ loginStage = "validating"
    /\ \/ /\ ValidatedLocally(prompted)
          /\ loginStage' = IF prompted \in WellFormed THEN "returned" ELSE "failed"
          /\ UNCHANGED <<sentTo, vouched>>
       \/ /\ ~ValidatedLocally(prompted)
          /\ sentTo' = sentTo \cup {prompted}
          /\ \/ loginStage' = "returned" /\ vouched' = vouched \cup {prompted}
             \/ loginStage' = "failed" /\ UNCHANGED vouched
    /\ result' = IF loginStage' = "returned" THEN prompted ELSE NoKey
    /\ UNCHANGED <<prompted, servers>>

-----------------------------------------------------------------------------
(* listenOnAvailablePort() *)

PortTaken ==
    /\ server = "trying" /\ offset < PortRange
    /\ offset' = offset + 1
    /\ UNCHANGED <<loginStage, prompted, result, server, callback, conn, sentTo, vouched>>

Listens ==
    /\ server = "trying"
    /\ server' = "listening"
    /\ loginStage' = "waiting"
    /\ UNCHANGED <<prompted, result, offset, callback, conn, sentTo, vouched>>

\* An error other than a taken port, or any error at the last attempt.
ListenFails ==
    /\ server = "trying"
    /\ server' = "off"
    /\ callback' = "rejected"
    /\ loginStage' = "prompting"
    /\ UNCHANGED <<prompted, result, offset, conn, sentTo, vouched>>

-----------------------------------------------------------------------------
(* browserLogin() waiting for the callback *)

\* Mutant: the timeout leaves the server to the callback.
KeepsListening == UNCHANGED server

StopsListening == server' = "closed"

\* The timer is cleared once the callback has settled.
TimesOut ==
    /\ loginStage = "waiting" /\ callback = "pending"
    /\ StopsListening
    /\ loginStage' = "prompting"
    /\ UNCHANGED <<prompted, result, offset, callback, conn, sentTo, vouched>>

CallbackTaken ==
    /\ loginStage = "waiting" /\ callback # "pending"
    /\ \/ /\ callback = "rejected"
          /\ StopsListening
          /\ loginStage' = "failed"
          /\ UNCHANGED result
       \/ /\ callback \in PastedKeys
          /\ loginStage' = "returned" /\ result' = callback
          /\ UNCHANGED server
    /\ UNCHANGED <<prompted, offset, callback, conn, sentTo, vouched>>

-----------------------------------------------------------------------------
(* The request listener of the server *)

Connects(c) ==
    /\ server = "listening" /\ conn[c].phase = "idle"
    /\ \E body \in Bodies, key \in PastedKeys :
          conn' = [conn EXCEPT ![c] = [phase |-> "receiving", body |-> body,
                                       key |-> IF body \in {"foreign", "key"} THEN key ELSE NoKey]]
    /\ UNCHANGED <<loginStage, prompted, result, server, offset, callback, sentTo, vouched>>

\* resolveCallback and rejectCallback: only the first call counts.
Settles(value) == callback' = IF callback = "pending" THEN value ELSE callback

\* Mutant: the state of the login is not compared.
AcceptsAny(c) == conn[c].body \in {"foreign", "key"}

Accepts(c) == conn[c].body = "key"

\* The body has arrived (a body that is too long is cut off and never ends).
Received(c) ==
    /\ conn[c].phase = "receiving"
    /\ conn' = [conn EXCEPT ![c].phase =
                   CASE conn[c].body = "huge" -> "cut"
                     [] conn[c].body = "denied" \/ Accepts(c) -> "ok"
                     [] OTHER -> "refused"]
    /\ \/ /\ conn[c].body = "denied"
          /\ Settles("rejected")
          /\ StopsListening
          /\ UNCHANGED vouched
       \/ /\ Accepts(c)
          /\ Settles(conn[c].key)
          /\ StopsListening
          /\ vouched' = IF conn[c].body = "key" THEN vouched \cup {conn[c].key} ELSE vouched
       \/ /\ conn[c].body # "denied" /\ ~Accepts(c)
          /\ UNCHANGED <<callback, server, vouched>>
    /\ UNCHANGED <<loginStage, prompted, result, offset, sentTo>>

\* The client goes away.
Drops(c) ==
    /\ conn[c].phase = "receiving"
    /\ conn' = [conn EXCEPT ![c].phase = "cut"]
    /\ UNCHANGED <<loginStage, prompted, result, server, offset, callback, sentTo, vouched>>

LoginNext ==
    \/ Choose \/ Pastes \/ Validates
    \/ PortTaken \/ Listens \/ ListenFails
    \/ TimesOut \/ CallbackTaken
    \/ \E c \in Connections : Connects(c) \/ Received(c) \/ Drops(c)

LoginSpec == LoginInit /\ [][LoginNext]_loginVars

-----------------------------------------------------------------------------
\* Type correctness; while a browser login waits for its callback, and only then, the
\* server listens, until the first settlement of the callback closes it.
LoginTypeOK ==
    /\ loginStage \in {"choosing", "starting", "waiting", "prompting", "validating",
                  "returned", "failed"}
    /\ prompted \in PastedKeys \cup {NoKey} /\ result \in PastedKeys \cup {NoKey}
    /\ server \in {"off", "trying", "listening", "closed"}
    /\ (server = "trying") <=> (loginStage = "starting")
    /\ (server = "listening") <=> (loginStage = "waiting" /\ callback = "pending")
    /\ offset \in 0..PortRange
    /\ callback \in {"pending", "rejected"} \cup PastedKeys
    /\ \A c \in Connections :
          /\ conn[c].phase \in {"idle", "receiving", "ok", "refused", "cut"}
          /\ conn[c].body \in Bodies /\ conn[c].key \in PastedKeys \cup {NoKey}
    /\ sentTo \subseteq PastedKeys /\ vouched \subseteq PastedKeys

\* However the callback, the timeout and the pasted key race: once login() is over, or
\* has fallen back to the prompt, the server accepts nobody; a credential it returns is
\* one that CommandCode accepted, that the website posted for this login, or a
\* well-formed member token; and no member token was sent to CommandCode.
LoginSettlesCleanly ==
    /\ loginStage \in {"prompting", "validating", "returned", "failed"} =>
           server \in {"off", "closed"}
    /\ loginStage = "returned" => result \in vouched \cup WellFormed
    /\ sentTo \cap MemberTokens = {}
=============================================================================
