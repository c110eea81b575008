------------------------------- MODULE SignIn -------------------------------
(***************************************************************************)
(* Sign-in with a device code and what keeps a session alive               *)
(* (src/qwen_auth.rs, src/klava_auth.rs).  A login command asks for a      *)
(* device code, polls the token endpoint until the user has answered in a  *)
(* browser, and writes the session file.  A Qwen session expires: every    *)
(* request builds its own QwenAuth, reads the file, and refreshes a token  *)
(* that is about to expire, so several requests may refresh at once.  A    *)
(* Klava session is a key that does not expire; logging out revokes it.    *)
(*                                                                         *)
(* Time is counted in ticks, kept as what is left of a sleep or a token    *)
(* and the age of a device code.  The servers are external: they answer in *)
(* any way the code distinguishes.  The two providers share no state, so a *)
(* behaviour is about one of them.                                         *)
(***************************************************************************)
EXTENDS Naturals, FiniteSetsExt

CONSTANTS
  Requests,       \* requests of the proxy that need Qwen headers
  CodeLives,      \* values of expires_in a server may give a device code
  PollIntervals,  \* values of interval a server may ask for
  TokenLife,      \* ticks a Qwen access token is good for
  Margin,         \* a token with this much left or less is refreshed (60 s)
  MaxIssued,      \* bound: refresh tokens and keys issued
  DefaultLife     \* klava: expires_in when the server gives none (600 s)

ASSUME TimesAssumption ==
  /\ CodeLives \subseteq Nat /\ PollIntervals \subseteq Nat
  /\ {TokenLife, Margin, MaxIssued, DefaultLife} \subseteq Nat

Cap == 10       \* the longest interval slow_down leads to
NoKey == 0      \* no klava session file
NoToken == 0    \* the server's answer carries no refresh token
Absent == [state |-> "absent"]
Empty == [state |-> "empty"]   \* between a truncation and the write
Torn == [state |-> "torn"]     \* cut off, or two writers wrote over each other

VARIABLES
  provider,  \* "qwen" or "klava"
  flow,      \* the login command
  file,      \* qwen-auth.json
  accepted,  \* refresh tokens the Qwen server accepts
  policy,    \* what it does with a refresh token that is used (see Policies)
  calls,     \* the requests
  klavaKey,  \* the key in klava-auth.json, or NoKey
  live,      \* klava keys the server accepts
  logout,    \* the klava logout command
  issued,    \* tokens and keys issued so far
  lost       \* history: refresh tokens the Qwen server retired with an answer
             \* that never reached the file

signVars ==
  <<provider, flow, file, accepted, policy, calls, klavaKey, live, logout, issued, lost>>

\* The answer to a refresh carries no refresh token; or a new one beside the
\* old; or a new one that retires the old.
Policies == {"omits", "adds", "rotates"}

NoFlow == [step |-> "none"]

SignInit ==
  /\ provider \in {"qwen", "klava"} /\ flow = NoFlow
  /\ file = Absent /\ accepted = {} /\ policy \in Policies
  /\ calls = [r \in Requests |-> [step |-> "idle"]]
  /\ klavaKey = NoKey /\ live = {} /\ issued = 0 /\ lost = {}
  /\ logout = [step |-> "idle"]

Readable(f) == f.state = "whole"

\* Saturated: what every comparison below tells apart.
LongAge == Max(CodeLives \cup {DefaultLife}) + Max(PollIntervals) + Cap + 1

\* Time does not run past the end of a poll loop's sleep.
Tick ==
  /\ ~(flow.step = "sleep" /\ flow.rest = 0)
  /\ flow' = IF flow.step \in {"sleep", "asked"}
             THEN [flow EXCEPT !.age = IF @ < LongAge THEN @ + 1 ELSE @,
                               !.rest = Max({@, 1}) - 1]
             ELSE flow
  /\ file' = IF Readable(file) THEN [file EXCEPT !.left = Max({@, 1}) - 1] ELSE file
  /\ UNCHANGED <<provider, accepted, policy, calls, klavaKey, live, logout, issued, lost>>

-----------------------------------------------------------------------------
(* The device flow.                                                        *)

\* slow_down multiplies the interval: by 0.5, rounded down (qwen), by 1.5,
\* rounded up (klava).
SlowDown(i) ==
  Min({Cap, IF provider = "qwen" THEN i \div 2 ELSE (3 * i + 1) \div 2})

\* A plausible slip: the code's life is not looked at.
NeverExpired(f) == FALSE

Expired(f) == f.age > f.life

\* The head of the poll loop: give up once the code has expired, sleep
\* before every poll but the first.
Loop(f) ==
  IF Expired(f) THEN NoFlow
  ELSE [f EXCEPT !.step = "sleep", !.rest = IF f.polled THEN f.interval ELSE 0]

\* load_credentials of KlavaAuth: a session file with a key.
SignedIn == klavaKey # NoKey

\* initiate_device_flow: what the server asks for is taken as it is (qwen);
\* or a code that lives for no time gets a default life, and an interval is
\* a second at least (klava).
QwenFlow(life, interval) ==
  Loop([step |-> "sleep", age |-> 0, rest |-> 0, polled |-> FALSE,
        life |-> life, interval |-> interval, asked |-> interval])

KlavaFlow(life, interval) ==
  Loop([step |-> "sleep", age |-> 0, rest |-> 0, polled |-> FALSE,
        life |-> IF life = 0 THEN DefaultLife ELSE life,
        interval |-> Max({interval, 1}), asked |-> interval])

\* authenticate: without --force a session that can be read ends the command
\* at once.
Begin ==
  /\ flow.step = "none"
  /\ \E force \in BOOLEAN, life \in CodeLives, interval \in PollIntervals :
       /\ force \/ ~(IF provider = "qwen" THEN Readable(file) ELSE SignedIn)
       /\ flow' = IF provider = "qwen" THEN QwenFlow(life, interval)
                  ELSE KlavaFlow(life, interval)
  /\ UNCHANGED <<provider, file, accepted, policy, calls, klavaKey, live, logout, issued, lost>>

Poll ==
  /\ flow.step = "sleep" /\ flow.rest = 0
  /\ flow' = [flow EXCEPT !.step = "asked", !.polled = TRUE]
  /\ UNCHANGED <<provider, file, accepted, policy, calls, klavaKey, live, logout, issued, lost>>

\* What an answer that is no success leads to: a 400 that says
\* authorization_pending or slow_down goes round the loop; anything else, an
\* unreachable server included, ends the login.
NotYet == {Loop(flow), Loop([flow EXCEPT !.interval = SlowDown(@)]), NoFlow}

Granted ==
  /\ issued < MaxIssued
  /\ issued' = issued + 1
  /\ flow' = [step |-> "granted", grant |-> issued']

\* The token endpoint's answer; a success grants a refresh token.
QwenAnswered ==
  /\ flow.step = "asked" /\ provider = "qwen"
  /\ \/ flow' \in NotYet /\ UNCHANGED <<accepted, issued>>
     \/ Granted /\ accepted' = accepted \cup {issued'}
  /\ UNCHANGED <<provider, file, policy, calls, klavaKey, live, logout, lost>>

\* The same, where a success mints a key.
KlavaAnswered ==
  /\ flow.step = "asked" /\ provider = "klava"
  /\ \/ flow' \in NotYet /\ UNCHANGED <<live, issued>>
     \/ Granted /\ live' = live \cup {issued'}
  /\ UNCHANGED <<provider, file, accepted, policy, calls, klavaKey, logout, lost>>

\* fs::write is a truncation and a write.  A writer that finds what another
\* one wrote since its truncation writes over it from the start: the longer
\* of the two contents may show behind the shorter.
Written(f, creds) == IF f = Empty THEN {creds} ELSE {creds, Torn}

Session(refresh) == [state |-> "whole", refresh |-> refresh, left |-> TokenLife]

LoginTruncates ==
  /\ flow.step = "granted" /\ provider = "qwen"
  /\ file' = Empty
  /\ flow' = [flow EXCEPT !.step = "write"]
  /\ UNCHANGED <<provider, accepted, policy, calls, klavaKey, live, logout, issued, lost>>

LoginWrites ==
  /\ flow.step = "write"
  /\ file' \in Written(file, Session(flow.grant))
  /\ flow' = NoFlow
  /\ UNCHANGED <<provider, accepted, policy, calls, klavaKey, live, logout, issued, lost>>

\* The login is killed, or cannot store what it was granted.
LoginDies ==
  /\ flow.step # "none"
  /\ flow' = NoFlow
  /\ file' \in {file} \cup (IF flow.step = "write" THEN {Torn} ELSE {})
  /\ UNCHANGED <<provider, accepted, policy, calls, klavaKey, live, logout, issued, lost>>

\* save_credentials of KlavaAuth.
KlavaLoginWrites ==
  /\ flow.step = "granted" /\ provider = "klava"
  /\ klavaKey' = flow.grant
  /\ flow' = NoFlow
  /\ UNCHANGED <<provider, file, accepted, policy, calls, live, logout, issued, lost>>

-----------------------------------------------------------------------------
(* A request that needs Qwen headers (get_token).                          *)

\* load_credentials, then needs_refresh: a file that cannot be read leaves
\* nothing cached, and the request fails as not authenticated; a token with
\* time left is used as it is.  Either way the request is over.
GetToken(r) ==
  /\ calls[r].step = "idle"
  /\ Readable(file) /\ file.left <= Margin
  /\ calls' = [calls EXCEPT ![r] = [step |-> "refresh", refresh |-> file.refresh]]
  /\ UNCHANGED <<provider, flow, file, accepted, policy, klavaKey, live, logout, issued, lost>>

\* A plausible slip: the refresh token of the answer, whatever it is.
AnsweredRefresh(old, new) == new

\* The refresh token to save: the old one when the answer carries none.
KeptRefresh(old, new) == IF new = NoToken THEN old ELSE new

\* The server takes a refresh token it accepts, by its policy.
TakesToken(old, new) ==
  /\ old \in accepted /\ new <= MaxIssued
  /\ issued' = Max({issued, new})
  /\ accepted' = CASE policy = "omits" -> accepted
                   [] policy = "adds" -> accepted \cup {new}
                   [] policy = "rotates" -> (accepted \ {old}) \cup {new}

\* refresh_token_internal: the answer is refused; or it has what is to be
\* saved; or the server has acted and the answer is lost, cannot be read, or
\* comes to a request whose client is gone.
Refreshed(r) ==
  /\ calls[r].step = "refresh"
  /\ LET old == calls[r].refresh
         new == IF policy = "omits" THEN NoToken ELSE issued + 1
     IN  \/ /\ calls' = [calls EXCEPT ![r] = [step |-> "idle"]]
            /\ UNCHANGED <<accepted, issued, lost>>
         \/ /\ TakesToken(old, new)
            /\ calls' = [calls EXCEPT ![r] =
                 [step |-> "truncate", refresh |-> KeptRefresh(old, new), used |-> old]]
            /\ lost' = lost
         \/ /\ TakesToken(old, new)
            /\ calls' = [calls EXCEPT ![r] = [step |-> "idle"]]
            /\ lost' = lost \cup ({old} \ accepted')
  /\ UNCHANGED <<provider, flow, file, policy, klavaKey, live, logout>>

RequestTruncates(r) ==
  /\ calls[r].step = "truncate"
  /\ file' = Empty
  /\ calls' = [calls EXCEPT ![r].step = "write"]
  /\ UNCHANGED <<provider, flow, accepted, policy, klavaKey, live, logout, issued, lost>>

RequestWrites(r) ==
  /\ calls[r].step = "write"
  /\ file' \in Written(file, Session(calls[r].refresh))
  /\ calls' = [calls EXCEPT ![r] = [step |-> "idle"]]
  /\ UNCHANGED <<provider, flow, accepted, policy, klavaKey, live, logout, issued, lost>>

\* save_credentials fails, or the proxy is killed in it.
RequestDies(r) ==
  /\ calls[r].step \in {"truncate", "write"}
  /\ file' \in {file} \cup (IF calls[r].step = "write" THEN {Torn} ELSE {})
  /\ lost' = lost \cup ({calls[r].used} \ accepted)
  /\ calls' = [calls EXCEPT ![r] = [step |-> "idle"]]
  /\ UNCHANGED <<provider, flow, accepted, policy, klavaKey, live, logout, issued>>

-----------------------------------------------------------------------------
(* Logging out.                                                            *)

QwenLogout ==
  /\ file # Absent
  /\ file' = Absent
  /\ UNCHANGED <<provider, flow, accepted, policy, calls, klavaKey, live, logout, issued, lost>>

\* The key is read once, revoked at the server as far as it can be reached,
\* and the file removed either way.
KlavaLogoutReads ==
  /\ logout.step = "idle" /\ SignedIn
  /\ logout' = [step |-> "revoke", key |-> klavaKey]
  /\ UNCHANGED <<provider, flow, file, accepted, policy, calls, klavaKey, live, issued, lost>>

KlavaRevokes ==
  /\ logout.step = "revoke"
  /\ live' \in {live, live \ {logout.key}}
  /\ logout' = [logout EXCEPT !.step = "remove"]
  /\ UNCHANGED <<provider, flow, file, accepted, policy, calls, klavaKey, issued, lost>>

KlavaRemoves ==
  /\ logout.step = "remove"
  /\ klavaKey' = NoKey
  /\ logout' = [step |-> "idle"]
  /\ UNCHANGED <<provider, flow, file, accepted, policy, calls, live, issued, lost>>

SignNext ==
  \/ Tick \/ Begin \/ Poll \/ QwenAnswered \/ KlavaAnswered
  \/ LoginTruncates \/ LoginWrites \/ KlavaLoginWrites \/ LoginDies
  \/ \E r \in Requests :
       \/ GetToken(r) \/ Refreshed(r)
       \/ RequestTruncates(r) \/ RequestWrites(r) \/ RequestDies(r)
  \/ QwenLogout \/ KlavaLogoutReads \/ KlavaRevokes \/ KlavaRemoves

SignSpec == SignInit /\ [][SignNext]_signVars

-----------------------------------------------------------------------------
(* Properties.                                                             *)

PollIsDue == flow.step = "sleep" /\ flow.rest = 0

\* The poll loop never keeps asking about a dead device code: its last
\* request leaves no later than one sleep after the code expired, however
\* long the server takes to answer and however often it says slow_down.
PollsInTime == PollIsDue => flow.age <= flow.life + Max({Cap, flow.asked})

\* When nobody is between a server's answer and its write, a session file
\* that can be read holds a refresh token the server still accepts, whatever
\* requests refreshed it at once, and whether the server omits, adds or
\* rotates refresh tokens (refresh_token_internal): a retired one is only
\* there where the answer that replaced it was lost, or could not be saved.
SessionKept ==
  /\ Readable(file)
  /\ \A r \in Requests : calls[r].step \notin {"truncate", "write"}
  => file.refresh \in accepted \cup lost
=============================================================================
