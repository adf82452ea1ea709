------------------------------- MODULE Sessions -------------------------------
(***************************************************************************)
(* Signing in to the gateway's console with a wallet: challenges and       *)
(* sessions in Redis (packages/authentication), the JSON web token that    *)
(* names a session (auth.service.ts), the sign-in and sign-out requests    *)
(* (auth.controller.ts) and the guard in front of every other request      *)
(* (auth.guard.ts).  The configuration is that of a process that Startup   *)
(* let listen.  The in-memory store of tests is left out.                  *)
(*                                                                         *)
(* A slot is a request in flight and its pc the next call to the store; a  *)
(* request of module Catalog goes on from "act".                           *)
(***************************************************************************)
EXTENDS Startup

CONSTANTS
    Slot,                       \* requests that may be in flight at one time
    Address,                    \* wallets
    Challenge, Session,         \* ids that generateId() may return
    NoChallenge, NoSession, Nobody, NoRow

VARIABLES
    challenges, \* the x402:auth:challenge:* keys
    issued,     \* the tokens signed so far: their wallet, whether past their time
    live,       \* the x402:auth:session:* keys
    signed,     \* the signatures wallets have made: who signed which text
    ask,        \* the requests in flight
    spent,      \* history: challenges that have bought a session
    ended       \* history: sessions whose sign-out was answered

store == <<challenges, issued, live>>
past == <<signed, spent, ended>>
signIn == <<store, ask, past>>

ASSUME SessionsAssumption ==
    NoChallenge \notin Challenge /\ NoSession \notin Session /\ Nobody \notin Address

-------------------------------------------------------------------------------
Idle == [pc |-> "idle", challenge |-> NoChallenge, token |-> NoSession, who |-> Nobody,
         row |-> NoRow, late |-> FALSE]

At(s, pc) == ask[s].pc = pc
Goto(s, pc) == ask' = [ask EXCEPT ![s].pc = pc]
Finish(s) == ask' = [ask EXCEPT ![s] = Idle]

SignInInit ==
    /\ challenges = {} /\ issued = << >> /\ live = {}
    /\ signed = {} /\ spent = {} /\ ended = {}
    /\ ask = [s \in Slot |-> Idle]

(* A challenge outlives its five minutes, or Redis loses it.               *)
ChallengeExpires(c) ==
    /\ c \in challenges
    /\ challenges' = challenges \ {c}
    /\ UNCHANGED <<issued, live, ask, past>>

(* So does a session, whose token then is past its time as well.           *)
SessionExpires(t) ==
    /\ t \in live
    /\ live' = live \ {t}
    /\ \E b \in BOOLEAN : issued' = [issued EXCEPT ![t].over = b]
    /\ UNCHANGED <<challenges, ask, past>>

(* A call to Redis or to the database throws: the request is answered 500. *)
Throw(s) ==
    /\ ~At(s, "idle")
    /\ Finish(s)
    /\ UNCHANGED <<store, past>>

-------------------------------------------------------------------------------
(* Signing in.                                                             *)

(* The text is asked for by anyone, for any wallet: the record keeps no    *)
(* address.                                                                *)
createChallenge(c) ==
    /\ c \notin challenges /\ \A p \in signed : p[2] # c
    /\ challenges' = challenges \union {c}
    /\ UNCHANGED <<issued, live, ask, past>>

(* A wallet signs the text of a challenge it has been shown.               *)
Sign(a, c) ==
    /\ c \in challenges
    /\ signed' = signed \union {<<a, c>>}
    /\ UNCHANGED <<store, ask, spent, ended>>

(* The signature is over this challenge's text and by this wallet; whatever *)
(* else is sent is none.                                                   *)
verifyChallenge(a, c) == <<a, c>> \in signed

StartVerify(s, a, c) ==
    /\ At(s, "idle")
    /\ ask' = [ask EXCEPT ![s] = [Idle EXCEPT !.pc = "read", !.who = a, !.challenge = c,
                                    !.late = c \in spent]]
    /\ UNCHANGED <<store, past>>

(* AUTH_DEV_MODE: a dev-sig- signature is anyone's, and asks for no        *)
(* challenge.                                                              *)
StartVerifyDev(s, a) ==
    /\ config.authDevMode
    /\ At(s, "idle")
    /\ ask' = [ask EXCEPT ![s] = [Idle EXCEPT !.pc = "create", !.who = a]]
    /\ UNCHANGED <<store, past>>

(* redis.get, then the checks: what was read may be gone when it is used.  *)
ReadChallenge(s) ==
    LET c == ask[s].challenge
    IN  /\ At(s, "read")
        /\ IF c \in challenges /\ verifyChallenge(ask[s].who, c) THEN Goto(s, "consume") ELSE Finish(s)
        /\ UNCHANGED <<store, past>>

(* The challenge is left to its time to live.                              *)
ConsumeChallenge_Keeps(s) ==
    /\ At(s, "consume")
    /\ Goto(s, "create")
    /\ UNCHANGED <<store, past>>

(* "Mark as used and delete to prevent replay".                            *)
ConsumeChallenge(s) ==
    /\ At(s, "consume")
    /\ Goto(s, "create")
    /\ challenges' = challenges \ {ask[s].challenge}
    /\ UNCHANGED <<issued, live, past>>

NewSession(a) == [address |-> a, over |-> FALSE]

(* The session's key is written and its token signed, with one expiry.     *)
createSession(s, t) ==
    /\ At(s, "create")
    /\ t \notin DOMAIN issued
    /\ issued' = [u \in DOMAIN issued \union {t} |->
                     IF u = t THEN NewSession(ask[s].who) ELSE issued[u]]
    /\ live' = live \union {t}
    /\ spent' = spent \union ({ask[s].challenge} \ {NoChallenge})
    /\ Finish(s)
    /\ UNCHANGED <<challenges, signed, ended>>

-------------------------------------------------------------------------------
(* Signed in.                                                              *)

(* A request carries a token the gateway has signed; what it asks for is   *)
(* chosen where it is first read.                                          *)
Present(s, t) ==
    /\ At(s, "idle")
    /\ t \in DOMAIN issued
    /\ ask' = [ask EXCEPT ![s] = [Idle EXCEPT !.pc = "guard", !.token = t,
                                    !.late = t \in ended \/ issued[t].over]]
    /\ UNCHANGED <<store, past>>

validateSession(t) == t \in live

(* A token that is trusted for as long as it says.                         *)
validateToken_JwtOnly(t) == ~issued[t].over

validateToken(t) == ~issued[t].over /\ validateSession(t)

(* AuthGuard.canActivate attaches the token's address to the request; the  *)
(* sign-out request validates in its handler.                              *)
Authorize(s) ==
    /\ At(s, "guard")
    /\ IF validateToken(ask[s].token)
       THEN ask' = [ask EXCEPT ![s].pc = "act", ![s].who = issued[ask[s].token].address]
       ELSE Finish(s)
    /\ UNCHANGED <<store, past>>

Destroyed(t) == live \ {t}

(* The key is deleted and the cookie cleared.                              *)
destroySession(s) ==
    /\ At(s, "act")
    /\ live' = Destroyed(ask[s].token)
    /\ ended' = ended \union {ask[s].token}
    /\ Finish(s)
    /\ UNCHANGED <<challenges, issued, signed, spent>>

SignIn(s) ==
    \/ \E a \in Address : StartVerifyDev(s, a) \/ \E c \in Challenge : StartVerify(s, a, c)
    \/ ReadChallenge(s) \/ ConsumeChallenge(s)
    \/ \E t \in Session : createSession(s, t) \/ Present(s, t)
    \/ Authorize(s) \/ destroySession(s) \/ Throw(s)

SignInNext ==
    \/ \E c \in Challenge :
          ChallengeExpires(c) \/ createChallenge(c) \/ \E a \in Address : Sign(a, c)
    \/ \E t \in Session : SessionExpires(t)
    \/ \E s \in Slot : SignIn(s)

-------------------------------------------------------------------------------
(* auth.service.ts and AuthStore: a production gateway's token names a     *)
(* wallet that signed a challenge, and on any gateway a challenge that has *)
(* bought a session buys none in a verification that begins later, however *)
(* the two keys expire or are lost.  (Two verifications that overlap may   *)
(* both buy one.)                                                          *)
SessionsAreSigned ==
    /\ listening /\ config.production =>
          \A t \in DOMAIN issued : \E c \in spent : <<issued[t].address, c>> \in signed
    /\ \A s \in Slot : ask[s].pc \in {"consume", "create"} => ~ask[s].late

(* auth.guard.ts: whoever is let through arrived before the sign-out of    *)
(* its session was answered and before its token expired.                  *)
ActsWhileSignedIn ==
    \A s \in Slot : ask[s].token # NoSession /\ ~At(s, "guard") => ~ask[s].late

===============================================================================
