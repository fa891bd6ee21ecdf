---------------------------- MODULE RequestAuth ------------------------------
(***************************************************************************)
(* Signed requests (internal/auth) and the clients that sign them          *)
(* (cmd/user, cmd/provider).  A message reaches any provider, any number   *)
(* of times, and each provider remembers used nonces in its own Redis.     *)
(* The middleware reads the clock in whole seconds, checks the message     *)
(* against that reading, and only then sets the nonce: Unit ticks of the   *)
(* model's clock are a second, and other requests and ticks may come       *)
(* between the two.  Signatures verify; a message is its content.          *)
(***************************************************************************)
EXTENDS Naturals

CONSTANTS Providers, Resources, None, Nonces,
          Window,      \* maxFutureWindow, in seconds
          SignedFor,   \* how far ahead clients set expires_at, in seconds
          Unit,        \* ticks in a second
          Horizon,     \* bound on the clock
          Handlers,    \* one per request being handled at once
          MaxAccepts   \* bound on the acceptances counted

VARIABLES clock,
          strict,      \* AUTH_STRICT, per provider
          address,     \* the client's provider address cache: "unknown", "known", "failed"
          signed,      \* nonce -> the message, or None
          handling,    \* handler -> the request past its checks, or None
          nonceKey,    \* provider -> nonce -> the tick its key expires, or 0
          accepted,    \* provider -> nonce -> how often it was let through
          straddled    \* nonces whose handling overlapped their expiry

vars == <<clock, strict, address, signed, handling, nonceKey, accepted, straddled>>

Messages == [provider : Providers \cup {None}, resource : Resources \cup {None}, expires : Nat]

Init ==
    /\ clock = 0
    /\ strict \in [Providers -> BOOLEAN]
    /\ address = [p \in Providers |-> "unknown"]
    /\ signed = [n \in Nonces |-> None]
    /\ handling = [h \in Handlers |-> None]
    /\ nonceKey = [p \in Providers |-> [n \in Nonces |-> 0]]
    /\ accepted = [p \in Providers |-> [n \in Nonces |-> 0]]
    /\ straddled = {}

Now == clock \div Unit
Live(p, n) == nonceKey[p][n] > clock

-----------------------------------------------------------------------------
(* The client. *)

\* providerAddressFor: one answer or one failure, kept for the process's life.
ProviderAddressFor(p) ==
    /\ address[p] = "unknown"
    /\ \E answer \in {"known", "failed"} : address' = [address EXCEPT ![p] = answer]
    /\ UNCHANGED <<clock, strict, signed, handling, nonceKey, accepted, straddled>>

\* signRequest
SignRequest(n, p, r) ==
    /\ address[p] # "unknown" /\ signed[n] = None
    /\ signed' = [signed EXCEPT ![n] =
           [provider |-> IF address[p] = "known" THEN p ELSE None,
            resource |-> r, expires |-> Now + SignedFor]]
    /\ UNCHANGED <<clock, strict, address, handling, nonceKey, accepted, straddled>>

-----------------------------------------------------------------------------
(* MiddlewareWithOptions *)

InTimeInclusive(m) == Now <= m.expires /\ m.expires <= Now + Window
InTime(m) == Now < m.expires /\ m.expires <= Now + Window

BoundWhenStrict(m, p) == strict[p] => m.provider = p
BoundTo(m, p) == m.provider = p \/ (m.provider = None /\ ~strict[p])

Addresses(m, p, r) == m.resource = r \/ (m.resource = None /\ ~strict[p])

\* The checks before the nonce, at one reading of the clock; a message that
\* fails one is answered and changes nothing.
Receive(h, n, p, r) ==
    /\ handling[h] = None /\ signed[n] # None
    /\ InTime(signed[n]) /\ BoundTo(signed[n], p) /\ Addresses(signed[n], p, r)
    /\ handling' = [handling EXCEPT ![h] = [nonce |-> n, at |-> p, now |-> Now]]
    /\ UNCHANGED <<clock, strict, address, signed, nonceKey, accepted, straddled>>

\* SET NX for the rest of the message's life, as the reading of the clock has it.
SetNonce(h) ==
    /\ handling[h] # None
    /\ handling' = [handling EXCEPT ![h] = None]
    /\ LET p == handling[h].at  n == handling[h].nonce IN
       IF Live(p, n)
       THEN UNCHANGED <<nonceKey, accepted>>
       ELSE /\ accepted[p][n] < MaxAccepts
            /\ nonceKey' = [nonceKey EXCEPT ![p][n] =
                   clock + (signed[n].expires - handling[h].now) * Unit]
            /\ accepted' = [accepted EXCEPT ![p][n] = @ + 1]
    /\ UNCHANGED <<clock, strict, address, signed, straddled>>

\* Redis does not answer: the request is refused.
NonceUnavailable(h) ==
    /\ handling[h] # None
    /\ handling' = [handling EXCEPT ![h] = None]
    /\ UNCHANGED <<clock, strict, address, signed, nonceKey, accepted, straddled>>

Tick ==
    /\ clock < Horizon
    /\ clock' = clock + 1
    /\ straddled' = straddled \cup
           {n \in Nonces : \E h \in Handlers : /\ handling[h] # None /\ handling[h].nonce = n
                                                /\ clock' >= signed[n].expires * Unit}
    /\ UNCHANGED <<strict, address, signed, handling, nonceKey, accepted>>

Next ==
    \/ Tick
    \/ \E p \in Providers :
          \/ ProviderAddressFor(p)
          \/ \E n \in Nonces, r \in Resources \cup {None} : SignRequest(n, p, r)
          \/ \E h \in Handlers, n \in Nonces, r \in Resources : Receive(h, n, p, r)
    \/ \E h \in Handlers : SetNonce(h) \/ NonceUnavailable(h)

Spec == Init /\ [][Next]_vars

-----------------------------------------------------------------------------
TypeOK ==
    /\ clock \in 0..Horizon /\ strict \in [Providers -> BOOLEAN]
    /\ address \in [Providers -> {"unknown", "known", "failed"}]
    /\ \A n \in Nonces : signed[n] = None \/ signed[n] \in Messages
    /\ \A h \in Handlers :
          handling[h] = None \/ handling[h] \in [nonce : Nonces, at : Providers, now : 0..Horizon]
    /\ nonceKey \in [Providers -> [Nonces -> Nat]]
    /\ accepted \in [Providers -> [Nonces -> 0..MaxAccepts]]
    /\ straddled \subseteq Nonces

\* A provider lets a message through once: its nonce's key, whose life is
\* counted in whole seconds from a reading that is older than the key, never
\* ends while the message is in time.  The exception is a request that is
\* between its checks and its nonce when the message expires.
OncePerProvider ==
    \A p \in Providers, n \in Nonces : n \in straddled \/ accepted[p][n] <= 1

\* A message is let through once over all providers, whatever their settings,
\* when the client knew the provider's address as it signed, and when it did not
\* but every provider runs with AUTH_STRICT; otherwise nonces are each provider's own.
OnceAnywhere ==
    \A n \in Nonces :
        (signed[n] # None /\ (signed[n].provider # None \/ \A p \in Providers : strict[p])) =>
            \/ n \in straddled
            \/ \A p, q \in Providers : (accepted[p][n] > 0 /\ accepted[q][n] > 0) => p = q

\* A signed request is taken at most once: by one provider under every timing of
\* its handlers and the nonce key's expiry, and by one of the providers.
SignedOnce == OncePerProvider /\ OnceAnywhere
=============================================================================
