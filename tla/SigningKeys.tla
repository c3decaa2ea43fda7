---------------------------- MODULE SigningKeys ----------------------------
(***************************************************************************)
(* The keys a license is signed with and the keyring that is published for *)
(* it (src/src/config.rs, src/src/crypto.rs, require_signing and           *)
(* public_keys of src/src/licensing.rs), while the settings of the service *)
(* are changed under requests in flight.                                   *)
(*                                                                         *)
(* Every request reads the settings once, at its start, and goes on with   *)
(* what it read.  A deployment may change any of the four settings, also   *)
(* one of them before the others, and need not make sense.  A text that no *)
(* key can be read from is Junk; two texts may hold one key.               *)
(***************************************************************************)
EXTENDS Integers

CONSTANTS
    Id,          \* key ids
    WellFormed,  \* those with the length and the characters required
    Pem,         \* texts of public keys
    Key,         \* key pairs
    KeyOf,       \* the key a text holds, or Junk
    Request,     \* requests in flight together
    MaxDeploys,  \* bound: deployments
    Junk,        \* a text that cannot be read
    None         \* a setting that is not set

ASSUME KeysAreRead == KeyOf \in [Pem -> Key \cup {Junk}]

ASSUME IdsAreIds == WellFormed \subseteq Id

ASSUME DeploysAreBounded == MaxDeploys \in Nat

ASSUME NotKeys == None \notin Pem \cup Key /\ Junk \notin Key /\ None # Junk

VARIABLES
    settings,  \* LICENSE_SIGNING_*, LICENSE_PREVIOUS_SIGNING_PUBLIC_KEYS_JSON
    accepted,  \* the last settings the service worked with
    request,   \* the requests in flight
    tokens,    \* the leases in the field that have not expired
    deploys    \* how many deployments there were

vars == <<settings, accepted, request, tokens, deploys>>

Keyring == [Id -> Pem \cup {None}]

Settings == [id       : Id,
             public   : Pem \cup {None},
             private  : Key \cup {Junk, None},
             previous : Keyring \cup {Junk}]

ASSUME JunkIsNoKeyring == Junk \notin Keyring

Token == [kid : Id, key : Key]

RequestState == [at : {"idle", "started", "numbered"},
                 config : Settings \cup {None}]

Idle == [at |-> "idle", config |-> None]

TypeOK ==
    /\ settings \in Settings
    /\ accepted \in Settings
    /\ request \in [Request -> RequestState]
    /\ \A r \in Request : request[r] # Idle => request[r].config \in Settings
    /\ tokens \subseteq Token
    /\ deploys \in 0 .. MaxDeploys

-----------------------------------------------------------------------------
(* Config::from_env.  Those named Faulty are not used by the specification: *)
(* they are mistakes the properties below are checked to detect.            *)

ValidEntry(id, pem) == id \in WellFormed /\ KeyOf[pem] # Junk

(* The keys that are published: the previous ones and the active one.       *)
FaultySigningPublicKeys(c) == c.previous
SigningPublicKeys(c) ==
    [i \in Id |-> IF i = c.id /\ c.previous[i] = None THEN c.public
                                                      ELSE c.previous[i]]

(* An id that is listed with another text is a mistake in the settings.     *)
FaultyNoConflict(c) == TRUE
NoConflict(c) ==
    c.public # None => c.previous[c.id] \in {None, c.public}

Readable(c) ==
    /\ c.previous # Junk
    /\ \A i \in Id : c.previous[i] # None => ValidEntry(i, c.previous[i])
    /\ c.public # None => ValidEntry(c.id, c.public)
    /\ NoConflict(c)

(* The private key, if there is one, is that of the active id's public key. *)
FaultyPairMatches(c) == TRUE
PairMatches(c) ==
    c.private # None =>
        /\ SigningPublicKeys(c)[c.id] # None
        /\ c.private # Junk
        /\ c.private = KeyOf[SigningPublicKeys(c)[c.id]]

Accepted(c) == Readable(c) /\ PairMatches(c)

(* require_signing                                                          *)
FaultyCanSign(c) == SigningPublicKeys(c)[c.id] # None
CanSign(c) == c.private # None /\ SigningPublicKeys(c)[c.id] # None

(* The document of GET /api/v1/keys.                                        *)
PublicKeys(c) ==
    {[kid |-> i, pem |-> SigningPublicKeys(c)[i], current |-> i = c.id] :
        i \in {j \in Id : SigningPublicKeys(c)[j] # None}}

(* sign_jws: the id goes into the header, the key signs.                    *)
FaultySignJws(c) == [kid |-> c.private, key |-> c.id]
SignJws(c) == [kid |-> c.id, key |-> c.private]

(* The campus looks up the id of the token in its keyring.                  *)
Verifies(token, keyring) ==
    /\ keyring[token.kid] # None
    /\ KeyOf[keyring[token.kid]] = token.key

-----------------------------------------------------------------------------
Init ==
    /\ settings \in {c \in Settings : Accepted(c)}
    /\ accepted = settings
    /\ request = [r \in Request |-> Idle]
    /\ tokens = {}
    /\ deploys = 0

-----------------------------------------------------------------------------
(* A request that signs.                                                    *)

Continue(r, at, config) ==
    request' = [request EXCEPT ![r] = [at |-> at, config |-> config]]

ReadSettings(r) ==
    /\ request[r] = Idle
    /\ Accepted(settings)
    /\ Continue(r, "started", settings)
    /\ UNCHANGED <<settings, accepted, tokens, deploys>>

(* service_unavailable: every request ends so until the settings are        *)
(* mended.                                                                  *)
RefuseSettings(r) ==
    /\ request[r] = Idle
    /\ ~Accepted(settings)
    /\ UNCHANGED vars

(* signing_unavailable: nothing has been used up.                           *)
RefuseUnconfigured(r) ==
    /\ request[r].at = "started"
    /\ ~CanSign(request[r].config)
    /\ Continue(r, "idle", None)
    /\ UNCHANGED <<settings, accepted, tokens, deploys>>

(* The activation code is used and a sequence number is taken: what cannot  *)
(* be given back.                                                           *)
TakeNumber(r) ==
    /\ request[r].at = "started"
    /\ CanSign(request[r].config)
    /\ Continue(r, "numbered", request[r].config)
    /\ UNCHANGED <<settings, accepted, tokens, deploys>>

(* sign_jws reads the private key, and fails with Junk.                     *)
Sign(r) ==
    /\ request[r].at = "numbered"
    /\ request[r].config.private \notin {Junk, None}
    /\ tokens' = tokens \cup {SignJws(request[r].config)}
    /\ Continue(r, "idle", None)
    /\ UNCHANGED <<settings, accepted, deploys>>

(* A statement fails, or the worker stops.                                  *)
Fail(r) ==
    /\ request[r] # Idle
    /\ Continue(r, "idle", None)
    /\ UNCHANGED <<settings, accepted, tokens, deploys>>

-----------------------------------------------------------------------------
(* Deployments.  The rotation rules of src/README.md are assumed of whoever *)
(* deploys in one point: the public key of an id stays listed as long as a  *)
(* lease in the field, or one about to be signed, needs it.                 *)

Needed(id) ==
    \/ \E t \in tokens : t.kid = id
    \/ \E r \in Request : /\ request[r] # Idle
                          /\ CanSign(request[r].config)
                          /\ request[r].config.id = id

Lists(c, id, pem) ==
    \/ c.previous # Junk /\ c.previous[id] = pem
    \/ c.id = id /\ c.public = pem

Install(c) ==
    /\ deploys' = deploys + 1
    /\ settings' = c
    /\ accepted' = IF Accepted(c) THEN c ELSE accepted
    /\ UNCHANGED <<request, tokens>>

Deploy(c) ==
    /\ deploys < MaxDeploys
    /\ \A id \in Id :
         Needed(id) => Lists(c, id, SigningPublicKeys(accepted)[id])
    /\ Install(c)

(* Step 3 of the rotation: a new id, its key pair, and the public key so    *)
(* far among the previous ones, changed together.                           *)
Rotated(id, pem) ==
    [id       |-> id,
     public   |-> pem,
     private  |-> KeyOf[pem],
     previous |-> [settings.previous EXCEPT ![settings.id] =
                     SigningPublicKeys(settings)[settings.id]]]

Rotate(id, pem) ==
    /\ deploys < MaxDeploys
    /\ Accepted(settings) /\ CanSign(settings)
    /\ ValidEntry(id, pem)
    /\ SigningPublicKeys(settings)[id] = None
    /\ Install(Rotated(id, pem))

(* The last lease of an id and key expires.                                 *)
Expire(token) ==
    /\ tokens' = tokens \ {token}
    /\ UNCHANGED <<settings, accepted, request, deploys>>

Serve(r) ==
    \/ ReadSettings(r)
    \/ RefuseSettings(r)
    \/ RefuseUnconfigured(r)
    \/ TakeNumber(r)
    \/ Sign(r)
    \/ Fail(r)

Next ==
    \/ \E r \in Request : Serve(r)
    \/ \E c \in Settings : Deploy(c)
    \/ \E id \in Id, pem \in Pem : Rotate(id, pem)
    \/ \E token \in tokens : Expire(token)

Spec == Init /\ [][Next]_vars

-----------------------------------------------------------------------------
(* Properties.                                                              *)

(* A request that used up a code or a number can sign, and what it signs    *)
(* verifies with the keyring of the settings it read: the checks made       *)
(* before the first statement suffice for what is done after the last.      *)
NumberedCanSign ==
    \A r \in Request :
        request[r].at = "numbered" =>
            LET c == request[r].config IN
            /\ c.private \in Key
            /\ Verifies(SignJws(c), SigningPublicKeys(c))

(* Whatever is deployed in whatever order, and whatever settings a request  *)
(* in flight still signs with, the service either refuses to work with its  *)
(* settings or publishes a keyring that verifies every lease in the field.  *)
LeasesVerify ==
    Accepted(settings) =>
        \A t \in tokens : Verifies(t, SigningPublicKeys(settings))

Formerly(keys) == {[kid |-> k.kid, pem |-> k.pem, current |-> FALSE] : k \in keys}

(* The rotation the README describes interrupts nothing: the new settings   *)
(* are accepted and sign, and GET /api/v1/keys reports exactly one current  *)
(* key, the new one, besides every key it reported before.                  *)
RotationIsSmooth ==
    [][\A id \in Id, pem \in Pem :
         Rotate(id, pem) =>
            /\ Accepted(settings') /\ CanSign(settings')
            /\ PublicKeys(settings') =
                 Formerly(PublicKeys(settings))
                    \cup {[kid |-> id, pem |-> pem, current |-> TRUE]}]_vars

=============================================================================
