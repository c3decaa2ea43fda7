------------------------- MODULE SigningKeysProofs -------------------------
(***************************************************************************)
(* What SigningKeys.tla checks on a small instance, for any sets of ids,   *)
(* keys, texts and requests and any number of deployments.                 *)
(***************************************************************************)
EXTENDS SigningKeys, TLAPS

(* The inductive invariant.  The keyring of the last settings the service   *)
(* worked with verifies every lease in the field and every one a request in *)
(* flight is going to sign: that is what a deployment must carry over.      *)

Signs(r) == request[r] # Idle /\ CanSign(request[r].config)

Current ==
    /\ Accepted(accepted)
    /\ Accepted(settings) => settings = accepted

Snapshots ==
    \A r \in Request :
        /\ request[r].at = "idle" => request[r] = Idle
        /\ request[r] # Idle => Accepted(request[r].config)
        /\ request[r].at = "numbered" => CanSign(request[r].config)

Kept ==
    /\ \A t \in tokens : Verifies(t, SigningPublicKeys(accepted))
    /\ \A r \in Request :
         Signs(r) => Verifies(SignJws(request[r].config),
                              SigningPublicKeys(accepted))

IInv == TypeOK /\ Current /\ Snapshots /\ Kept

-----------------------------------------------------------------------------
(* The checks of Config::from_env.                                          *)

(* A keyring gives each id a text or nothing.                               *)
LEMMA KeyringType ==
    ASSUME NEW c \in Settings, Accepted(c)
    PROVE  SigningPublicKeys(c) \in Keyring
BY DEF Settings, Accepted, Readable, SigningPublicKeys, Keyring

(* Accepted settings that can sign sign with a key they publish.            *)
LEMMA SignerIsPublished ==
    ASSUME NEW c \in Settings, Accepted(c), CanSign(c)
    PROVE  /\ c.private \in Key
           /\ SignJws(c) \in Token
           /\ Verifies(SignJws(c), SigningPublicKeys(c))
<1>1. c.private \in Key
      BY DEF Settings, CanSign, Accepted, PairMatches
<1>2. c.id \in Id
      BY DEF Settings
<1>3. SigningPublicKeys(c)[c.id] # None
      BY DEF CanSign
<1>4. KeyOf[SigningPublicKeys(c)[c.id]] = c.private
      BY DEF CanSign, Accepted, PairMatches
<1> QED BY <1>1, <1>2, <1>3, <1>4 DEF SignJws, Token, Verifies

(* Accepted settings publish what they list.                                *)
LEMMA ListedIsPublished ==
    ASSUME NEW c \in Settings, Accepted(c), NEW id \in Id, NEW pem \in Pem,
           Lists(c, id, pem)
    PROVE  SigningPublicKeys(c)[id] = pem
<1>1. pem # None
      BY NotKeys
<1>2. CASE c.previous[id] = pem
      BY <1>1, <1>2 DEF SigningPublicKeys
<1>3. CASE c.id = id /\ c.public = pem
  <2>1. c.previous[id] \in {None, pem}
        BY <1>1, <1>3 DEF Accepted, Readable, NoConflict
  <2> QED BY <1>3, <2>1 DEF SigningPublicKeys
<1> QED BY <1>2, <1>3 DEF Lists

(* A keyring that has the text of a lease's id as it was verifies the lease *)
(* as before.                                                               *)
LEMMA SameEntry ==
    ASSUME NEW token, NEW old, NEW new, Verifies(token, old),
           new[token.kid] = old[token.kid]
    PROVE  Verifies(token, new)
BY DEF Verifies

-----------------------------------------------------------------------------
LEMMA InvInit == Init => IInv
<1> SUFFICES ASSUME Init PROVE IInv
    OBVIOUS
<1>1. settings \in Settings /\ accepted = settings /\ Accepted(settings)
      BY DEF Init
<1>2. \A r \in Request : request[r] = Idle
      BY DEF Init
<1>3. TypeOK
      BY <1>1, DeploysAreBounded DEF Init, TypeOK, RequestState, Idle
<1>4. Current
      BY <1>1 DEF Current
<1>5. Snapshots
      BY <1>2 DEF Snapshots, Idle
<1>6. Kept
      BY <1>2 DEF Kept, Signs, Init
<1> QED BY <1>3, <1>4, <1>5, <1>6 DEF IInv

(* A deployment that lists what is needed keeps every lease verifiable.     *)
LEMMA InstallKeeps ==
    ASSUME IInv, NEW c \in Settings, deploys < MaxDeploys, Install(c),
           \A id \in Id :
               Needed(id) => Lists(c, id, SigningPublicKeys(accepted)[id])
    PROVE  IInv'
<1> USE DEF IInv
<1>1. TypeOK'
      BY DeploysAreBounded DEF Install, TypeOK
<1>2. Current'
      BY DEF Install, Current
<1>3. Snapshots'
      BY DEF Install, Snapshots
<1>4. Kept'
  <2>1. CASE ~Accepted(c)
    <3>1. accepted' = accepted /\ tokens' = tokens /\ request' = request
          BY <2>1 DEF Install
    <3> QED BY <3>1 DEF Kept, Signs
  <2>2. CASE Accepted(c)
    <3>1. accepted' = c /\ tokens' = tokens /\ request' = request
          BY <2>2 DEF Install
    <3>2. SigningPublicKeys(accepted) \in Keyring
          BY KeyringType DEF Current, TypeOK
    <3>3. ASSUME NEW id \in Id, Needed(id), SigningPublicKeys(accepted)[id] # None
          PROVE  SigningPublicKeys(c)[id] = SigningPublicKeys(accepted)[id]
      <4>1. SigningPublicKeys(accepted)[id] \in Pem
            BY <3>2, <3>3 DEF Keyring
      <4> QED BY <2>2, <3>3, <4>1, ListedIsPublished
    <3>4. ASSUME NEW t \in tokens
          PROVE  Verifies(t, SigningPublicKeys(c))
      <4>1. Verifies(t, SigningPublicKeys(accepted))
            BY DEF Kept
      <4>2. t.kid \in Id /\ Needed(t.kid)
            BY DEF TypeOK, Token, Needed
      <4>3. SigningPublicKeys(accepted)[t.kid] # None
            BY <4>1 DEF Verifies
      <4> QED BY <3>3, <4>1, <4>2, <4>3, SameEntry
    <3>5. ASSUME NEW r \in Request, Signs(r)
          PROVE  Verifies(SignJws(request[r].config), SigningPublicKeys(c))
      <4> DEFINE t == SignJws(request[r].config)
      <4>1. Verifies(t, SigningPublicKeys(accepted))
            BY <3>5 DEF Kept
      <4>2. t.kid = request[r].config.id
            BY DEF SignJws
      <4>3. request[r].config \in Settings
            BY <3>5 DEF TypeOK, Signs
      <4>4. t.kid \in Id /\ Needed(t.kid)
            BY <3>5, <4>2, <4>3 DEF Settings, Needed, Signs
      <4>5. SigningPublicKeys(accepted)[t.kid] # None
            BY <4>1 DEF Verifies
      <4> HIDE DEF t
      <4>6. Verifies(t, SigningPublicKeys(c))
            BY <3>3, <4>1, <4>4, <4>5, SameEntry
      <4> QED BY <4>6 DEF t
    <3> QED BY <3>1, <3>4, <3>5 DEF Kept, Signs
  <2> QED BY <2>1, <2>2
<1> QED BY <1>1, <1>2, <1>3, <1>4

-----------------------------------------------------------------------------
(* The documented rotation carries over the whole keyring.                  *)

(* What is listed as previous after it is what was published before.        *)
LEMMA RotationKeepsKeyring ==
    ASSUME TypeOK, NEW id \in Id, NEW pem \in Pem, Rotate(id, pem)
    PROVE  /\ Rotated(id, pem) \in Settings
           /\ Rotated(id, pem).previous = SigningPublicKeys(settings)
<1> DEFINE ring == SigningPublicKeys(settings)
<1>1. settings \in Settings /\ settings.previous \in Keyring
      BY DEF TypeOK, Settings, Rotate, Accepted, Readable
<1>2. ring \in Keyring
      BY <1>1, KeyringType DEF Rotate
<1>3. KeyOf[pem] \in Key
      BY KeysAreRead DEF Rotate, ValidEntry
<1>4. settings.id \in Id
      BY <1>1 DEF Settings
<1>5. \A i \in Id : i # settings.id => ring[i] = settings.previous[i]
      BY DEF SigningPublicKeys
<1> HIDE DEF ring
<1>6. [settings.previous EXCEPT ![settings.id] = ring[settings.id]] = ring
  <2> DEFINE f == [settings.previous EXCEPT ![settings.id] = ring[settings.id]]
  <2>1. f \in [Id -> Pem \cup {None}]
        BY <1>1, <1>2, <1>4 DEF Keyring
  <2>2. \A i \in Id : f[i] = ring[i]
        BY <1>1, <1>4, <1>5 DEF Keyring
  <2> HIDE DEF f
  <2>3. f = ring
        BY <1>2, <2>1, <2>2 DEF Keyring
  <2> QED BY <2>3 DEF f
<1>7. Rotated(id, pem) = [id |-> id, public |-> pem, private |-> KeyOf[pem],
                          previous |-> ring]
      BY <1>6 DEF Rotated, ring
<1>8. Rotated(id, pem) \in Settings
      BY <1>2, <1>3, <1>7 DEF Settings
<1>9. Rotated(id, pem).previous = ring
      BY <1>7
<1> QED BY <1>8, <1>9 DEF ring

(* The keyring afterwards is the one before, with the new id.               *)
LEMMA RotationAddsOne ==
    ASSUME TypeOK, NEW id \in Id, NEW pem \in Pem, Rotate(id, pem)
    PROVE  /\ Accepted(Rotated(id, pem))
           /\ CanSign(Rotated(id, pem))
           /\ SigningPublicKeys(Rotated(id, pem)) =
                [SigningPublicKeys(settings) EXCEPT ![id] = pem]
<1> DEFINE ring == SigningPublicKeys(settings)
           c == Rotated(id, pem)
<1>1. ring \in Keyring
      BY KeyringType DEF TypeOK, Rotate
<1>2. c.previous = ring
      BY RotationKeepsKeyring
<1>3. c.id = id /\ c.public = pem /\ c.private = KeyOf[pem]
      BY DEF Rotated
<1>4. ring[id] = None /\ pem # None
      BY NotKeys DEF Rotate
<1>5. ValidEntry(id, pem)
      BY DEF Rotate
<1>6. \A i \in Id : ring[i] # None => ValidEntry(i, ring[i])
      BY DEF Rotate, Accepted, Readable, SigningPublicKeys
<1>7. c.previous # Junk
      BY <1>1, <1>2, JunkIsNoKeyring
<1> HIDE DEF ring
<1>8. SigningPublicKeys(c) = [ring EXCEPT ![id] = pem]
  <2>1. SigningPublicKeys(c) =
          [i \in Id |-> IF i = id /\ ring[i] = None THEN pem ELSE ring[i]]
        BY <1>2, <1>3 DEF SigningPublicKeys
  <2> QED BY <1>1, <1>4, <2>1 DEF Keyring
<1>9. SigningPublicKeys(c)[id] = pem
      BY <1>1, <1>8 DEF Keyring
<1> HIDE DEF c
<1>10. Readable(c)
      BY <1>2, <1>3, <1>4, <1>5, <1>6, <1>7 DEF Readable, NoConflict
<1>11. KeyOf[pem] \in Key
      BY <1>5, KeysAreRead DEF ValidEntry
<1>12. PairMatches(c)
      BY <1>3, <1>4, <1>9, <1>11, NotKeys DEF PairMatches
<1>13. CanSign(c)
      BY <1>3, <1>4, <1>9, <1>11, NotKeys DEF CanSign
<1>14. Accepted(c)
      BY <1>10, <1>12 DEF Accepted
<1> QED BY <1>8, <1>13, <1>14 DEF ring, c

(* So everything that was published is listed.                              *)
LEMMA RotationListsAll ==
    ASSUME TypeOK, NEW id \in Id, NEW pem \in Pem, Rotate(id, pem), NEW i \in Id
    PROVE  Lists(Rotated(id, pem), i, SigningPublicKeys(settings)[i])
<1> DEFINE c == Rotated(id, pem)
<1>1. c.previous = SigningPublicKeys(settings)
      BY RotationKeepsKeyring
<1>2. SigningPublicKeys(settings) \in Keyring
      BY KeyringType DEF TypeOK, Rotate
<1>3. c.previous # Junk
      BY <1>1, <1>2, JunkIsNoKeyring
<1> HIDE DEF c
<1>4. Lists(c, i, SigningPublicKeys(settings)[i])
      BY <1>1, <1>3 DEF Lists
<1> QED BY <1>4 DEF c

-----------------------------------------------------------------------------
(* The steps.                                                               *)

(* A request that only ends, or goes on with the settings it had.           *)
LEMMA RequestKeeps ==
    ASSUME IInv, NEW r \in Request, NEW q \in RequestState,
           request' = [request EXCEPT ![r] = q],
           UNCHANGED <<settings, accepted, tokens, deploys>>,
           \/ q = Idle
           \/ /\ q.config = request[r].config /\ request[r] # Idle
              /\ q.at = "numbered" /\ CanSign(q.config)
           \/ q = [at |-> "started", config |-> settings] /\ Accepted(settings)
    PROVE  IInv'
<1> USE DEF IInv
<1>1. ASSUME NEW p \in Request
      PROVE  request'[p] = IF p = r THEN q ELSE request[p]
      BY DEF TypeOK
<1>2. q # Idle => q.config \in Settings
      BY DEF TypeOK
<1>3. TypeOK'
      BY <1>1, <1>2 DEF TypeOK
<1>4. Current'
      BY DEF Current
<1>5. Snapshots'
  <2>1. q.at = "idle" => q = Idle
        OBVIOUS
  <2>2. q # Idle => Accepted(q.config)
        BY DEF Snapshots
  <2>3. q.at = "numbered" => CanSign(q.config)
        BY DEF Idle
  <2> QED BY <1>1, <2>1, <2>2, <2>3 DEF Snapshots
<1>6. Kept'
  <2>1. q # Idle /\ CanSign(q.config) =>
          Verifies(SignJws(q.config), SigningPublicKeys(accepted))
    <3>1. CASE q.config = request[r].config /\ request[r] # Idle
          BY <3>1 DEF Kept, Signs
    <3>2. CASE q = [at |-> "started", config |-> settings] /\ Accepted(settings)
      <4>1. settings = accepted /\ settings \in Settings /\ q.config = settings
            BY <3>2 DEF Current, TypeOK
      <4> QED BY <3>2, <4>1, SignerIsPublished
    <3> QED BY <3>1, <3>2
  <2> QED BY <1>1, <2>1 DEF Kept, Signs
<1> QED BY <1>3, <1>4, <1>5, <1>6

LEMMA SignKeeps ==
    ASSUME IInv, NEW r \in Request, Sign(r)
    PROVE  IInv'
<1> USE DEF IInv
<1> DEFINE c == request[r].config
<1>1. request[r] # Idle /\ request[r].at = "numbered"
      BY DEF Sign, Idle
<1>2. c \in Settings /\ Accepted(c) /\ CanSign(c)
      BY <1>1 DEF TypeOK, Snapshots
<1>3. SignJws(c) \in Token
      BY <1>2, SignerIsPublished
<1>4. Verifies(SignJws(c), SigningPublicKeys(accepted))
      BY <1>1, <1>2 DEF Kept, Signs
<1>5. /\ tokens' = tokens \cup {SignJws(c)}
      /\ request' = [request EXCEPT ![r] = Idle]
      /\ UNCHANGED <<settings, accepted, deploys>>
      BY DEF Sign, Continue, Idle
<1> HIDE DEF c
<1>6. \A p \in Request : request'[p] = IF p = r THEN Idle ELSE request[p]
      BY <1>5 DEF TypeOK
<1>7. TypeOK'
      BY <1>3, <1>5, <1>6 DEF TypeOK, RequestState, Idle
<1>8. Current'
      BY <1>5 DEF Current
<1>9. Snapshots'
      BY <1>6 DEF Snapshots, Idle
<1>10. Kept'
      BY <1>4, <1>5, <1>6 DEF Kept, Signs
<1> QED BY <1>7, <1>8, <1>9, <1>10

LEMMA ServeKeeps ==
    ASSUME IInv, NEW r \in Request, Serve(r)
    PROVE  IInv'
<1>1. CASE ReadSettings(r)
  <2>1. [at |-> "started", config |-> settings] \in RequestState
        BY DEF IInv, TypeOK, RequestState
  <2> QED BY <1>1, <2>1, RequestKeeps DEF ReadSettings, Continue
<1>2. CASE RefuseSettings(r)
      BY <1>2 DEF RefuseSettings, vars, IInv, TypeOK, Current, Snapshots, Kept,
                  Signs
<1>3. CASE RefuseUnconfigured(r)
      BY <1>3, RequestKeeps DEF RefuseUnconfigured, Continue, Idle, RequestState
<1>4. CASE TakeNumber(r)
  <2>1. request[r] # Idle
        BY <1>4 DEF TakeNumber, Idle
  <2>2. [at |-> "numbered", config |-> request[r].config] \in RequestState
        BY <2>1 DEF IInv, TypeOK, RequestState
  <2> QED BY <1>4, <2>1, <2>2, RequestKeeps DEF TakeNumber, Continue
<1>5. CASE Sign(r)
      BY <1>5, SignKeeps
<1>6. CASE Fail(r)
      BY <1>6, RequestKeeps DEF Fail, Continue, Idle, RequestState
<1> QED BY <1>1, <1>2, <1>3, <1>4, <1>5, <1>6 DEF Serve

LEMMA RotateKeeps ==
    ASSUME IInv, NEW id \in Id, NEW pem \in Pem, Rotate(id, pem)
    PROVE  IInv'
<1>1. TypeOK
      BY DEF IInv
<1>2. Rotated(id, pem) \in Settings
      BY <1>1, RotationKeepsKeyring
<1>3. settings = accepted
      BY DEF IInv, Current, Rotate
<1>4. \A i \in Id : Lists(Rotated(id, pem), i, SigningPublicKeys(accepted)[i])
      BY <1>1, <1>3, RotationListsAll
<1> QED BY <1>2, <1>4, InstallKeeps DEF Rotate

LEMMA ExpireKeeps ==
    ASSUME IInv, NEW token \in tokens, Expire(token)
    PROVE  IInv'
<1> USE DEF IInv, Expire
<1>1. TypeOK'
      BY DEF TypeOK
<1>2. Current' /\ Snapshots'
      BY DEF Current, Snapshots
<1>3. Kept'
      BY DEF Kept, Signs
<1> QED BY <1>1, <1>2, <1>3

LEMMA InvStep == IInv /\ [Next]_vars => IInv'
<1> SUFFICES ASSUME IInv, [Next]_vars PROVE IInv'
    OBVIOUS
<1>1. CASE UNCHANGED vars
      BY <1>1 DEF vars, IInv, TypeOK, Current, Snapshots, Kept, Signs
<1>2. ASSUME NEW r \in Request, Serve(r) PROVE IInv'
      BY <1>2, ServeKeeps
<1>3. ASSUME NEW c \in Settings, Deploy(c) PROVE IInv'
      BY <1>3, InstallKeeps DEF Deploy
<1>4. ASSUME NEW id \in Id, NEW pem \in Pem, Rotate(id, pem) PROVE IInv'
      BY <1>4, RotateKeeps
<1>5. ASSUME NEW token \in tokens, Expire(token) PROVE IInv'
      BY <1>5, ExpireKeeps
<1> QED BY <1>1, <1>2, <1>3, <1>4, <1>5 DEF Next

(* The invariant holds throughout.                                          *)
LEMMA Invariance == Spec => []IInv
BY InvInit, InvStep, PTL DEF Spec

-----------------------------------------------------------------------------
(* Settings, requests and leases keep their types.                          *)
THEOREM TypeCorrect == Spec => []TypeOK
<1>1. IInv => TypeOK
      BY DEF IInv
<1> QED BY <1>1, Invariance, PTL

(* A request that used up a code or a number can sign, and with a key its   *)
(* settings publish.                                                        *)
THEOREM NumberedSigns == Spec => []NumberedCanSign
<1>1. IInv => NumberedCanSign
  <2> SUFFICES ASSUME IInv, NEW r \in Request, request[r].at = "numbered"
               PROVE  /\ request[r].config.private \in Key
                      /\ Verifies(SignJws(request[r].config),
                                  SigningPublicKeys(request[r].config))
      BY DEF NumberedCanSign
  <2>1. request[r] # Idle
        BY DEF Idle
  <2>2. /\ request[r].config \in Settings
        /\ Accepted(request[r].config) /\ CanSign(request[r].config)
        BY <2>1 DEF IInv, TypeOK, Snapshots
  <2> QED BY <2>2, SignerIsPublished
<1> QED BY <1>1, Invariance, PTL

(* Deployments that keep the public keys still needed listed never leave a  *)
(* lease in the field without the key that verifies it.                     *)
THEOREM LeasesStayVerifiable == Spec => []LeasesVerify
<1>1. IInv => LeasesVerify
      BY DEF IInv, Kept, Current, LeasesVerify
<1> QED BY <1>1, Invariance, PTL

(* The documented rotation is accepted, signs, and publishes one current    *)
(* key besides every earlier one.                                           *)
THEOREM RotationSmooth == Spec => RotationIsSmooth
<1>1. ASSUME IInv, NEW id \in Id, NEW pem \in Pem, Rotate(id, pem)
      PROVE  /\ Accepted(settings') /\ CanSign(settings')
             /\ PublicKeys(settings') =
                  Formerly(PublicKeys(settings))
                     \cup {[kid |-> id, pem |-> pem, current |-> TRUE]}
  <2> DEFINE ring == SigningPublicKeys(settings)
             c == Rotated(id, pem)
  <2>1. TypeOK
        BY <1>1 DEF IInv
  <2>2. settings' = c
        BY <1>1 DEF Rotate, Install
  <2>3. Accepted(c) /\ CanSign(c)
        BY <1>1, <2>1, RotationAddsOne
  <2>4. SigningPublicKeys(c) = [ring EXCEPT ![id] = pem]
        BY <1>1, <2>1, RotationAddsOne
  <2>5. ring \in Keyring
        BY <1>1, <2>1, KeyringType DEF TypeOK, Rotate
  <2>6. ring[id] = None /\ pem # None /\ c.id = id
        BY <1>1, NotKeys DEF Rotate, Rotated
  <2> HIDE DEF ring, c
  <2> DEFINE J == {j \in Id : ring[j] # None}
             Entry(i, b) == [kid |-> i, pem |-> ring[i], current |-> b]
             before == {Entry(i, FALSE) : i \in J}
             new == [kid |-> id, pem |-> pem, current |-> TRUE]
  <2>7. PublicKeys(c) = before \cup {new}
    <3> DEFINE ring2 == SigningPublicKeys(c)
               K == {j \in Id : ring2[j] # None}
               After(i) == [kid |-> i, pem |-> ring2[i], current |-> i = c.id]
    <3>1. \A i \in Id : ring2[i] = IF i = id THEN pem ELSE ring[i]
          BY <2>4, <2>5 DEF Keyring
    <3>2. PublicKeys(c) = {After(i) : i \in K}
          BY DEF PublicKeys
    <3> HIDE DEF ring2
    <3>3. K = J \cup {id}
          BY <3>1, <2>6
    <3>4. After(id) = new
          BY <3>1, <2>6
    <3>5. ASSUME NEW i \in J
          PROVE  After(i) = Entry(i, FALSE)
      <4>1. i # id /\ i \in Id
            BY <2>6
      <4>2. ring2[i] = ring[i] /\ (i = c.id) = FALSE
            BY <4>1, <3>1, <2>6
      <4> QED BY <4>2
    <3> HIDE DEF J, K, Entry, After, new
    <3>6. {After(i) : i \in J \cup {id}} = {Entry(i, FALSE) : i \in J} \cup {new}
      <4>1. \A x : x \in {After(i) : i \in J \cup {id}}
                      <=> x = After(id) \/ \E i \in J : x = After(i)
            OBVIOUS
      <4>2. \A x : x \in {Entry(i, FALSE) : i \in J} \cup {new}
                      <=> x = new \/ \E i \in J : x = Entry(i, FALSE)
            OBVIOUS
      <4> QED BY <4>1, <4>2, <3>4, <3>5
    <3> QED BY <3>2, <3>3, <3>6
  <2>8. Formerly(PublicKeys(settings)) = before
    <3> DEFINE Now(i) == [kid |-> i, pem |-> ring[i], current |-> i = settings.id]
               Past(k) == [kid |-> k.kid, pem |-> k.pem, current |-> FALSE]
    <3>1. PublicKeys(settings) = {Now(i) : i \in J}
          BY DEF PublicKeys, ring
    <3>2. \A i : Past(Now(i)) = Entry(i, FALSE)
          OBVIOUS
    <3>3. Formerly(PublicKeys(settings)) = {Past(k) : k \in PublicKeys(settings)}
          BY DEF Formerly
    <3> HIDE DEF J, Entry, Now, Past
    <3>4. \A x : x \in Formerly(PublicKeys(settings))
                    <=> \E i \in J : x = Entry(i, FALSE)
          BY <3>1, <3>2, <3>3
    <3>5. \A x : x \in before <=> \E i \in J : x = Entry(i, FALSE)
          OBVIOUS
    <3> QED BY <3>4, <3>5
  <2> QED BY <2>2, <2>3, <2>7, <2>8
<1>2. IInv /\ [Next]_vars =>
        [\A id \in Id, pem \in Pem :
           Rotate(id, pem) =>
            /\ Accepted(settings') /\ CanSign(settings')
            /\ PublicKeys(settings') =
                 Formerly(PublicKeys(settings))
                    \cup {[kid |-> id, pem |-> pem, current |-> TRUE]}]_vars
      BY <1>1
<1> QED BY <1>2, Invariance, PTL DEF Spec, RotationIsSmooth

=============================================================================
