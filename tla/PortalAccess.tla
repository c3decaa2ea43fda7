---------------------------- MODULE PortalAccess ----------------------------
(***************************************************************************)
(* What the portals promise about access, without tables, requests or      *)
(* clock: messages, the browsers they let in, and what those browsers do.  *)
(*                                                                         *)
(*   - the token of a message is in no other message, and an owner message *)
(*     goes to a listed address;                                           *)
(*   - a token that was sent lets in one browser, once;                    *)
(*   - who acts was let in by a token sent to the address it acts for, in  *)
(*     that portal, and the address is an owner or a member at that time;  *)
(*   - a session that was ended does nothing more, except for requests     *)
(*     that had found it before.                                           *)
(***************************************************************************)
CONSTANTS Email, Owner, Token, Session, Account, NoAccount

VARIABLES
    sent,       \* <<token, email, portal>> of the messages
    signedIn,   \* <<token, session>> of the browsers let in
    ended,      \* sessions that were ended
    found,      \* sessions that requests under way have found
    members,    \* addresses with access to an account
    accounts,   \* accounts opened by signup
    acted       \* <<portal, session>> of what was done

vars == <<sent, signedIn, ended, found, members, accounts, acted>>

Init ==
    /\ sent = {}
    /\ signedIn = {}
    /\ ended = {}
    /\ found = {}
    /\ members \subseteq Email
    /\ accounts = [a \in Account |-> NoAccount]
    /\ acted = {}

(* The session is open, and came from a message to e of portal p.           *)
IsOf(s, e, p) == \E t \in Token : <<t, s>> \in signedIn /\ <<t, e, p>> \in sent

Open(s, e, p) == s \notin ended /\ IsOf(s, e, p)

Send(t, e, p) ==
    /\ \A m \in sent : m[1] # t
    /\ p = "owner" => e \in Owner
    /\ sent' = sent \cup {<<t, e, p>>}
    /\ UNCHANGED <<signedIn, ended, found, members, accounts, acted>>

LetIn(t, s) ==
    /\ \A i \in signedIn : i[1] # t /\ i[2] # s
    /\ signedIn' = signedIn \cup {<<t, s>>}

SignIn(t, s) ==
    /\ \E m \in sent : m[1] = t
    /\ LetIn(t, s)
    /\ UNCHANGED <<sent, ended, found, members, accounts, acted>>

(* A signup opens an account, for what was asked for with the message that  *)
(* is answered.  The answer that would sign the browser in may be lost.     *)
OpenAccount(a, t, e) ==
    /\ <<t, e, "customer">> \in sent
    /\ accounts[a] = NoAccount
    /\ accounts' = [accounts EXCEPT ![a] =
                      [email |-> e, token |-> t, form |-> t, slug |-> t]]
    /\ members' = members \cup {e}
    /\ signedIn' = signedIn \/ \E s \in Session : LetIn(t, s)
    /\ UNCHANGED <<sent, ended, found, acted>>

Grant(e) ==
    /\ members' = members \cup {e}
    /\ UNCHANGED <<sent, signedIn, ended, found, accounts, acted>>

Find(s) ==
    /\ \E e \in Email : Open(s, e, "customer")
    /\ found' = found \cup {s}
    /\ UNCHANGED <<sent, signedIn, ended, members, accounts, acted>>

(* Requests that had found a session are over.                              *)
Forget ==
    /\ found' \subseteq found
    /\ UNCHANGED <<sent, signedIn, ended, members, accounts, acted>>

OwnerActs(s) ==
    /\ \E e \in Owner : Open(s, e, "owner")
    /\ acted' = acted \cup {<<"owner", s>>}
    /\ UNCHANGED <<sent, signedIn, ended, found, members, accounts>>

CustomerActs(s) ==
    /\ s \in found
    /\ \E e \in members : IsOf(s, e, "customer")
    /\ acted' = acted \cup {<<"customer", s>>}
    /\ found' \subseteq found
    /\ UNCHANGED <<sent, signedIn, ended, members, accounts>>

End(s) ==
    /\ \E i \in signedIn : i[2] = s
    /\ ended' = ended \cup {s}
    /\ UNCHANGED <<sent, signedIn, found, members, accounts, acted>>

Next ==
    \/ Forget
    \/ \E s \in Session :
         \/ Find(s)
         \/ OwnerActs(s)
         \/ CustomerActs(s)
         \/ End(s)
    \/ \E t \in Token, s \in Session : SignIn(t, s)
    \/ \E t \in Token, e \in Email :
         \/ \E p \in {"customer", "owner"} : Send(t, e, p)
         \/ \E a \in Account : OpenAccount(a, t, e)
    \/ \E e \in Email : Grant(e)

Spec == Init /\ [][Next]_vars

=============================================================================
