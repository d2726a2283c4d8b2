---------------------------- MODULE AccessProofs ----------------------------
(***************************************************************************)
(* Proofs about Access, for any handlers, users, channels, rules, roles    *)
(* and namespaces.                                                         *)
(*                                                                         *)
(* AccessIsCurrent speaks of the subscriptions table only.  An entry of it *)
(* is decided at one step and stored at a later one, so the invariant says *)
(* the same of the subscribe command between the two: what it carries is   *)
(* what the checker allows now, or it is marked stale.                     *)
(*                                                                         *)
(* RuleApplies is about the matcher: what its loop returns from a place of *)
(* the pattern follows, from the end of the pattern backwards, from what   *)
(* it returns from later places.                                           *)
(***************************************************************************)
EXTENDS Access, NaturalsInduction, WellFoundedInduction, TLAPS

(* A set of natural numbers that is not empty has a least element. *)
LEMMA LeastExists ==
  ASSUME NEW S \in SUBSET Nat, S # {}
  PROVE  \E i \in S : \A j \in S : i <= j
<1>1. PICK i \in S : \A j \in S : ~(<<j, i>> \in OpToRel(<, Nat))
  BY WFMin, NatLessThanWellFounded
<1>2. ASSUME NEW j \in S PROVE i <= j
  <2>1. i \in Nat /\ j \in Nat
    OBVIOUS
  <2>2. ~(j < i)
    BY <1>1, <2>1 DEF OpToRel
  <2> QED
    BY <2>1, <2>2
<1> QED
  BY <1>2

(* The least of a set. *)
LEMMA LeastIs ==
  ASSUME NEW S \in SUBSET Nat, S # {}
  PROVE  Least(S) \in S /\ \A j \in S : Least(S) <= j
BY LeastExists DEF Least

(* findRule returns one of the rules or the default one. *)
LEMMA RuleFound ==
  ASSUME TypeOK, NEW ch \in Channels
  PROVE  findRule(ch) \in RuleSet \cup DefaultRules \cup {DefaultRule}
<1>1. CASE matching(ch) = {}
  BY <1>1 DEF findRule, TypeOK
<1>2. CASE matching(ch) # {}
  <2>1. matching(ch) \in SUBSET Nat
    BY DEF matching, TypeOK
  <2>2. Least(matching(ch)) \in matching(ch)
    BY <1>2, <2>1, LeastIs
  <2>3. PICK i \in matching(ch) : findRule(ch) = rules[i]
    BY <1>2, <2>2 DEF findRule
  <2>4. i \in DOMAIN rules
    BY <2>3 DEF matching
  <2> QED
    BY <2>3, <2>4 DEF TypeOK
<1> QED
  BY <1>1, <1>2

(* The permissions of a user are made of the known ones. *)
LEMMA PermissionsType ==
  ASSUME TypeOK, NEW u \in Users, NEW ch \in Channels
  PROVE  GetUserPermissions(u, ch) \in SUBSET Perms
<1> USE AccessAssumption
<1>1. findRule(ch).perms \subseteq Perms
  BY RuleFound
<1>2. ASSUME NEW r \in userRoles[u], rolePermissions[r] # None
      PROVE  rolePermissions[r] \subseteq Perms
  BY <1>2 DEF TypeOK
<1>3. userPermissions[<<u, ch>>] # None => userPermissions[<<u, ch>>] \subseteq Perms
  BY DEF TypeOK
<1> QED
  BY <1>1, <1>2, <1>3 DEF GetUserPermissions

-----------------------------------------------------------------------------
(* Types *)

(* A change of the checker marks what was decided before it. *)
LEMMA OutdateType ==
  ASSUME TypeOK, Outdate
  PROVE  /\ outdated' \in [Handlers -> SUBSET Channels]
         /\ pending' \in [Handlers -> PendingType \cup {None}]
         /\ UNCHANGED <<userID, subscriptions>>
<1>1. ASSUME NEW h \in Handlers, pending[h] # None
      PROVE  [pending[h] EXCEPT !.stale = TRUE] \in PendingType
  <2>1. PICK r \in PendingType : r = pending[h]
    BY <1>1 DEF TypeOK
  <2>2. [r EXCEPT !.stale = TRUE] \in PendingType
    BY DEF PendingType
  <2> QED
    BY <2>1, <2>2
<1>2. pending' \in [Handlers -> PendingType \cup {None}]
  BY <1>1 DEF Outdate
<1> QED
  BY <1>2 DEF Outdate

(* A change takes one from what is left of its bound. *)
LEMMA BudgetType ==
  ASSUME TypeOK
  PROVE  /\ budget.changes > 0 =>
              [budget EXCEPT !.changes = @ - 1] \in [rules : Nat, changes : Nat]
         /\ budget.rules > 0 =>
              [budget EXCEPT !.rules = @ - 1] \in [rules : Nat, changes : Nat]
<1>1. PICK b \in [rules : Nat, changes : Nat] : b = budget
  BY DEF TypeOK
<1>2. /\ b.changes > 0 =>
           [b EXCEPT !.changes = @ - 1] \in [rules : Nat, changes : Nat]
      /\ b.rules > 0 =>
           [b EXCEPT !.rules = @ - 1] \in [rules : Nat, changes : Nat]
  OBVIOUS
<1> QED
  BY <1>1, <1>2

(* The methods of the checker keep the types. *)
LEMMA CheckerType == ASSUME TypeOK, ChangeChecker PROVE TypeOK'
<1> USE AccessAssumption
<1>1. ASSUME NEW rule \in RuleSet, AddRule(rule) PROVE TypeOK'
  <2>1. rules' \in Seq(RuleSet)
    BY <1>1 DEF AddRule, TypeOK
  <2> QED
    BY <1>1, <2>1, OutdateType, BudgetType
       DEF AddRule, ChangeRules, TypeOK, manager
<1>2. ASSUME NEW rule \in DefaultRules, SetDefaultRule(rule) PROVE TypeOK'
  BY <1>2, OutdateType, BudgetType DEF SetDefaultRule, ChangeRules, TypeOK, manager
<1>3. ASSUME NEW u \in Users, NEW ch \in Channels,
             NEW perm \in Permissions \cup {None}, Change,
             userPermissions' = [userPermissions EXCEPT ![<<u, ch>>] = perm],
             UNCHANGED <<rules, defaultRule, rolePermissions, userRoles,
                         requireAuth>>
      PROVE  TypeOK'
  <2>1. userPermissions' \in [Users \X Channels -> Permissions \cup {None}]
    BY <1>3 DEF TypeOK
  <2> QED
    BY <1>3, <2>1, OutdateType, BudgetType DEF Change, TypeOK, manager
<1>4. ASSUME NEW r \in Roles, NEW perm \in Permissions, SetRolePermission(r, perm)
      PROVE  TypeOK'
  BY <1>4, OutdateType, BudgetType DEF SetRolePermission, Change, TypeOK, manager
<1>5. ASSUME NEW r \in Roles, NEW u \in Users, AssignRole(u, r) \/ RemoveRole(u, r)
      PROVE  TypeOK'
  <2>1. PICK S \in SUBSET Roles : userRoles' = [userRoles EXCEPT ![u] = S]
    <3>1. userRoles[u] \cup {r} \in SUBSET Roles /\ userRoles[u] \ {r} \in SUBSET Roles
      BY DEF TypeOK
    <3> QED
      BY <1>5, <3>1 DEF AssignRole, RemoveRole
  <2>2. userRoles' \in [Users -> SUBSET Roles]
    BY <2>1 DEF TypeOK
  <2>3. Change /\ UNCHANGED <<rules, defaultRule, userPermissions,
                              rolePermissions, requireAuth>>
    BY <1>5 DEF AssignRole, RemoveRole
  <2> QED
    BY <2>2, <2>3, OutdateType, BudgetType DEF Change, TypeOK, manager
<1>6. ASSUME NEW require \in BOOLEAN, SetRequireAuth(require) PROVE TypeOK'
  BY <1>6, OutdateType, BudgetType DEF SetRequireAuth, Change, TypeOK, manager
<1> QED
  BY <1>1, <1>2, <1>3, <1>4, <1>5, <1>6
     DEF ChangeChecker, RemoveUserPermission, SetUserPermission

(* So do the methods of the namespace manager. *)
LEMMA NamespacesType == ASSUME TypeOK, ChangeNamespaces PROVE TypeOK'
<1>1. PICK ns \in Namespaces : Register(ns) \/ Remove(ns) \/ SetDefault(ns)
  BY DEF ChangeNamespaces
<1>2. registered' \subseteq Namespaces /\ defaultNS' \in Namespaces \cup {DefaultNS}
  BY <1>1 DEF Register, Remove, SetDefault, TypeOK
<1>3. budget' \in [rules : Nat, changes : Nat]
  BY <1>1, BudgetType DEF Register, Remove, SetDefault, Configure
<1>4. UNCHANGED <<checker, handler, outdated>>
  BY <1>1 DEF Register, Remove, SetDefault, Configure
<1> QED
  BY <1>2, <1>3, <1>4 DEF TypeOK, checker, handler

(* What CheckSubscribe grants is the permissions of the user. *)
LEMMA Granted ==
  ASSUME NEW h \in Handlers, NEW ch \in Channels, SubscribeCheck(h, ch)
  PROVE  /\ "subscribe" \in GetUserPermissions(userID[h], ch)
         /\ pending' = [pending EXCEPT ![h] =
              [ch |-> ch, perm |-> GetUserPermissions(userID[h], ch),
               stale |-> FALSE]]
BY DEF SubscribeCheck, CheckSubscribe

(* Type correctness: one step per command. *)
LEMMA TypeStep == ASSUME TypeOK, [Next]_vars PROVE TypeOK'
<1> USE AccessAssumption
<1>1. ASSUME NEW h \in Handlers, NEW token \in Tokens, handleConnect(h, token)
      PROVE  TypeOK'
  <2>1. extractUserFromToken(token) \in Users
    BY DEF extractUserFromToken, Tokens
  <2>2. userID' \in [Handlers -> Users \cup {None}]
    BY <1>1, <2>1 DEF handleConnect, TypeOK
  <2>3. PICK S \in SUBSET Channels : outdated' = [outdated EXCEPT ![h] = S]
    <3>1. outdated[h] \in SUBSET Channels
      BY DEF TypeOK
    <3> QED
      BY <1>1, <3>1 DEF handleConnect
  <2>4. outdated' \in [Handlers -> SUBSET Channels]
    BY <2>3 DEF TypeOK
  <2> QED
    BY <1>1, <2>2, <2>4 DEF handleConnect, TypeOK, checker, manager
<1>2. ASSUME NEW h \in Handlers, NEW ch \in Channels, SubscribeCheck(h, ch)
      PROVE  TypeOK'
  <2>1. userID[h] \in Users
    BY <1>2 DEF SubscribeCheck, TypeOK
  <2>2. PICK perm \in SUBSET Perms : perm = GetUserPermissions(userID[h], ch)
    BY <2>1, PermissionsType
  <2>3. [ch |-> ch, perm |-> perm, stale |-> FALSE] \in PendingType
    BY DEF PendingType
  <2>4. pending' \in [Handlers -> PendingType \cup {None}]
    <3>1. PICK r \in PendingType :
            r = [ch |-> ch, perm |-> perm, stale |-> FALSE]
      BY <2>3
    <3>2. pending' = [pending EXCEPT ![h] = r]
      BY <1>2, <2>2, <3>1, Granted
    <3> QED
      BY <3>2 DEF TypeOK
  <2> QED
    BY <1>2, <2>4 DEF SubscribeCheck, TypeOK, checker, manager
<1>3. ASSUME NEW h \in Handlers, SubscribeStore(h) PROVE TypeOK'
  <2>1. PICK r \in PendingType : r = pending[h]
    BY <1>3 DEF SubscribeStore, TypeOK
  <2>2. r.ch \in Channels /\ r.perm \in SUBSET Perms
    BY DEF PendingType
  <2>3. subscriptions' = [subscriptions EXCEPT ![h][r.ch] = r.perm]
    BY <1>3, <2>1 DEF SubscribeStore, Enter
  <2>4. subscriptions' \in [Handlers -> [Channels -> (SUBSET Perms) \cup {None}]]
    BY <2>2, <2>3 DEF TypeOK
  <2>5. PICK S \in SUBSET Channels : outdated' = [outdated EXCEPT ![h] = S]
    <3>1. outdated[h] \cup {r.ch} \in SUBSET Channels
            /\ outdated[h] \ {r.ch} \in SUBSET Channels
      BY <2>2 DEF TypeOK
    <3> QED
      BY <1>3, <2>1, <3>1 DEF SubscribeStore, Enter
  <2>6. outdated' \in [Handlers -> SUBSET Channels]
    BY <2>5 DEF TypeOK
  <2>7. pending' \in [Handlers -> PendingType \cup {None}]
    BY <1>3 DEF SubscribeStore, Enter, TypeOK
  <2> QED
    BY <1>3, <2>4, <2>6, <2>7 DEF SubscribeStore, Enter, TypeOK, checker, manager
<1>4. ASSUME NEW h \in Handlers, SubscribeFails(h) PROVE TypeOK'
  BY <1>4 DEF SubscribeFails, TypeOK, checker, manager
<1>5. ASSUME NEW h \in Handlers, NEW ch \in Channels, handleUnsubscribe(h, ch)
      PROVE  TypeOK'
  <2>1. subscriptions' \in [Handlers -> [Channels -> (SUBSET Perms) \cup {None}]]
    BY <1>5 DEF handleUnsubscribe, TypeOK
  <2>2. outdated' \in [Handlers -> SUBSET Channels]
    BY <1>5 DEF handleUnsubscribe, TypeOK
  <2> QED
    BY <1>5, <2>1, <2>2 DEF handleUnsubscribe, TypeOK, checker, manager
<1>6. CASE UNCHANGED vars
  BY <1>6 DEF vars, TypeOK, checker, manager, handler
<1> QED
  BY <1>1, <1>2, <1>3, <1>4, <1>5, <1>6, CheckerType, NamespacesType DEF Next

(* The initial state is well typed. *)
LEMMA InitType == ASSUME Init PROVE TypeOK
<1> USE AccessAssumption
<1>1. rules \in Seq(RuleSet) /\ defaultRule \in DefaultRules \cup {DefaultRule}
  BY DEF Init
<1>2. /\ userPermissions \in [Users \X Channels -> Permissions \cup {None}]
      /\ rolePermissions \in [Roles -> Permissions \cup {None}]
      /\ userRoles \in [Users -> SUBSET Roles]
  BY DEF Init
<1>3. /\ userID \in [Handlers -> Users \cup {None}]
      /\ pending \in [Handlers -> PendingType \cup {None}]
      /\ outdated \in [Handlers -> SUBSET Channels]
  BY DEF Init
<1>4. subscriptions \in [Handlers -> [Channels -> (SUBSET Perms) \cup {None}]]
  BY DEF Init
<1>5. requireAuth \in BOOLEAN /\ budget \in [rules : Nat, changes : Nat]
  BY DEF Init
<1>6. registered \subseteq Namespaces /\ defaultNS \in Namespaces \cup {DefaultNS}
  BY DEF Init
<1> QED
  BY <1>1, <1>2, <1>3, <1>4, <1>5, <1>6 DEF TypeOK

(* The variables keep their types. *)
THEOREM TypeCorrect == Spec => []TypeOK
<1>1. Init => TypeOK
  BY InitType
<1>2. TypeOK /\ [Next]_vars => TypeOK'
  BY TypeStep
<1> QED
  BY <1>1, <1>2, PTL DEF Spec

-----------------------------------------------------------------------------
(* What is accepted is allowed *)

(* An entry of the table that is not outdated. *)
Entered(h, ch) ==
  subscriptions[h][ch] # None /\ ch \notin outdated[h] =>
    /\ subscriptions[h][ch] = GetUserPermissions(userID[h], ch)
    /\ "subscribe" \in subscriptions[h][ch]

(* A subscribe command between the check and the entry. *)
Decided(h) ==
  pending[h] # None /\ ~pending[h].stale =>
    /\ pending[h].perm = GetUserPermissions(userID[h], pending[h].ch)
    /\ "subscribe" \in pending[h].perm

AccessInv ==
  /\ TypeOK
  /\ \A h \in Handlers, ch \in Channels : Entered(h, ch)
  /\ \A h \in Handlers : Decided(h)

(* The answer of the checker depends on nothing but the checker. *)
LEMMA SameAnswer ==
  ASSUME NEW u, NEW ch, UNCHANGED checker
  PROVE  GetUserPermissions(u, ch)' = GetUserPermissions(u, ch)
BY DEF checker, GetUserPermissions, findRule, matching

(* The inductive step of AccessInv: one step per kind of action. *)
LEMMA AccessStep == ASSUME AccessInv, [Next]_vars PROVE AccessInv'
<1> USE AccessAssumption
<1>0. /\ TypeOK /\ TypeOK'
      /\ \A h \in Handlers, ch \in Channels : Entered(h, ch)
      /\ \A h \in Handlers : Decided(h)
  BY TypeStep DEF AccessInv
<1> SUFFICES ASSUME NEW h \in Handlers
             PROVE  Decided(h)' /\ \A ch \in Channels : Entered(h, ch)'
  BY <1>0 DEF AccessInv
<1>1. ASSUME UNCHANGED checker, userID'[h] = userID[h], pending'[h] \in {pending[h], None}
      PROVE  Decided(h)'
  <2>1. CASE pending'[h] = None
    BY <2>1 DEF Decided
  <2>2. CASE pending'[h] = pending[h]
    <3>1. PICK r : r = pending[h]
      OBVIOUS
    <3>2. PICK u : u = userID[h]
      OBVIOUS
    <3>3. r # None /\ ~r.stale =>
            r.perm = GetUserPermissions(u, r.ch) /\ "subscribe" \in r.perm
      BY <1>0, <3>1, <3>2 DEF Decided
    <3>4. GetUserPermissions(u, r.ch)' = GetUserPermissions(u, r.ch)
      BY <1>1, SameAnswer
    <3> QED
      BY <1>1, <2>2, <3>1, <3>2, <3>3, <3>4 DEF Decided
  <2> QED
    BY <1>1, <2>1, <2>2
<1>2. ASSUME NEW ch \in Channels, UNCHANGED checker, userID'[h] = userID[h],
             subscriptions'[h][ch] = subscriptions[h][ch],
             ch \in outdated[h] => ch \in outdated'[h]
      PROVE  Entered(h, ch)'
  <2>1. PICK u : u = userID[h]
    OBVIOUS
  <2>2. GetUserPermissions(u, ch)' = GetUserPermissions(u, ch)
    BY <1>2, SameAnswer
  <2>3. Entered(h, ch)
    BY <1>0
  <2> QED
    BY <1>2, <2>1, <2>2, <2>3 DEF Entered
<1>3. CASE ChangeNamespaces \/ UNCHANGED vars
  <2>1. UNCHANGED <<checker, userID, subscriptions, pending, outdated>>
    BY <1>3 DEF ChangeNamespaces, Register, Remove, SetDefault, Configure,
                handler, vars
  <2> QED
    BY <1>1, <1>2, <2>1
<1>4. CASE ChangeChecker
  <2>1. Outdate
    BY <1>4 DEF ChangeChecker, AddRule, SetDefaultRule, SetUserPermission,
                RemoveUserPermission, SetRolePermission, AssignRole, RemoveRole,
                SetRequireAuth, Change, ChangeRules
  <2>2. Decided(h)'
    <3>1. CASE pending[h] = None
      BY <2>1, <3>1 DEF Outdate, Decided
    <3>2. CASE pending[h] # None
      <4>1. PICK r \in PendingType : r = pending[h]
        BY <1>0, <3>2 DEF TypeOK
      <4>2. [r EXCEPT !.stale = TRUE].stale
        BY DEF PendingType
      <4>3. pending'[h] = [r EXCEPT !.stale = TRUE]
        BY <2>1, <3>2, <4>1 DEF Outdate
      <4> QED
        BY <4>2, <4>3 DEF Decided
    <3> QED
      BY <3>1, <3>2
  <2>3. ASSUME NEW ch \in Channels PROVE Entered(h, ch)'
    BY <2>1 DEF Outdate, Entered
  <2> QED
    BY <2>2, <2>3
<1>5. ASSUME NEW g \in Handlers, NEW token \in Tokens, handleConnect(g, token)
      PROVE  Decided(h)' /\ \A ch \in Channels : Entered(h, ch)'
  <2>0. UNCHANGED <<checker, subscriptions, pending>> /\ pending[g] = None
    BY <1>5 DEF handleConnect
  <2>1. CASE userID'[h] = userID[h]
    <3>1. outdated[h] \subseteq outdated'[h]
      BY <1>0, <1>5 DEF handleConnect, TypeOK
    <3> QED
      BY <1>1, <1>2, <2>0, <2>1, <3>1
  <2>2. CASE userID'[h] # userID[h]
    <3>1. h = g
      BY <1>0, <1>5, <2>2 DEF handleConnect, TypeOK
    <3>2. Decided(h)'
      BY <2>0, <3>1 DEF Decided
    <3>3. \A ch \in Channels : subscriptions[h][ch] # None => ch \in outdated'[h]
      <4>1. userID'[h] = extractUserFromToken(token)
        BY <1>0, <1>5, <3>1 DEF handleConnect, TypeOK
      <4>2. outdated'[h] =
              outdated[h] \cup {ch \in Channels : subscriptions[h][ch] # None}
        BY <1>0, <1>5, <2>2, <3>1, <4>1 DEF handleConnect, TypeOK
      <4> QED
        BY <4>2
    <3> QED
      BY <2>0, <3>2, <3>3 DEF Entered
  <2> QED
    BY <2>1, <2>2
<1>6. ASSUME NEW g \in Handlers, NEW c \in Channels, SubscribeCheck(g, c)
      PROVE  Decided(h)' /\ \A ch \in Channels : Entered(h, ch)'
  <2>0. UNCHANGED <<checker, userID, subscriptions, outdated>>
    BY <1>6 DEF SubscribeCheck
  <2>1. \A ch \in Channels : Entered(h, ch)'
    BY <1>2, <2>0
  <2>2. PICK u : u = userID[g]
    OBVIOUS
  <2>3. PICK r : r = [ch |-> c, perm |-> GetUserPermissions(u, c), stale |-> FALSE]
    OBVIOUS
  <2>4. /\ "subscribe" \in GetUserPermissions(u, c)
        /\ pending' = [pending EXCEPT ![g] = r]
    BY <1>6, <2>2, <2>3, Granted
  <2>5. CASE h # g
    BY <1>0, <1>1, <2>0, <2>1, <2>4, <2>5 DEF TypeOK
  <2>6. CASE h = g
    <3>1. pending'[h] = r /\ userID'[h] = u
      BY <1>0, <2>0, <2>2, <2>4, <2>6 DEF TypeOK
    <3>2. r.ch = c /\ r.perm = GetUserPermissions(u, c)
      BY <2>3
    <3>3. GetUserPermissions(u, c)' = GetUserPermissions(u, c)
      BY <2>0, SameAnswer
    <3> QED
      BY <2>1, <2>4, <3>1, <3>2, <3>3 DEF Decided
  <2> QED
    BY <2>5, <2>6
<1>7. ASSUME NEW g \in Handlers, SubscribeStore(g)
      PROVE  Decided(h)' /\ \A ch \in Channels : Entered(h, ch)'
  <2>0. UNCHANGED <<checker, userID>> /\ pending' = [pending EXCEPT ![g] = None]
    BY <1>7 DEF SubscribeStore, Enter
  <2>1. Decided(h)'
    BY <1>0, <1>1, <2>0 DEF TypeOK
  <2>2. PICK r \in PendingType : r = pending[g]
    BY <1>0, <1>7 DEF SubscribeStore, TypeOK
  <2>3. /\ subscriptions' = [subscriptions EXCEPT ![g][r.ch] = r.perm]
        /\ outdated' = [outdated EXCEPT ![g] = IF r.stale THEN @ \cup {r.ch}
                                               ELSE @ \ {r.ch}]
    BY <1>7, <2>2 DEF SubscribeStore, Enter
  <2>4. ASSUME NEW ch \in Channels PROVE Entered(h, ch)'
    <3>1. CASE ~(h = g /\ ch = r.ch)
      <4>1. subscriptions'[h][ch] = subscriptions[h][ch]
        BY <1>0, <2>3, <3>1 DEF TypeOK
      <4>2. ch \in outdated[h] => ch \in outdated'[h]
        BY <1>0, <2>3, <3>1 DEF TypeOK
      <4> QED
        BY <1>2, <2>0, <4>1, <4>2
    <3>2. CASE h = g /\ ch = r.ch
      <4>1. subscriptions'[h][ch] = r.perm
        BY <1>0, <2>3, <3>2 DEF TypeOK
      <4>2. r.stale => ch \in outdated'[h]
        BY <1>0, <2>3, <3>2 DEF TypeOK
      <4>3. PICK u : u = userID[h]
        OBVIOUS
      <4>4. ~r.stale => /\ r.perm = GetUserPermissions(u, ch)
                        /\ "subscribe" \in r.perm
        BY <1>0, <1>7, <2>2, <3>2, <4>3 DEF SubscribeStore, Decided
      <4>5. GetUserPermissions(u, ch)' = GetUserPermissions(u, ch)
        BY <2>0, SameAnswer
      <4> QED
        BY <2>0, <4>1, <4>2, <4>3, <4>4, <4>5 DEF Entered
    <3> QED
      BY <3>1, <3>2
  <2> QED
    BY <2>1, <2>4
<1>8. ASSUME NEW g \in Handlers, SubscribeFails(g)
      PROVE  Decided(h)' /\ \A ch \in Channels : Entered(h, ch)'
  <2>1. /\ UNCHANGED <<checker, userID, subscriptions, outdated>>
        /\ pending' = [pending EXCEPT ![g] = None]
    BY <1>8 DEF SubscribeFails
  <2>2. pending'[h] \in {pending[h], None}
    BY <1>0, <2>1 DEF TypeOK
  <2> QED
    BY <1>1, <1>2, <2>1, <2>2
<1>9. ASSUME NEW g \in Handlers, NEW c \in Channels, handleUnsubscribe(g, c)
      PROVE  Decided(h)' /\ \A ch \in Channels : Entered(h, ch)'
  <2>0. UNCHANGED <<checker, userID, pending>>
    BY <1>9 DEF handleUnsubscribe
  <2>1. ASSUME NEW ch \in Channels PROVE Entered(h, ch)'
    <3>1. CASE h = g /\ ch = c
      <4>1. subscriptions'[h][ch] = None
        BY <1>0, <1>9, <3>1 DEF handleUnsubscribe, TypeOK
      <4> QED
        BY <4>1 DEF Entered
    <3>2. CASE ~(h = g /\ ch = c)
      <4>1. /\ subscriptions'[h][ch] = subscriptions[h][ch]
            /\ ch \in outdated[h] => ch \in outdated'[h]
        BY <1>0, <1>9, <3>2 DEF handleUnsubscribe, TypeOK
      <4> QED
        BY <1>2, <2>0, <4>1
    <3> QED
      BY <3>1, <3>2
  <2> QED
    BY <1>1, <2>0, <2>1
<1> QED
  BY <1>3, <1>4, <1>5, <1>6, <1>7, <1>8, <1>9 DEF Next

(* What a handler accepts is what the checker allows its user now, unless   *)
(* the entry in its table is older than the last change, however commands   *)
(* and changes are interleaved.                                             *)
THEOREM AcceptedIsAllowed == Spec => []AccessIsCurrent
<1>1. Init => AccessInv
  <2> SUFFICES ASSUME Init PROVE AccessInv
    OBVIOUS
  <2>1. /\ \A h \in Handlers, ch \in Channels : subscriptions[h][ch] = None
        /\ \A h \in Handlers : pending[h] = None
    BY DEF Init
  <2> QED
    BY <2>1, InitType DEF AccessInv, Entered, Decided
<1>2. AccessInv /\ [Next]_vars => AccessInv'
  BY AccessStep
<1>3. AccessInv => AccessIsCurrent
  <2> SUFFICES ASSUME AccessInv, NEW h \in Handlers, NEW ch \in Channels,
                      ch \notin outdated[h]
               PROVE  LET allowed == GetUserPermissions(userID[h], ch) IN
                      /\ handlePublishAccepts(h, ch) => "publish" \in allowed
                      /\ handlePresenceAccepts(h, ch) =>
                           {"presence", "subscribe"} \subseteq allowed
                      /\ handleHistoryAccepts(h, ch) =>
                           {"history", "subscribe"} \subseteq allowed
    BY DEF AccessIsCurrent
  <2>1. PICK allowed : allowed = GetUserPermissions(userID[h], ch)
    OBVIOUS
  <2>2. Cached(h, ch) = {} \/ (Cached(h, ch) = allowed /\ "subscribe" \in allowed)
    BY <2>1 DEF AccessInv, Entered, Cached
  <2>3. CheckPublish(userID[h], ch) => "publish" \in allowed
    BY <2>1 DEF CheckPublish
  <2> QED
    BY <2>1, <2>2, <2>3 DEF handlePublishAccepts, handlePresenceAccepts,
                            handleHistoryAccepts
<1> QED
  BY <1>1, <1>2, <1>3, PTL DEF Spec

-----------------------------------------------------------------------------
(* Patterns *)

(* Induction from n + 1 down to 1. *)
LEMMA Downward ==
  ASSUME NEW n \in Nat, NEW S, n + 1 \in S,
         \A m \in 1 .. n : (\A k \in m + 1 .. n + 1 : k \in S) => m \in S
  PROVE  \A m \in 1 .. n + 1 : m \in S
<1>0. PICK T : T = {k \in 0 .. n : n + 1 - k \notin S}
  OBVIOUS
<1>1. T \in SUBSET Nat /\ T = {k \in 0 .. n : n + 1 - k \notin S}
  BY <1>0
<1>2. T = {}
  <2>1. SUFFICES ASSUME T # {} PROVE FALSE
    OBVIOUS
  <2>2. PICK i \in T : \A j \in T : i <= j
    BY <1>1, <2>1, LeastExists
  <2>3. i \in 0 .. n /\ n + 1 - i \notin S
    BY <1>1, <2>2
  <2>4. i # 0
    BY <2>3
  <2>5. n + 1 - i \in 1 .. n
    BY <2>3, <2>4
  <2>6. ASSUME NEW k \in (n + 1 - i) + 1 .. n + 1 PROVE k \in S
    <3>1. n + 1 - k \in 0 .. n /\ n + 1 - k < i /\ n + 1 - (n + 1 - k) = k
      BY <2>3
    <3>2. n + 1 - k \notin T
      BY <2>2, <2>3, <3>1
    <3> QED
      BY <1>1, <3>1, <3>2
  <2> QED
    BY <2>3, <2>5, <2>6
<1>3. ASSUME NEW m \in 1 .. n + 1 PROVE m \in S
  <2>1. n + 1 - m \in 0 .. n /\ n + 1 - (n + 1 - m) = m
    OBVIOUS
  <2> QED
    BY <1>1, <1>2, <2>1
<1> QED
  BY <1>3

(* The literal from position i on. *)
LEMMA LiteralIs ==
  ASSUME NEW p, Name(p), NEW i \in 1 .. Len(p) + 1, NEW l, l = Literal(p, i)
  PROVE  /\ Len(l) \in Nat /\ i + Len(l) <= Len(p) + 1
         /\ \A j \in 1 .. Len(l) : l[j] = p[i + j - 1] /\ p[i + j - 1] # Star
<1>1. PICK Z : p \in Seq(Z)
  BY DEF Name
<1>2. Len(p) \in Nat
  BY <1>1
<1>3. PICK stars : stars = {k \in i .. Len(p) : p[k] = Star}
  OBVIOUS
<1>9. stars \in SUBSET Nat
  BY <1>2, <1>3
<1>4. PICK end : end = IF stars = {} THEN Len(p) ELSE Least(stars) - 1
  OBVIOUS
<1>5. /\ end \in Nat /\ i - 1 <= end /\ end <= Len(p)
      /\ \A k \in i .. end : p[k] # Star
  <2>1. CASE stars = {}
    <3>1. end = Len(p)
      BY <1>4, <2>1
    <3>2. \A k \in i .. Len(p) : p[k] # Star
      BY <1>3, <2>1
    <3> QED
      BY <1>2, <3>1, <3>2
  <2>2. CASE stars # {}
    <3>1. Least(stars) \in stars /\ \A j \in stars : Least(stars) <= j
      BY <1>9, <2>2, LeastIs
    <3>2. PICK k : k = Least(stars)
      OBVIOUS
    <3>3. k \in i .. Len(p) /\ end = k - 1 /\ \A j \in stars : k <= j
      BY <1>3, <1>4, <2>2, <3>1, <3>2
    <3> QED
      BY <1>2, <1>3, <3>3
  <2> QED
    BY <2>1, <2>2
<1>6. l = SubSeq(p, i, end)
  BY <1>3, <1>4 DEF Literal
<1>7. Len(l) = end - i + 1 /\ \A j \in 1 .. end - i + 1 : l[j] = p[i + j - 1]
  BY <1>1, <1>2, <1>5, <1>6
<1>8. ASSUME NEW j \in 1 .. Len(l) PROVE p[i + j - 1] # Star
  <2>1. i + j - 1 \in i .. end
    BY <1>2, <1>5, <1>7
  <2> QED
    BY <1>5, <2>1
<1> QED
  BY <1>2, <1>5, <1>7, <1>8

(* A turn of the loop asks for later places of the pattern only. *)
LEMMA TurnLocal ==
  ASSUME NEW p, NEW c, Name(p), NEW f, NEW g, NEW pi \in 1 .. Len(p) + 1, NEW ci,
         \A x \in pi + 1 .. Len(p) + 1 : f[x] = g[x]
  PROVE  Turn(p, c, f, pi, ci) = Turn(p, c, g, pi, ci)
<1>1. Len(p) \in Nat
  BY DEF Name
<1>2. CASE pi <= Len(p)
  <2>1. pi + 1 \in 1 .. Len(p) + 1 /\ pi + 1 \in pi + 1 .. Len(p) + 1
    BY <1>1, <1>2
  <2>2. PICK l : l = Literal(p, pi + 1)
    OBVIOUS
  <2>3. pi + 1 + Len(l) \in pi + 1 .. Len(p) + 1
    BY <1>1, <2>1, <2>2, LiteralIs
  <2>4. f[pi + 1] = g[pi + 1] /\ f[pi + 1 + Len(l)] = g[pi + 1 + Len(l)]
    BY <2>1, <2>3
  <2> QED
    BY <2>2, <2>4 DEF Turn
<1>3. CASE ~(pi <= Len(p))
  BY <1>3 DEF Turn
<1> QED
  BY <1>2, <1>3

(* The loop is defined from every place. *)
LEMMA ScanIs ==
  ASSUME NEW p, NEW c, Name(p), Name(c), NEW pi \in 1 .. Len(p) + 1,
         NEW ci \in 1 .. Len(c) + 1
  PROVE  Scan(p, c)[pi][ci] = Turn(p, c, Scan(p, c), pi, ci)
<1>1. Len(p) \in Nat /\ Len(c) \in Nat
  BY DEF Name
<1> DEFINE row(f, x) == [y \in 1 .. Len(c) + 1 |-> Turn(p, c, f, x, y)]
           D == 1 .. Len(p) + 1
           good(f, m) == /\ f = [x \in D |-> f[x]]
                         /\ \A x \in D : x >= m => f[x] = row(f, x)
           S == {m \in 1 .. Len(p) + 1 : \E f : good(f, m)}
<1>2. Len(p) + 1 \in S
  <2>1. PICK f : f = [x \in D |-> row(p, x)]
    OBVIOUS
  <2>2. good(f, Len(p) + 1)
    <3>1. f = [x \in D |-> f[x]]
      BY <2>1
    <3>2. ASSUME NEW x \in D, x >= Len(p) + 1 PROVE f[x] = row(f, x)
      <4>1. x = Len(p) + 1 /\ \A y \in x + 1 .. Len(p) + 1 : f[y] = p[y]
        BY <1>1, <3>2
      <4>2. ASSUME NEW y \in 1 .. Len(c) + 1 PROVE Turn(p, c, p, x, y) = Turn(p, c, f, x, y)
        BY <4>1, TurnLocal
      <4>3. row(p, x) = row(f, x)
        BY <4>2
      <4> QED
        BY <2>1, <4>3
    <3> QED
      BY <3>1, <3>2
  <2> HIDE DEF good
  <2>3. \E g : good(g, Len(p) + 1)
    BY <2>2
  <2> QED
    BY <1>1, <2>3
<1>3. ASSUME NEW m \in 1 .. Len(p), \A k \in m + 1 .. Len(p) + 1 : k \in S
      PROVE  m \in S
  <2>1. m + 1 \in m + 1 .. Len(p) + 1 /\ m \in D
    BY <1>1
  <2>2. PICK f : good(f, m + 1)
    BY <1>3, <2>1
  <2>3. PICK g : g = [x \in D |-> IF x = m THEN row(f, m) ELSE f[x]]
    OBVIOUS
  <2>4. good(g, m)
    <3>1. g = [x \in D |-> g[x]]
      BY <2>3
    <3>2. ASSUME NEW x \in D, x >= m PROVE g[x] = row(g, x)
      <4>1. \A y \in x + 1 .. Len(p) + 1 : f[y] = g[y]
        BY <1>1, <2>3, <3>2
      <4>2. ASSUME NEW y \in 1 .. Len(c) + 1 PROVE Turn(p, c, f, x, y) = Turn(p, c, g, x, y)
        BY <4>1, TurnLocal
      <4>3. row(f, x) = row(g, x)
        BY <4>2
      <4>4. g[x] = row(f, x)
        <5>1. CASE x = m
          BY <2>1, <2>3, <5>1
        <5>2. CASE x # m
          <6>1. x >= m + 1
            BY <1>1, <3>2, <5>2
          <6> QED
            BY <2>2, <2>3, <5>2, <6>1
        <5> QED
          BY <5>1, <5>2
      <4> QED
        BY <4>3, <4>4
    <3> QED
      BY <3>1, <3>2
  <2> HIDE DEF good
  <2>5. \E h : good(h, m)
    BY <2>4
  <2> QED
    BY <1>1, <2>5
<1>4. \A m \in 1 .. Len(p) + 1 : m \in S
  <2> HIDE DEF S
  <2> QED
    BY <1>1, <1>2, <1>3, Downward
<1>5. PICK f : good(f, 1)
  <2>0. 1 \in 1 .. Len(p) + 1
    BY <1>1
  <2>1. 1 \in S
    <3> HIDE DEF S
    <3> QED
      BY <1>4, <2>0
  <2> QED
    BY <2>1
<1>6. f = [x \in D |-> row(f, x)]
  <2>1. \A x \in D : f[x] = row(f, x)
    BY <1>1, <1>5
  <2> QED
    BY <1>5, <2>1
<1>7. Scan(p, c) = [x \in D |-> row(Scan(p, c), x)]
  BY <1>6 DEF Scan
<1>8. Scan(p, c)[pi] = row(Scan(p, c), pi)
  BY <1>7
<1> QED
  BY <1>8

(* The end of the pattern stands for the end of the channel. *)
LEMMA GlobEnd ==
  ASSUME NEW p, NEW c, Name(p), Name(c)
  PROVE  GlobFrom(p, c, Len(p) + 1, Len(c) + 1)
<1>1. Len(p) \in Nat /\ Len(c) \in Nat
  BY DEF Name
<1>2. PICK at : at = [i \in Len(p) + 1 .. Len(p) + 1 |-> Len(c) + 1]
  OBVIOUS
<1>3. /\ at \in [Len(p) + 1 .. Len(p) + 1 -> Len(c) + 1 .. Len(c) + 1]
      /\ at[Len(p) + 1] = Len(c) + 1
  BY <1>1, <1>2
<1>4. \A i \in Len(p) + 1 .. Len(p) : Stands(p, c, at, i)
  BY <1>1
<1> QED
  BY <1>3, <1>4 DEF GlobFrom

(* A part of the pattern that stands for a part of the channel, before      *)
(* what stands for the rest.                                                *)
LEMMA GlobPrefix ==
  ASSUME NEW p, NEW c, Name(p), Name(c),
         NEW pi \in 1 .. Len(p) + 1, NEW n \in pi .. Len(p) + 1,
         NEW ci \in 1 .. Len(c) + 1, NEW d \in ci .. Len(c) + 1,
         GlobFrom(p, c, n, d),
         NEW b \in [pi .. n -> ci .. Len(c) + 1], b[pi] = ci, b[n] = d,
         \A i \in pi .. n - 1 : Stands(p, c, b, i)
  PROVE  GlobFrom(p, c, pi, ci)
<1>1. Len(p) \in Nat /\ Len(c) \in Nat
  BY DEF Name
<1>2. PICK a \in [n .. Len(p) + 1 -> d .. Len(c) + 1] :
        /\ a[n] = d /\ a[Len(p) + 1] = Len(c) + 1
        /\ \A i \in n .. Len(p) : Stands(p, c, a, i)
  BY DEF GlobFrom
<1>3. PICK at : at = [i \in pi .. Len(p) + 1 |-> IF i <= n THEN b[i] ELSE a[i]]
  OBVIOUS
<1>4. ASSUME NEW i \in pi .. n PROVE at[i] = b[i]
  BY <1>1, <1>3
<1>5. ASSUME NEW i \in n .. Len(p) + 1 PROVE at[i] = a[i]
  <2>1. i <= n => i = n
    BY <1>1
  <2>2. i \in pi .. Len(p) + 1
    BY <1>1
  <2> QED
    BY <1>2, <1>3, <2>1, <2>2
<1>6. at \in [pi .. Len(p) + 1 -> ci .. Len(c) + 1]
  <2>1. ASSUME NEW i \in pi .. Len(p) + 1 PROVE at[i] \in ci .. Len(c) + 1
    <3>1. CASE i <= n
      <4>1. i \in pi .. n
        BY <1>1, <3>1
      <4> QED
        BY <1>4, <4>1
    <3>2. CASE ~(i <= n)
      <4>1. i \in n .. Len(p) + 1
        BY <1>1, <3>2
      <4>2. a[i] \in d .. Len(c) + 1
        BY <1>2, <4>1
      <4> QED
        BY <1>1, <1>5, <4>1, <4>2
    <3> QED
      BY <3>1, <3>2
  <2> QED
    BY <1>3, <2>1
<1>7. at[pi] = ci /\ at[Len(p) + 1] = Len(c) + 1
  <2>1. pi \in pi .. n /\ Len(p) + 1 \in n .. Len(p) + 1
    BY <1>1
  <2> QED
    BY <1>2, <1>4, <1>5, <2>1
<1>8. ASSUME NEW i \in pi .. Len(p) PROVE Stands(p, c, at, i)
  <2>1. CASE i < n
    <3>1. i \in pi .. n /\ i + 1 \in pi .. n /\ i \in pi .. n - 1
      BY <1>1, <2>1
    <3>2. at[i] = b[i] /\ at[i + 1] = b[i + 1]
      BY <1>4, <3>1
    <3> QED
      BY <3>1, <3>2 DEF Stands
  <2>2. CASE ~(i < n)
    <3>1. i \in n .. Len(p) + 1 /\ i + 1 \in n .. Len(p) + 1 /\ i \in n .. Len(p)
      BY <1>1, <2>2
    <3>2. at[i] = a[i] /\ at[i + 1] = a[i + 1]
      BY <1>5, <3>1
    <3> QED
      BY <1>2, <3>1, <3>2 DEF Stands
  <2> QED
    BY <2>1, <2>2
<1> QED
  BY <1>6, <1>7, <1>8 DEF GlobFrom

(* Wildcards alone stand for the rest of the channel, whatever it is, when  *)
(* there is one, and for nothing when there is nothing left.                *)
LEMMA GlobStars ==
  ASSUME NEW p, NEW c, Name(p), Name(c),
         NEW pi \in 1 .. Len(p) + 1, NEW ci \in 1 .. Len(c) + 1,
         \A k \in pi .. Len(p) : p[k] = Star,
         pi <= Len(p) \/ ci = Len(c) + 1
  PROVE  GlobFrom(p, c, pi, ci)
<1>1. Len(p) \in Nat /\ Len(c) \in Nat
  BY DEF Name
<1>2. PICK b : b = [i \in pi .. Len(p) + 1 |-> IF i = pi THEN ci ELSE Len(c) + 1]
  OBVIOUS
<1>3. b \in [pi .. Len(p) + 1 -> ci .. Len(c) + 1]
  BY <1>1, <1>2
<1>4. b[pi] = ci /\ b[Len(p) + 1] = Len(c) + 1
  BY <1>1, <1>2
<1>5. ASSUME NEW i \in pi .. (Len(p) + 1) - 1 PROVE Stands(p, c, b, i)
  <2>1. i \in pi .. Len(p) /\ i \in pi .. Len(p) + 1 /\ i + 1 \in pi .. Len(p) + 1 /\ i + 1 # pi
    BY <1>1
  <2>2. b[i + 1] = Len(c) + 1 /\ b[i] \in ci .. Len(c) + 1
    BY <1>2, <1>3, <2>1
  <2>3. b[i] <= b[i + 1]
    BY <1>1, <2>2
  <2> QED
    BY <2>1, <2>3 DEF Stands
<1>6. Len(p) + 1 \in pi .. Len(p) + 1 /\ Len(c) + 1 \in ci .. Len(c) + 1
  BY <1>1
<1> QED
  BY <1>3, <1>4, <1>5, <1>6, GlobEnd, GlobPrefix

(* The first place at which a literal is found. *)
LEMMA FoundIs ==
  ASSUME NEW c, Name(c), NEW ci \in 1 .. Len(c) + 1, NEW l, Len(l) \in Nat,
         NEW k, Finds(c, ci, l) # {}, k = Least(Finds(c, ci, l))
  PROVE  /\ k \in ci .. Len(c) /\ k + Len(l) \in ci .. Len(c) + 1
         /\ \A j \in 1 .. Len(l) : c[k + j - 1] = l[j]
<1>1. Len(c) \in Nat
  BY DEF Name
<1>2. PICK Z : c \in Seq(Z)
  BY DEF Name
<1>3. PICK found : found = Finds(c, ci, l)
  OBVIOUS
<1>4. found \in SUBSET Nat
  BY <1>1, <1>3 DEF Finds
<1>5. k \in found
  BY <1>3, <1>4, LeastIs
<1>6. k \in ci .. Len(c) /\ k + Len(l) - 1 <= Len(c) /\ SubSeq(c, k, k + Len(l) - 1) = l
  BY <1>3, <1>5 DEF Finds
<1>7. ASSUME NEW j \in 1 .. Len(l) PROVE c[k + j - 1] = l[j]
  <2>1. k \in 1 .. Len(c) + 1 /\ k + Len(l) - 1 \in k - 1 .. Len(c)
    BY <1>1, <1>6
  <2>2. j \in 1 .. (k + Len(l) - 1) - k + 1
    BY <1>1, <1>6
  <2>3. SubSeq(c, k, k + Len(l) - 1)[j] = c[k + j - 1]
    <3>1. PICK e : e = k + Len(l) - 1
      OBVIOUS
    <3>2. e \in Nat /\ k \in Nat /\ 1 <= k /\ k <= e + 1 /\ e <= Len(c) /\ j \in 1 .. e - k + 1
      <4>1. PICK n \in Nat : n = Len(l)
        OBVIOUS
      <4>2. k \in ci .. Len(c) /\ e = k + n - 1 /\ j \in 1 .. n /\ e <= Len(c)
        BY <1>6, <3>1, <4>1
      <4> QED
        BY <1>1, <4>2
    <3>3. SubSeq(c, k, e)[j] = c[k + j - 1]
      BY <1>2, <3>2
    <3> QED
      BY <3>1, <3>3
  <2> QED
    BY <1>6, <2>3
<1> QED
  BY <1>1, <1>6, <1>7

(* A wildcard and the literal found after it stand for the channel up to    *)
(* the end of the literal.                                                  *)
LEMMA GlobStarLiteral ==
  ASSUME NEW p, NEW c, Name(p), Name(c),
         NEW pi \in 1 .. Len(p), NEW ci \in 1 .. Len(c), p[pi] = Star,
         NEW l, l = Literal(p, pi + 1), NEW k,
         Finds(c, ci, l) # {}, k = Least(Finds(c, ci, l)),
         GlobFrom(p, c, pi + 1 + Len(l), k + Len(l))
  PROVE  GlobFrom(p, c, pi, ci)
<1>1. Len(p) \in Nat /\ Len(c) \in Nat /\ pi + 1 \in 1 .. Len(p) + 1 /\ ci \in 1 .. Len(c) + 1
  BY DEF Name
<1>2. /\ Len(l) \in Nat /\ pi + 1 + Len(l) <= Len(p) + 1
      /\ \A j \in 1 .. Len(l) : l[j] = p[(pi + 1) + j - 1] /\ p[(pi + 1) + j - 1] # Star
  <2>1. PICK q \in 1 .. Len(p) + 1 : q = pi + 1
    BY <1>1
  <2>2. /\ Len(l) \in Nat /\ q + Len(l) <= Len(p) + 1
        /\ \A j \in 1 .. Len(l) : l[j] = p[q + j - 1] /\ p[q + j - 1] # Star
    BY <2>1, LiteralIs
  <2> QED
    BY <2>1, <2>2
<1>3. /\ k \in ci .. Len(c) /\ k + Len(l) \in ci .. Len(c) + 1
      /\ \A j \in 1 .. Len(l) : c[k + j - 1] = l[j]
  <2>1. Len(l) \in Nat /\ ci \in 1 .. Len(c) + 1
    BY <1>1, <1>2
  <2> QED
    BY <2>1, FoundIs
<1>11. pi \in 1 .. Len(p) + 1 /\ ci \in 1 .. Len(c) + 1
  BY <1>1
<1>4. PICK n : n = pi + 1 + Len(l)
  OBVIOUS
<1>5. PICK d : d = k + Len(l)
  OBVIOUS
<1>6. n \in pi .. Len(p) + 1 /\ d \in ci .. Len(c) + 1 /\ GlobFrom(p, c, n, d) /\ n # pi
  <2>1. Len(l) \in Nat /\ n <= Len(p) + 1
    BY <1>2, <1>4
  <2>2. n \in pi .. Len(p) + 1 /\ n # pi
    BY <1>1, <1>4, <2>1
  <2> QED
    BY <1>3, <1>4, <1>5, <2>2
<1>12. PICK len \in Nat : /\ n = pi + 1 + len /\ d = k + len /\ len = Len(l)
                          /\ k \in ci .. Len(c) /\ k + len \in ci .. Len(c) + 1
  BY <1>2, <1>3, <1>4, <1>5
<1>13. /\ pi \in Nat /\ ci \in Nat /\ k \in Nat /\ Len(c) \in Nat
       /\ ci <= k /\ k + len <= Len(c) + 1
  BY <1>1, <1>12
<1>7. PICK b : b = [i \in pi .. n |-> IF i = pi THEN ci ELSE k + (i - pi - 1)]
  OBVIOUS
<1>8. b \in [pi .. n -> ci .. Len(c) + 1]
  <2>1. ASSUME NEW i \in pi .. n, i # pi PROVE k + (i - pi - 1) \in ci .. Len(c) + 1
    <3>1. PICK x \in Nat : i = pi + 1 + x /\ x <= len
      <4>1. i - pi - 1 \in Nat /\ i = pi + 1 + (i - pi - 1) /\ i - pi - 1 <= len
        BY <1>12, <1>13, <2>1
      <4> QED
        BY <4>1
    <3>2. k + (i - pi - 1) = k + x
      BY <1>13, <3>1
    <3>3. k + x \in ci .. Len(c) + 1
      BY <1>12, <1>13, <3>1
    <3> QED
      BY <3>2, <3>3
  <2>2. ci \in ci .. Len(c) + 1
    BY <1>1
  <2> QED
    BY <1>7, <2>1, <2>2
<1>9. b[pi] = ci /\ b[n] = d
  <2>1. pi \in pi .. n /\ n \in pi .. n /\ k + (n - pi - 1) = d
    BY <1>1, <1>12
  <2> QED
    BY <1>6, <1>7, <2>1
<1>10. ASSUME NEW i \in pi .. n - 1 PROVE Stands(p, c, b, i)
  <2>1. i \in pi .. n /\ i + 1 \in pi .. n /\ i + 1 # pi
    BY <1>1, <1>12
  <2>2. b[i + 1] = k + (i - pi)
    <3>1. k + ((i + 1) - pi - 1) = k + (i - pi)
      BY <1>1, <1>12
    <3> QED
      BY <1>7, <2>1, <3>1
  <2>3. CASE i = pi
    <3>1. b[i] <= b[i + 1]
      <4>1. k + (i - pi) = k /\ ci <= k
        BY <1>1, <1>12, <2>3
      <4> QED
        BY <1>9, <2>2, <2>3, <4>1
    <3> QED
      BY <2>3, <3>1 DEF Stands
  <2>4. CASE i # pi
    <3>1. i - pi \in 1 .. Len(l) /\ (pi + 1) + (i - pi) - 1 = i
      BY <1>1, <1>12, <2>4
    <3>2. PICK j \in 1 .. Len(l) : j = i - pi
      BY <3>1
    <3>3. p[i] # Star /\ p[i] = c[k + j - 1]
      BY <1>2, <1>3, <3>1, <3>2
    <3>4. b[i] = k + j - 1 /\ b[i + 1] = b[i] + 1
      <4>1. k + (i - pi - 1) = k + j - 1 /\ k + (i - pi) = (k + (i - pi - 1)) + 1
        <5>1. i \in Int /\ j \in Int
          BY <1>12, <1>13, <3>2
        <5> QED
          BY <1>13, <3>2, <5>1
      <4> QED
        BY <1>7, <2>1, <2>2, <2>4, <4>1
    <3> QED
      BY <3>3, <3>4 DEF Stands
  <2> QED
    BY <2>3, <2>4
<1> QED
  BY <1>6, <1>8, <1>9, <1>10, <1>11, GlobPrefix

(* A letter that is no wildcard stands for itself. *)
LEMMA GlobLetter ==
  ASSUME NEW p, NEW c, Name(p), Name(c),
         NEW pi \in 1 .. Len(p), NEW ci \in 1 .. Len(c),
         p[pi] # Star, p[pi] = c[ci], GlobFrom(p, c, pi + 1, ci + 1)
  PROVE  GlobFrom(p, c, pi, ci)
<1>1. Len(p) \in Nat /\ Len(c) \in Nat
  BY DEF Name
<1>2. PICK b : b = [i \in pi .. pi + 1 |-> IF i = pi THEN ci ELSE ci + 1]
  OBVIOUS
<1>3. b \in [pi .. pi + 1 -> ci .. Len(c) + 1] /\ b[pi] = ci /\ b[pi + 1] = ci + 1
  BY <1>1, <1>2
<1>4. ASSUME NEW i \in pi .. (pi + 1) - 1 PROVE Stands(p, c, b, i)
  <2>1. i = pi
    BY <1>1
  <2> QED
    BY <1>3, <2>1 DEF Stands
<1>5. /\ pi \in 1 .. Len(p) + 1 /\ pi + 1 \in pi .. Len(p) + 1
      /\ ci \in 1 .. Len(c) + 1 /\ ci + 1 \in ci .. Len(c) + 1
  BY <1>1
<1> QED
  BY <1>3, <1>4, <1>5, GlobPrefix

(* The loop says yes only where the rest of the pattern stands for the rest *)
(* of the channel.                                                          *)
LEMMA ScanSound ==
  ASSUME NEW p, NEW c, Name(p), Name(c)
  PROVE  \A m \in 1 .. Len(p) + 1 : \A ci \in 1 .. Len(c) + 1 :
           Scan(p, c)[m][ci] => GlobFrom(p, c, m, ci)
<1>1. Len(p) \in Nat /\ Len(c) \in Nat
  BY DEF Name
<1> DEFINE S == {m \in 1 .. Len(p) + 1 : \A ci \in 1 .. Len(c) + 1 :
                   Scan(p, c)[m][ci] => GlobFrom(p, c, m, ci)}
<1>2. ASSUME NEW m \in 1 .. Len(p) + 1, NEW ci \in 1 .. Len(c) + 1, Scan(p, c)[m][ci],
             ~(m <= Len(p) /\ ci <= Len(c))
      PROVE  GlobFrom(p, c, m, ci)
  <2>1. Turn(p, c, Scan(p, c), m, ci)
    BY <1>2, ScanIs
  <2>2. Exhausted(p, c, m, ci)
    BY <1>2, <2>1 DEF Turn
  <2>3. ci = Len(c) + 1 /\ \A k \in m .. Len(p) : p[k] = Star
    BY <1>1, <2>2 DEF Exhausted
  <2> QED
    BY <2>3, GlobStars
<1>3. Len(p) + 1 \in S
  BY <1>1, <1>2
<1>4. ASSUME NEW m \in 1 .. Len(p), \A k \in m + 1 .. Len(p) + 1 : k \in S
      PROVE  m \in S
  <2>1. SUFFICES ASSUME NEW ci \in 1 .. Len(c), Scan(p, c)[m][ci]
                 PROVE  GlobFrom(p, c, m, ci)
    <3>1. m \in 1 .. Len(p) + 1
      BY <1>1
    <3>2. ASSUME NEW ci \in 1 .. Len(c) + 1, Scan(p, c)[m][ci] PROVE GlobFrom(p, c, m, ci)
      <4>1. CASE ci <= Len(c)
        <5>1. ci \in 1 .. Len(c)
          BY <1>1, <4>1
        <5> QED
          BY <2>1, <3>2, <5>1
      <4>2. CASE ~(ci <= Len(c))
        BY <1>2, <3>1, <3>2, <4>2
      <4> QED
        BY <4>1, <4>2
    <3> QED
      BY <3>1, <3>2
  <2>2. m \in 1 .. Len(p) + 1 /\ ci \in 1 .. Len(c) + 1 /\ m <= Len(p) /\ ci <= Len(c)
    BY <1>1
  <2>3. Turn(p, c, Scan(p, c), m, ci)
    BY <2>1, <2>2, ScanIs
  <2>4. CASE p[m] # Star
    <3>1. p[m] = c[ci] /\ Scan(p, c)[m + 1][ci + 1]
      BY <2>2, <2>3, <2>4 DEF Turn
    <3>2. m + 1 \in S /\ ci + 1 \in 1 .. Len(c) + 1
      BY <1>1, <1>4
    <3>3. GlobFrom(p, c, m + 1, ci + 1)
      BY <3>1, <3>2
    <3> QED
      BY <2>4, <3>1, <3>3, GlobLetter
  <2>5. CASE p[m] = Star /\ m = Len(p)
    <3>1. \A k \in m .. Len(p) : p[k] = Star
      BY <1>1, <2>5
    <3> QED
      BY <2>2, <3>1, GlobStars
  <2>6. CASE p[m] = Star /\ m # Len(p)
    <3>1. PICK l : l = Literal(p, m + 1)
      OBVIOUS
    <3>2. PICK k : k = Least(Finds(c, ci, l))
      OBVIOUS
    <3>3. Finds(c, ci, l) # {} /\ Scan(p, c)[m + 1 + Len(l)][k + Len(l)]
      BY <2>2, <2>3, <2>6, <3>1, <3>2 DEF Turn
    <3>4. m + 1 \in 1 .. Len(p) + 1
      BY <1>1
    <3>5. Len(l) \in Nat /\ m + 1 + Len(l) <= Len(p) + 1
      BY <3>1, <3>4, LiteralIs
    <3>6. k + Len(l) \in 1 .. Len(c) + 1
      <4>1. k + Len(l) \in ci .. Len(c) + 1
        BY <2>2, <3>2, <3>3, <3>5, FoundIs
      <4> QED
        BY <1>1, <4>1
    <3>7. m + 1 + Len(l) \in S
      BY <1>1, <1>4, <3>5
    <3>8. GlobFrom(p, c, m + 1 + Len(l), k + Len(l))
      BY <3>3, <3>6, <3>7
    <3> QED
      BY <2>6, <3>1, <3>2, <3>3, <3>8, GlobStarLiteral
  <2> QED
    BY <2>4, <2>5, <2>6
<1>5. \A m \in 1 .. Len(p) + 1 : m \in S
  <2> HIDE DEF S
  <2> QED
    BY <1>1, <1>3, <1>4, Downward
<1> QED
  BY <1>5

(* A pattern that matches describes the channel. *)
LEMMA MatchSound ==
  ASSUME NEW p, NEW c, Name(p), Name(c), matchPattern(p, c)
  PROVE  Glob(p, c)
<1>1. Len(p) \in Nat /\ Len(c) \in Nat /\ 1 \in 1 .. Len(p) + 1 /\ 1 \in 1 .. Len(c) + 1
  BY DEF Name
<1>2. CASE p = <<Star>>
  <2>1. Len(p) = 1 /\ p[1] = Star
    BY <1>2
  <2>2. 1 <= Len(p) /\ \A k \in 1 .. Len(p) : p[k] = Star
    BY <2>1
  <2> QED
    BY <1>1, <2>2, GlobStars DEF Glob
<1>3. CASE p # <<Star>>
  BY <1>1, <1>3, ScanSound DEF matchPattern, Glob
<1> QED
  BY <1>2, <1>3

(* A pattern of the documented form matches every channel it describes. *)
LEMMA MatchComplete ==
  ASSUME NEW p, NEW c, Name(p), Name(c), TrailingStar(p), Glob(p, c)
  PROVE  matchPattern(p, c)
<1>1. Len(p) \in Nat /\ Len(c) \in Nat /\ 1 \in 1 .. Len(p) + 1
  BY DEF Name
<1>2. PICK at \in [1 .. Len(p) + 1 -> 1 .. Len(c) + 1] :
        /\ at[1] = 1 /\ at[Len(p) + 1] = Len(c) + 1
        /\ \A i \in 1 .. Len(p) : Stands(p, c, at, i)
  BY DEF Glob, GlobFrom
<1> DEFINE S == {m \in 1 .. Len(p) + 1 : Scan(p, c)[m][at[m]]}
<1>3. ASSUME NEW m \in 1 .. Len(p) + 1, Turn(p, c, Scan(p, c), m, at[m]) PROVE m \in S
  <2>1. at[m] \in 1 .. Len(c) + 1
    BY <1>2
  <2>2. Scan(p, c)[m][at[m]] = Turn(p, c, Scan(p, c), m, at[m])
    BY <2>1, ScanIs
  <2> QED
    BY <1>3, <2>2
<1>4. Len(p) + 1 \in S
  <2>1. Len(p) + 1 \in 1 .. Len(p) + 1 /\ ~(Len(p) + 1 <= Len(p)) /\ Len(c) + 1 > Len(c)
    BY <1>1
  <2>2. \A k \in Len(p) + 1 .. Len(p) : p[k] = Star
    BY <1>1
  <2>3. Exhausted(p, c, Len(p) + 1, at[Len(p) + 1])
    BY <1>2, <2>1, <2>2 DEF Exhausted
  <2>4. Turn(p, c, Scan(p, c), Len(p) + 1, at[Len(p) + 1])
    BY <2>1, <2>3 DEF Turn
  <2> QED
    BY <1>3, <2>1, <2>4
<1>5. ASSUME NEW m \in 1 .. Len(p), \A k \in m + 1 .. Len(p) + 1 : k \in S
      PROVE  m \in S
  <2>1. /\ m \in 1 .. Len(p) + 1 /\ m + 1 \in 1 .. Len(p) + 1
        /\ m + 1 \in m + 1 .. Len(p) + 1 /\ m <= Len(p)
    BY <1>1
  <2>2. at[m] \in 1 .. Len(c) + 1 /\ at[m + 1] \in 1 .. Len(c) + 1 /\ Stands(p, c, at, m)
    BY <1>2, <2>1
  <2>3. Scan(p, c)[m + 1][at[m + 1]]
    BY <1>5, <2>1
  <2>4. CASE p[m] # Star
    <3>1. at[m + 1] = at[m] + 1 /\ p[m] = c[at[m]]
      BY <2>2, <2>4 DEF Stands
    <3>2. at[m] <= Len(c)
      BY <1>1, <2>2, <3>1
    <3>3. Turn(p, c, Scan(p, c), m, at[m])
      BY <2>1, <2>3, <2>4, <3>1, <3>2 DEF Turn
    <3> QED
      BY <1>3, <2>1, <3>3
  <2>5. CASE p[m] = Star
    <3>1. m = Len(p)
      <4>1. m \notin 1 .. Len(p) - 1
        BY <2>5 DEF TrailingStar
      <4> QED
        BY <1>1, <4>1
    <3>2. at[m] <= Len(c) \/ at[m] > Len(c)
      BY <1>1, <2>2
    <3>3. at[m] > Len(c) => Exhausted(p, c, m, at[m])
      <4>1. \A k \in m .. Len(p) : p[k] = Star
        BY <1>1, <2>5, <3>1
      <4> QED
        BY <4>1 DEF Exhausted
    <3>4. Turn(p, c, Scan(p, c), m, at[m])
      BY <2>1, <2>5, <3>1, <3>2, <3>3 DEF Turn
    <3> QED
      BY <1>3, <2>1, <3>4
  <2> QED
    BY <2>4, <2>5
<1>6. \A m \in 1 .. Len(p) + 1 : m \in S
  <2> HIDE DEF S
  <2> QED
    BY <1>1, <1>4, <1>5, Downward
<1>7. Scan(p, c)[1][1]
  BY <1>1, <1>2, <1>6
<1> QED
  BY <1>7 DEF matchPattern

(* findRule(ch) is the first of the rules that match. *)
LEMMA FirstRule ==
  ASSUME TypeOK, NEW ch \in Channels, matching(ch) # {}
  PROVE  \E i \in matching(ch) : /\ findRule(ch) = rules[i]
                                 /\ \A j \in matching(ch) : i <= j
<1>1. matching(ch) \in SUBSET Nat
  BY DEF matching, TypeOK
<1>2. PICK i : i = Least(matching(ch))
  OBVIOUS
<1>3. i \in matching(ch) /\ \A j \in matching(ch) : i <= j
  BY <1>1, <1>2, LeastIs
<1>4. findRule(ch) = rules[i]
  BY <1>2 DEF findRule
<1> QED
  BY <1>3, <1>4

(* findRule uses the first rule whose pattern describes the channel: what   *)
(* it uses describes it, and it passes over no rule that does and has its   *)
(* wildcard at the end.  For rules, patterns and channels of any length.    *)
THEOREM FirstRuleApplies == Spec => []RuleApplies
<1>1. ASSUME TypeOK PROVE RuleApplies
  <2>1. SUFFICES ASSUME NEW ch \in Channels
                 PROVE  /\ matching(ch) # {} => Glob(findRule(ch).pattern, ch)
                        /\ \A i \in DOMAIN rules :
                             /\ TrailingStar(rules[i].pattern)
                             /\ Glob(rules[i].pattern, ch)
                             => \E j \in matching(ch) :
                                  j <= i /\ findRule(ch) = rules[j]
    BY DEF RuleApplies
  <2>2. Name(ch)
    BY AccessAssumption
  <2>3. ASSUME NEW i \in DOMAIN rules PROVE Name(rules[i].pattern)
    <3>1. rules[i] \in RuleSet
      BY <1>1 DEF TypeOK
    <3> QED
      BY <3>1, AccessAssumption
  <2>4. ASSUME matching(ch) # {} PROVE Glob(findRule(ch).pattern, ch)
    <3>1. PICK i \in matching(ch) : findRule(ch) = rules[i]
      BY <1>1, <2>4, FirstRule
    <3>2. i \in DOMAIN rules /\ matchPattern(rules[i].pattern, ch)
      BY DEF matching
    <3>3. Glob(rules[i].pattern, ch)
      BY <2>2, <2>3, <3>2, MatchSound
    <3> QED
      BY <3>1, <3>3
  <2>5. ASSUME NEW i \in DOMAIN rules, TrailingStar(rules[i].pattern),
               Glob(rules[i].pattern, ch)
        PROVE  \E j \in matching(ch) : j <= i /\ findRule(ch) = rules[j]
    <3>1. matchPattern(rules[i].pattern, ch)
      BY <2>2, <2>3, <2>5, MatchComplete
    <3>2. i \in matching(ch)
      BY <3>1 DEF matching
    <3> QED
      BY <1>1, <3>2, FirstRule
  <2> QED
    BY <2>4, <2>5
<1> QED
  BY <1>1, TypeCorrect, PTL
=============================================================================
