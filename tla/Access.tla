------------------------------- MODULE Access -------------------------------
(***************************************************************************)
(* What a connected client may do.  The permission checker and the         *)
(* namespaces decide when a client subscribes, and the handler keeps the   *)
(* answer in its subscriptions table for the commands that follow, while   *)
(* the application goes on changing rules, roles and namespaces.           *)
(*                                                                         *)
(* Source: engine/permissions.go (DefaultPermissionChecker),               *)
(* engine/namespace.go (NamespaceManager), engine/handler.go (the command  *)
(* handlers).  ClientSession and Room model what happens inside the rooms; *)
(* here handleSubscribe is the check and, later, the entry in the table.   *)
(* The methods of the checker and of the manager take no lock; each is one *)
(* step, which is what an application gets that synchronises them itself.  *)
(***************************************************************************)
EXTENDS Naturals, Sequences, FiniteSets, Pattern

CONSTANTS
  Handlers,
  Users, Anonymous,   \* user IDs; "anonymous" is one of them
  Empty,              \* the string "", as a token or a user ID
  Channels,           \* channel names, sequences of letters
  Roles,
  Permissions,        \* the Permission values the application uses
  RuleSet,            \* the ChannelRules it adds
  DefaultRule,        \* the default rule of NewPermissionChecker
  DefaultRules,       \* the default rules it sets
  Namespaces,         \* the namespaces it registers, by name
  DefaultNS,          \* the namespace of NewNamespaceManager
  None,
  MaxRules,           \* bound: AddRule and SetDefaultRule calls
  MaxChanges          \* bound: other calls to the checker or the manager

Perms == {"subscribe", "publish", "presence", "history", "joinleave"}
Tokens == (Users \ {Anonymous}) \cup {Empty}

ASSUME AccessAssumption ==
  /\ Anonymous \in Users /\ Empty \notin Users
  /\ None \notin Permissions
  /\ Permissions \subseteq SUBSET Perms
  /\ \A rule \in RuleSet \cup DefaultRules \cup {DefaultRule} :
       rule.perms \subseteq Perms
  /\ \A ch \in Channels : Name(ch)
  /\ \A rule \in RuleSet : Name(rule.pattern)
  /\ DefaultNS \notin Namespaces
  /\ MaxRules \in Nat /\ MaxChanges \in Nat

VARIABLES
  rules, defaultRule, userPermissions, rolePermissions, userRoles, requireAuth,
  registered, defaultNS,   \* NamespaceManager.namespaces, .defaultNS
  userID,         \* userID[h], None before connect
  subscriptions,  \* subscriptions[h][ch]: the permission, or None
  pending,        \* pending[h]: the subscribe between check and entry
  outdated,       \* history: outdated[h], the entries of the table for which
                  \* the checker or the user has changed since CheckSubscribe
  budget

checker == <<rules, defaultRule, userPermissions, rolePermissions, userRoles,
             requireAuth>>
manager == <<registered, defaultNS>>
handler == <<userID, subscriptions, pending>>
vars == <<checker, manager, handler, outdated, budget>>

PendingType == [ch : Channels, perm : SUBSET Perms, stale : BOOLEAN]

TypeOK ==
  /\ rules \in Seq(RuleSet) /\ defaultRule \in DefaultRules \cup {DefaultRule}
  /\ userPermissions \in [Users \X Channels -> Permissions \cup {None}]
  /\ rolePermissions \in [Roles -> Permissions \cup {None}]
  /\ userRoles \in [Users -> SUBSET Roles]
  /\ requireAuth \in BOOLEAN
  /\ registered \subseteq Namespaces /\ defaultNS \in Namespaces \cup {DefaultNS}
  /\ userID \in [Handlers -> Users \cup {None}]
  /\ subscriptions \in [Handlers -> [Channels -> (SUBSET Perms) \cup {None}]]
  /\ pending \in [Handlers -> PendingType \cup {None}]
  /\ outdated \in [Handlers -> SUBSET Channels]
  /\ budget \in [rules : Nat, changes : Nat]

Init ==
  /\ rules = << >> /\ defaultRule = DefaultRule
  /\ userPermissions = [x \in Users \X Channels |-> None]
  /\ rolePermissions = [r \in Roles |-> None]
  /\ userRoles = [u \in Users |-> {}]
  /\ requireAuth = FALSE
  /\ registered = {} /\ defaultNS = DefaultNS
  /\ userID = [h \in Handlers |-> None]
  /\ subscriptions = [h \in Handlers |-> [ch \in Channels |-> None]]
  /\ pending = [h \in Handlers |-> None]
  /\ outdated = [h \in Handlers |-> {}]
  /\ budget = [rules |-> MaxRules, changes |-> MaxChanges]

-----------------------------------------------------------------------------
(* DefaultPermissionChecker *)

matching(ch) == {i \in DOMAIN rules : matchPattern(rules[i].pattern, ch)}

(* Mutant of findRule: the last rule that matches. *)
findRuleLast(ch) ==
  IF matching(ch) = {} THEN defaultRule
  ELSE rules[CHOOSE i \in matching(ch) : \A j \in matching(ch) : j <= i]

(* The first rule that matches. *)
findRule(ch) ==
  IF matching(ch) = {} THEN defaultRule
  ELSE rules[Least(matching(ch))]

(* The permissions of the rule and of the user's roles, unless the user has *)
(* some for this channel.                                                   *)
GetUserPermissions(u, ch) ==
  LET roles == {r \in userRoles[u] : rolePermissions[r] # None} IN
  IF userPermissions[<<u, ch>>] # None THEN userPermissions[<<u, ch>>]
  ELSE findRule(ch).perms \cup UNION {rolePermissions[r] : r \in roles}

CheckConnect(u) == ~(requireAuth /\ u = Empty)

(* None when the subscription is refused. *)
CheckSubscribe(u, ch) ==
  LET rule == findRule(ch)
      perm == GetUserPermissions(u, ch)
  IN IF \/ rule.requireAuth /\ u = Empty /\ ~rule.allowAnonymous
        \/ "subscribe" \notin perm
     THEN None ELSE perm

CheckPublish(u, ch) == "publish" \in GetUserPermissions(u, ch)

(* What is in the tables, or on its way there, was decided before. *)
Outdate ==
  /\ outdated' = [h \in Handlers |->
                    {ch \in Channels : subscriptions[h][ch] # None}]
  /\ pending' = [h \in Handlers |-> IF pending[h] = None THEN None
                                    ELSE [pending[h] EXCEPT !.stale = TRUE]]
  /\ UNCHANGED <<userID, subscriptions>>

Change == /\ budget.changes > 0
          /\ budget' = [budget EXCEPT !.changes = @ - 1]
          /\ Outdate /\ UNCHANGED manager

ChangeRules == /\ budget.rules > 0
               /\ budget' = [budget EXCEPT !.rules = @ - 1]
               /\ Outdate
               /\ UNCHANGED <<manager, userPermissions, rolePermissions,
                              userRoles, requireAuth>>

AddRule(rule) == /\ ChangeRules
                 /\ rules' = Append(rules, rule)
                 /\ UNCHANGED defaultRule

SetDefaultRule(rule) == /\ ChangeRules
                        /\ defaultRule' = rule
                        /\ UNCHANGED rules

SetUserPermission(u, ch, perm) ==
  /\ Change
  /\ userPermissions' = [userPermissions EXCEPT ![<<u, ch>>] = perm]
  /\ UNCHANGED <<rules, defaultRule, rolePermissions, userRoles, requireAuth>>

RemoveUserPermission(u, ch) ==
  /\ Change /\ userPermissions[<<u, ch>>] # None
  /\ userPermissions' = [userPermissions EXCEPT ![<<u, ch>>] = None]
  /\ UNCHANGED <<rules, defaultRule, rolePermissions, userRoles, requireAuth>>

SetRolePermission(r, perm) ==
  /\ Change
  /\ rolePermissions' = [rolePermissions EXCEPT ![r] = perm]
  /\ UNCHANGED <<rules, defaultRule, userPermissions, userRoles, requireAuth>>

(* A role assigned twice counts once, and goes at once when it is removed. *)
AssignRole(u, r) ==
  /\ Change
  /\ userRoles' = [userRoles EXCEPT ![u] = @ \cup {r}]
  /\ UNCHANGED <<rules, defaultRule, userPermissions, rolePermissions, requireAuth>>

RemoveRole(u, r) ==
  /\ Change /\ r \in userRoles[u]
  /\ userRoles' = [userRoles EXCEPT ![u] = @ \ {r}]
  /\ UNCHANGED <<rules, defaultRule, userPermissions, rolePermissions, requireAuth>>

SetRequireAuth(require) ==
  /\ Change /\ requireAuth # require
  /\ requireAuth' = require
  /\ UNCHANGED <<rules, defaultRule, userPermissions, rolePermissions, userRoles>>

-----------------------------------------------------------------------------
(* NamespaceManager *)

Configure == /\ budget.changes > 0
             /\ budget' = [budget EXCEPT !.changes = @ - 1]
             /\ UNCHANGED <<checker, handler, outdated>>

Register(ns) == /\ Configure
                /\ registered' = {m \in registered : m.name # ns.name} \cup {ns}
                /\ UNCHANGED defaultNS

Remove(ns) == /\ Configure /\ ns \in registered
              /\ registered' = registered \ {ns}
              /\ UNCHANGED defaultNS

SetDefault(ns) == /\ Configure
                  /\ defaultNS' = ns
                  /\ UNCHANGED registered

HasPrefix(ch, prefix) ==
  /\ prefix # << >> /\ Len(ch) > Len(prefix)
  /\ SubSeq(ch, 1, Len(prefix)) = prefix

(* A map is searched, in no order: any namespace whose prefix fits. *)
GetByChannel(ch) ==
  LET fit == {ns \in registered : HasPrefix(ch, ns.prefix)} IN
  IF fit = {} THEN {defaultNS} ELSE fit

ValidateChannel(ns, ch) ==
  Len(ch) > 0 /\ (ns.maxLength > 0 => Len(ch) <= ns.maxLength)

-----------------------------------------------------------------------------
(* The commands of a client, one at a time for each handler. *)

extractUserFromToken(token) == IF token = Empty THEN Anonymous ELSE token

(* A connect command may come again, with another token: the subscriptions  *)
(* made under the first name stay.                                          *)
handleConnect(h, token) ==
  LET u == extractUserFromToken(token) IN
  /\ pending[h] = None
  /\ CheckConnect(u)
  /\ userID' = [userID EXCEPT ![h] = u]
  /\ outdated' = [outdated EXCEPT ![h] =
       IF u = userID[h] THEN @
       ELSE @ \cup {ch \in Channels : subscriptions[h][ch] # None}]
  /\ UNCHANGED <<checker, manager, subscriptions, pending, budget>>

(* handleSubscribe up to the room: the permission is decided, ... *)
SubscribeCheck(h, ch) ==
  LET perm == CheckSubscribe(userID[h], ch) IN
  /\ userID[h] # None /\ pending[h] = None
  /\ \E ns \in GetByChannel(ch) : ValidateChannel(ns, ch)
  /\ perm # None
  /\ pending' = [pending EXCEPT ![h] = [ch |-> ch, perm |-> perm, stale |-> FALSE]]
  /\ UNCHANGED <<checker, manager, userID, subscriptions, outdated, budget>>

Enter(h, perm) ==
  LET ch == pending[h].ch IN
  /\ subscriptions' = [subscriptions EXCEPT ![h][ch] = perm]
  /\ outdated' = [outdated EXCEPT ![h] = IF pending[h].stale THEN @ \cup {ch}
                                         ELSE @ \ {ch}]
  /\ pending' = [pending EXCEPT ![h] = None]
  /\ UNCHANGED <<checker, manager, userID, budget>>

(* Mutant of SubscribeStore: the permissions are added to the old ones. *)
SubscribeMerge(h) ==
  /\ pending[h] # None
  /\ LET old == subscriptions[h][pending[h].ch] IN
       Enter(h, pending[h].perm \cup (IF old = None THEN {} ELSE old))

(* ... and entered once the room has taken the subscriber. *)
SubscribeStore(h) == pending[h] # None /\ Enter(h, pending[h].perm)

(* The room is full or cannot be made. *)
SubscribeFails(h) ==
  /\ pending[h] # None
  /\ pending' = [pending EXCEPT ![h] = None]
  /\ UNCHANGED <<checker, manager, userID, subscriptions, outdated, budget>>

handleUnsubscribe(h, ch) ==
  /\ userID[h] # None /\ pending[h] = None
  /\ subscriptions[h][ch] # None
  /\ subscriptions' = [subscriptions EXCEPT ![h][ch] = None]
  /\ outdated' = [outdated EXCEPT ![h] = @ \ {ch}]
  /\ UNCHANGED <<checker, manager, userID, pending, budget>>

(* The other commands change nothing here; they are accepted or refused.    *)
(* The permission in the table is asked first, and for a publish the        *)
(* checker when that one does not allow it.                                 *)

Cached(h, ch) == IF subscriptions[h][ch] = None THEN {} ELSE subscriptions[h][ch]

handlePublishAccepts(h, ch) ==
  /\ userID[h] # None
  /\ \E ns \in GetByChannel(ch) :
       /\ ns.publish
       /\ ns.subscribeToPublish => subscriptions[h][ch] # None
  /\ "publish" \in Cached(h, ch) \/ CheckPublish(userID[h], ch)

handlePresenceAccepts(h, ch) == userID[h] # None /\ "presence" \in Cached(h, ch)

handleHistoryAccepts(h, ch) == userID[h] # None /\ "history" \in Cached(h, ch)

-----------------------------------------------------------------------------
ChangeChecker ==
  \/ \E rule \in RuleSet : AddRule(rule)
  \/ \E rule \in DefaultRules : SetDefaultRule(rule)
  \/ \E u \in Users, ch \in Channels :
       \/ RemoveUserPermission(u, ch)
       \/ \E perm \in Permissions : SetUserPermission(u, ch, perm)
  \/ \E r \in Roles : \/ \E perm \in Permissions : SetRolePermission(r, perm)
                      \/ \E u \in Users : AssignRole(u, r) \/ RemoveRole(u, r)
  \/ \E require \in BOOLEAN : SetRequireAuth(require)

ChangeNamespaces ==
  \E ns \in Namespaces : Register(ns) \/ Remove(ns) \/ SetDefault(ns)

Next == \/ ChangeChecker \/ ChangeNamespaces
        \/ \E h \in Handlers :
             \/ \E token \in Tokens : handleConnect(h, token)
             \/ \E ch \in Channels : SubscribeCheck(h, ch) \/ handleUnsubscribe(h, ch)
             \/ SubscribeStore(h) \/ SubscribeFails(h)

Spec == Init /\ [][Next]_vars

-----------------------------------------------------------------------------
(* Properties *)

(* What a handler accepts is what the checker allows its user now.  Where   *)
(* the two differ, the entry in the subscriptions table was decided before  *)
(* a change of the checker or for the user that the handler was connected   *)
(* as before, and it lasts until the channel is subscribed to again.        *)
AccessIsCurrent ==
  \A h \in Handlers, ch \in Channels :
    LET allowed == GetUserPermissions(userID[h], ch) IN
    ch \notin outdated[h] =>
      /\ handlePublishAccepts(h, ch) => "publish" \in allowed
      /\ handlePresenceAccepts(h, ch) => {"presence", "subscribe"} \subseteq allowed
      /\ handleHistoryAccepts(h, ch) => {"history", "subscribe"} \subseteq allowed

(* findRule: the rule of a channel is the first whose pattern describes it. *)
(* A rule that is used does; a rule that is passed over does not, if it has *)
(* its wildcard at the end.                                                 *)
RuleApplies ==
  \A ch \in Channels :
    /\ matching(ch) # {} => Glob(findRule(ch).pattern, ch)
    /\ \A i \in DOMAIN rules :
         /\ TrailingStar(rules[i].pattern)
         /\ Glob(rules[i].pattern, ch)
         => \E j \in matching(ch) : j <= i /\ findRule(ch) = rules[j]
=============================================================================
