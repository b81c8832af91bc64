---------------------------- MODULE ChatReducer ----------------------------
(***************************************************************************)
(* What a page does with the gateway's events: the pure chatReducer of     *)
(* frontend/context/chatState.ts, as operators from a page to a page.      *)
(*                                                                         *)
(* A page is who is logged in, the users it shows online, its              *)
(* conversations with the messages and error lines in them and the count   *)
(* of unread ones, the one that is open, whether a group it asked for is   *)
(* still to come, and whom the dialog for a new one has listed.  Left out: *)
(* what is only drawn (titles, presence, banners, the sidebar and the      *)
(* nickname dialog) and the login screen, which is WebClient's.            *)
(***************************************************************************)
EXTENDS Naturals, Sequences, FiniteSets

CONSTANTS
  Account,   \* account ids
  Name,      \* nicknames; the gateway uses one as an id when it finds no bearer
  NoUser     \* null or undefined, for an account id

\* Conversation ids: "public", "direct:<id>:<id>" whatever the order of the
\* two (directConversationId sorts them), and "group:<n>".
Public == [kind |-> "public", ids |-> {}, n |-> 0]

Direct(x, y) == [kind |-> "direct", ids |-> {x, y}, n |-> 0]

Group(n) == [kind |-> "group", ids |-> {}, n |-> n]

Conversation(peer) == [peer |-> peer, messages |-> <<>>, unread |-> 0]

\* A Map with an entry set.
With(f, x, y) == [z \in DOMAIN f \cup {x} |-> IF z = x THEN y ELSE f[z]]

\* The numbers of I in order, and the elements of a sequence at these places.
Ascending(I) ==
  CHOOSE f \in [1..Cardinality(I) -> I] :
    /\ \A i \in I : \E k \in 1..Cardinality(I) : f[k] = i
    /\ \A j, k \in 1..Cardinality(I) : j < k => f[j] < f[k]
Among(q, I) == [k \in 1..Cardinality(I) |-> q[Ascending(I)[k]]]

\* The line of an error, among the messages.
ErrorLine == [m |-> 0, from |-> NoUser]

\* conversationFromSummary: a direct conversation is with its other member.
FromSummary(c, members, self) ==
  Conversation(IF c.kind = "direct" /\ members \ {self} # {}
                 THEN CHOOSE x \in members : x # self ELSE NoUser)

\* createInitialState
InitialPage == [user |-> NoUser, users |-> [x \in {} |-> x],
                convs |-> [c \in {Public} |-> Conversation(NoUser)],
                active |-> Public, pending |-> FALSE, listed |-> {}]

----------------------------------------------------------------------------

\* READY: users and conversations are rebuilt from the snapshot; a message of
\* a conversation that is not in it is skipped.
ready(p, self, users, summaries, history) ==
  LET messages(c) == Among([i \in DOMAIN history |-> [m |-> history[i].m, from |-> history[i].from]],
                           {i \in DOMAIN history : history[i].conv = c})
      conv(c) == IF c = Public THEN Conversation(NoUser)
                 ELSE FromSummary(c, summaries[c], self)
  IN  [p EXCEPT !.user = self, !.users = users, !.active = Public,
                !.listed = @ \cup DOMAIN users,
                !.convs = [c \in {Public} \cup DOMAIN summaries |->
                             [conv(c) EXCEPT !.messages = messages(c)]]]

\* Slip: the former entry of a user is spread over the new one.
userUpdateUnder(p, u, name) == IF u \in DOMAIN p.users THEN p ELSE [p EXCEPT !.users = With(@, u, name)]

\* USER_UPDATE
userUpdate(p, u, name) == [p EXCEPT !.users = With(@, u, name), !.listed = @ \cup {u}]

\* USER_OFFLINE: a user ticked in the dialog stays ticked (NewGroupModal).
userOffline(p, u) == [p EXCEPT !.users = [x \in DOMAIN @ \ {u} |-> @[x]]]

\* CONVERSATION_CREATED: the messages of one that exists are kept; a group the
\* page waits for is opened, and the dialog closed.
conversationCreated(p, c, members) ==
  LET old == c \in DOMAIN p.convs
      mine == p.pending /\ c.kind = "group" /\ p.user \in members /\ ~old
      incoming == FromSummary(c, members, p.user)
      merged == IF old THEN [p.convs[c] EXCEPT !.peer = incoming.peer] ELSE incoming
  IN  IF p.user = NoUser THEN p
      ELSE [p EXCEPT !.convs = With(@, c, merged),
                     !.active = IF mine THEN c ELSE @,
                     !.pending = @ /\ ~mine,
                     !.listed = IF mine THEN DOMAIN p.users ELSE @]

\* MESSAGE_RECEIVED: an unknown conversation is made up, with nobody to answer.
messageReceived(p, c, m, from) ==
  LET conv == IF c \in DOMAIN p.convs THEN p.convs[c] ELSE Conversation(NoUser)
  IN  [p EXCEPT !.convs =
         With(@, c, [conv EXCEPT !.messages = Append(@, [m |-> m, from |-> from]),
                                 !.unread = IF p.active = c THEN 0 ELSE @ + 1])]

\* An `error` event: without a user it goes to the login screen, else, by
\* ERROR_MESSAGE, to the conversation it names, if the page has it.
errorIn(p, c) ==
  IF p.user = NoUser \/ c \notin DOMAIN p.convs THEN p
  ELSE [p EXCEPT !.convs[c].messages = Append(@, ErrorLine)]

\* One that names no conversation goes to the open one.
errorHere(p) == errorIn(p, p.active)

\* Slip: SET_ACTIVE_CONVERSATION leaves the count.
setActiveUnread(p, c) == IF c \in DOMAIN p.convs THEN [p EXCEPT !.active = c] ELSE p

\* SET_ACTIVE_CONVERSATION
setActive(p, c) ==
  IF c \in DOMAIN p.convs THEN [p EXCEPT !.active = c, !.convs[c].unread = 0] ELSE p

\* MARK_PENDING_GROUP_CREATION
markPending(p) == [p EXCEPT !.pending = TRUE]

\* Slip: LOGGED_OUT leaves the conversation that is open.
loggedOutInPlace(p) == [InitialPage EXCEPT !.pending = p.pending, !.active = p.active]

\* LOGGED_OUT: `pendingGroupCreation` stays as it is.
loggedOut(p) == [InitialPage EXCEPT !.pending = p.pending]

\* ChatProvider's startDirectConversation: a conversation that does not exist
\* yet is opened locally.
startDirect(p, peer) ==
  LET c == Direct(p.user, peer)
  IN  setActive(IF c \in DOMAIN p.convs THEN p
                ELSE conversationCreated(p, c, {p.user, peer}), c)

=============================================================================
