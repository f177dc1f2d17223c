-------------------------------- MODULE Party --------------------------------
(***************************************************************************)
(* Parties (party.cpp, game.cpp 7189-7310).                                *)
(*                                                                         *)
(* A party is known in three places by raw pointers: Party::leader, its    *)
(* memberList and its inviteList; Player::party of each member; and        *)
(* Player::invitePartyList of each invited player.  A Party deletes itself *)
(* when nobody but the leader is left, in the middle of the operations     *)
(* that empty it.                                                          *)
(*                                                                         *)
(* The operations call each other, so each is written as a function of the *)
(* whole state of the parties, groups, and composed as the code composes   *)
(* them.  Left out: shared experience and what is shown on the clients;    *)
(* the events onJoin, onLeave and onDisband, whose shipped scripts never   *)
(* refuse.                                                                 *)
(***************************************************************************)
EXTENDS Online, SequencesExt

VARIABLE
  groups   \* of: Player::party, invites: Player::invitePartyList, parties

PartyIds == 1..Cardinality(Players)

ASSUME PartyAssumption == None \notin PartyIds

Dead == [leader |-> None, members |-> << >>, invited |-> {}]
Live(g) == {id \in PartyIds : g.parties[id] # Dead}

PartyInit ==
  groups = [of |-> [p \in Players |-> None], invites |-> [p \in Players |-> {}],
            parties |-> [id \in PartyIds |-> Dead]]

Leads(g, p) == g.of[p] # None /\ g.parties[g.of[p]].leader = p
Inviting(g, p, q) == Leads(g, p) /\ q \in g.parties[g.of[p]].invited
MembersOf(party) == {party.members[k] : k \in DOMAIN party.members}
Empty(g, id) == g.parties[id].members = << >> /\ g.parties[id].invited = {}

-----------------------------------------------------------------------------
(* The methods of Party *)

\* the constructor
Founded(g, p) ==
  LET id == Min(PartyIds \ Live(g)) IN
  [g EXCEPT !.of[p] = id, !.parties[id].leader = p]

Invited(g, id, q) ==
  [g EXCEPT !.parties[id].invited = @ \union {q}, !.invites[q] = @ \union {id}]

\* the members keep their pointer to it
Disbanded_Members(g, id) ==
  LET party == g.parties[id] IN
  [of |-> [p \in Players |-> IF p = party.leader THEN None ELSE g.of[p]],
   invites |-> [p \in Players |-> IF p \in party.invited THEN g.invites[p] \ {id}
                                  ELSE g.invites[p]],
   parties |-> [g.parties EXCEPT ![id] = Dead]]

\* disband: leader, members and invited players forget the party.
Disbanded(g, id) ==
  LET party == g.parties[id]
      mine  == {party.leader} \union MembersOf(party)
  IN [of |-> [p \in Players |-> IF p \in mine THEN None ELSE g.of[p]],
      invites |-> [p \in Players |-> IF p \in party.invited THEN g.invites[p] \ {id}
                                     ELSE g.invites[p]],
      parties |-> [g.parties EXCEPT ![id] = Dead]]

DisbandedIfEmpty(g, id) == IF Empty(g, id) THEN Disbanded(g, id) ELSE g

\* removeInvite; removeFromPlayer says whether the player's own list is changed.
InviteRemoved(g, id, q, removeFromPlayer) ==
  DisbandedIfEmpty(
    [g EXCEPT !.parties[id].invited = @ \ {q},
              !.invites[q] = IF removeFromPlayer THEN @ \ {id} ELSE @], id)

\* joinParty
Joined(g, id, p) ==
  [g EXCEPT !.parties[id].invited = @ \ {p}, !.parties[id].members = Append(@, p),
            !.of[p] = id, !.invites[p] = @ \ {id}]

\* passPartyLeadership: the old leader becomes the first member.
Passed(g, id, q) ==
  LET party == g.parties[id] IN
  [g EXCEPT !.parties[id].leader = q,
            !.parties[id].members = <<party.leader>> \o RemoveFirst(party.members, q)]

\* leaveParty: a leader who leaves passes the leadership to the first member,
\* unless only one member and nobody else would remain.
Left(g, p) ==
  LET id == g.of[p]
      party == g.parties[id]
      missingLeader ==
        /\ party.leader = p
        /\ party.members = << >> \/ (Len(party.members) = 1 /\ party.invited = {})
      h == IF party.leader = p /\ ~missingLeader THEN Passed(g, id, Head(party.members)) ELSE g
      rest == [h EXCEPT !.parties[id].members = RemoveFirst(@, p), !.of[p] = None]
  IN IF missingLeader THEN Disbanded(rest, id) ELSE DisbandedIfEmpty(rest, id)

\* Player::clearPartyInvitations
InvitationsCleared(g, p) ==
  LET withdrawn == FoldSet(LAMBDA id, h : InviteRemoved(h, id, p, FALSE), g, g.invites[p])
  IN [withdrawn EXCEPT !.invites[p] = {}]

-----------------------------------------------------------------------------
(* The requests of the players *)

InviteToParty(p, q) ==
  /\ {p, q} \subseteq online /\ p # q
  /\ ~Inviting(groups, q, p)
  /\ groups.of[q] = None
  /\ groups.of[p] = None \/ Leads(groups, p)
  /\ LET g == IF groups.of[p] = None THEN Founded(groups, p) ELSE groups IN
       groups' = Invited(g, g.of[p], q)
  /\ UNCHANGED <<online, alive>>

JoinParty(p, leader) ==
  /\ {p, leader} \subseteq online
  /\ Inviting(groups, leader, p)
  /\ groups.of[p] = None
  /\ groups' = Joined(groups, groups.of[leader], p)
  /\ UNCHANGED <<online, alive>>

RevokePartyInvitation(p, q) ==
  /\ {p, q} \subseteq online
  /\ Inviting(groups, p, q)
  /\ groups' = InviteRemoved(groups, groups.of[p], q, TRUE)
  /\ UNCHANGED <<online, alive>>

PassPartyLeadership(p, q) ==
  /\ {p, q} \subseteq online /\ p # q
  /\ Leads(groups, p)
  /\ groups.of[q] = groups.of[p]
  /\ groups' = Passed(groups, groups.of[p], q)
  /\ UNCHANGED <<online, alive>>

LeaveParty(p) ==
  /\ p \in online
  /\ groups.of[p] # None
  /\ groups' = Left(groups, p)
  /\ UNCHANGED <<online, alive>>

\* Player::onRemoveCreature and a new Player object, as far as parties go.
PartyLogout(p) ==
  LET g == InvitationsCleared(groups, p) IN
  groups' = IF g.of[p] # None THEN Left(g, p) ELSE g

PartyLogin(p) == groups' = [groups EXCEPT !.of[p] = None, !.invites[p] = {}]

PartyNext ==
  \E p \in Players :
    \/ LeaveParty(p)
    \/ \E q \in Players :
         \/ InviteToParty(p, q) \/ JoinParty(p, q)
         \/ RevokePartyInvitation(p, q) \/ PassPartyLeadership(p, q)

-----------------------------------------------------------------------------
(* Properties *)

\* Player::party is the party one leads or is a member of, in both directions:
\* no pointer to a deleted party, no member twice or beside the leader
\* (party.cpp 40-207).
MembersAgree ==
  /\ \A p \in online, id \in PartyIds :
       (groups.of[p] = id) <=> (p \in {groups.parties[id].leader} \union MembersOf(groups.parties[id]))
  /\ \A id \in PartyIds :
       LET party == groups.parties[id] IN
       /\ IsInjective(party.members)
       /\ party.leader \notin MembersOf(party)

\* The invitations a party holds and those a player holds are the same, nobody
\* is invited where he is a member, and only players online are
\* (party.cpp 209-318, player.cpp 4788-4810).
InvitationsAgree ==
  \A id \in PartyIds :
    LET party == groups.parties[id] IN
    /\ party.invited \subseteq online
    /\ \A p \in online : p \in party.invited <=> id \in groups.invites[p]
    /\ party.invited \intersect ({party.leader} \union MembersOf(party)) = {}

\* A party is led and peopled by players online, and is more than its leader:
\* it is deleted with its last member or invitation (party.cpp 59-149).
PartiesAlive ==
  \A id \in Live(groups) :
    /\ groups.parties[id].leader \in online
    /\ MembersOf(groups.parties[id]) \subseteq online
    /\ ~Empty(groups, id)

\* Leaving, revoking, passing on and logging out may each delete a party in the
\* middle of another operation: no pointer to it stays behind on any side.
PartiesConsistent == MembersAgree /\ InvitationsAgree /\ PartiesAlive
=============================================================================
