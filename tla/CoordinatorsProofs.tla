------------------------- MODULE CoordinatorsProofs -------------------------
(***************************************************************************)
(* The inductive invariant of Coordinators and the properties that follow  *)
(* from it, for any number of coordinators and whether or not UIKit lets   *)
(* the user swipe and HomeController feeds logoutButtonTapped.             *)
(*                                                                         *)
(* A step is a handler followed by deinit (Becomes).  Whole is the         *)
(* invariant of the tree, the stack and the requests that a handler        *)
(* leaves; BecomesWhole does deinit once for all of them, and one lemma    *)
(* per handler does the rest.                                              *)
(***************************************************************************)
EXTENDS Coordinators, FiniteSetTheorems, SequenceTheorems, TLAPS

(* How a coordinator is kept: the application and homes always are, a      *)
(* login by its parent, a registration by a login that is kept itself.     *)
Kept(u, c) ==
  \/ u.kind[c] \in {"app", "home"}
  \/ u.kind[c] = "login" /\ u.held[c] # Nobody
  \/ u.kind[c] = "registration" /\ u.held[c] # Nobody /\ u.held[u.held[c]] # Nobody

(* Once a Home was shown, its coordinator is there until the next launch.  *)
HasHome(u) == \E h \in Ids : u.kind[h] = "home"

(* Who may have which child, and that a login and a registration complete  *)
(* as long as they are somebody's child.                                   *)
Tree(u) ==
  /\ u \in Uis
  /\ \A c \in Ids : u.kind[c] = "app" <=> c = App
  /\ u.held[App] = Nobody
  /\ \A c \in Ids : u.kind[c] = "none" => u.held[c] = Nobody
  /\ \A c \in Ids : u.held[c] \in Ids =>
       \/ u.kind[c] = "login" /\ u.kind[u.held[c]] \in {"app", "home"}
       \/ u.kind[c] = "registration" /\ u.kind[u.held[c]] = "login"
       \/ u.kind[c] = "home" /\ u.kind[u.held[c]] \in {"login", "registration"}
  /\ \A c \in Ids : u.kind[c] \in {"login", "registration"} /\ u.held[c] # Nobody => c \in u.armed
  /\ \A c, d \in Ids :
       u.kind[c] = "login" /\ u.kind[d] = "login" /\ u.held[c] = App /\ u.held[d] = App => c = d

(* Each coordinator has one screen at most, and the stack does not start   *)
(* with a registration.                                                    *)
StackOK(u) ==
  /\ u.stack # << >>
  /\ \A i \in 1 .. Len(u.stack) : u.stack[i].kind = u.kind[u.stack[i].owner]
  /\ \A i, j \in 1 .. Len(u.stack) : u.stack[i].owner = u.stack[j].owner => i = j
  /\ u.stack[1].kind # "registration"

(* Only the screens with a form ask for a sign-in.                         *)
RequestsOK(u, req) ==
  /\ req \in [Ids -> {"none", "asked", "signedIn", "ended"}]
  /\ \A c \in Ids : req[c] # "none" => u.kind[c] \in {"login", "registration"}

(* The requests that are out, and a name for the Home that each may bring. *)
Waiting(req) == {c \in Ids : req[c] \in {"asked", "signedIn"}}

RoomLeft(u, req) == Cardinality(Free(u)) >= Cardinality(Waiting(req))

(* A coordinator that has brought a Home cannot bring another.             *)
HomesOK(u, req) ==
  /\ \A h \in Ids : u.kind[h] = "home" /\ u.held[h] # Nobody =>
       LET c == u.held[h]
       IN  u.held[c] # Nobody =>
             /\ u.kind[c] = "login"
             /\ req[c] = "none"
             /\ \A i \in 1 .. Len(u.stack) : u.stack[i].owner # c
  /\ \A g, h \in Ids : u.kind[g] = "home" /\ u.kind[h] = "home"
                         /\ u.held[g] = u.held[h] /\ u.held[g] # Nobody => g = h

(* Until a Home was shown, every screen has its coordinator.               *)
ServedOK(u) == HasHome(u) \/ \A i \in 1 .. Len(u.stack) : Kept(u, u.stack[i].owner)

(* Holds whatever the switches.                                            *)
General(u, req) ==
  Tree(u) /\ StackOK(u) /\ RequestsOK(u, req) /\ RoomLeft(u, req) /\ HomesOK(u, req) /\ ServedOK(u)

(* Without logouts there is one Login screen, at the root: only it asks, a *)
(* registration lies on it, and a map without a session is left by a login *)
(* that failed.                                                            *)
Plain(u, req, s) ==
  /\ \A c \in Ids : u.kind[c] = "login" => u.held[c] \in {App, Nobody}
  /\ \A i \in 1 .. Len(u.stack) : u.stack[i].kind = "login" => i = 1
  /\ \A c \in Ids : u.kind[c] = "login" /\ req[c] # "none" => u.stack[1].owner = c
  /\ \A i \in 1 .. Len(u.stack) :
       u.stack[i].kind = "registration" =>
         /\ i > 1
         /\ u.stack[i - 1] = [kind |-> "login", owner |-> u.held[u.stack[i].owner]]
         /\ Kept(u, u.stack[i].owner) => i = Len(u.stack)
  /\ \A c \in Ids : req[c] = "signedIn" => s
  /\ HasHome(u) /\ ~s => \E c \in Ids : u.kind[c] = "login" /\ req[c] = "ended"

(* Without swipes the screen on top has its coordinator, a registration    *)
(* lies on its login, and the first Login screen and its registration are  *)
(* on top only until a Home is shown.                                      *)
Buttons(u) ==
  LET n == Len(u.stack)
      c == u.stack[n].owner
  IN
  /\ Kept(u, c)
  /\ u.kind[c] = "registration" => n > 1 /\ u.stack[n - 1] = [kind |-> "login", owner |-> u.held[c]]
  /\ \A r \in Ids : u.kind[r] = "registration" /\ Kept(u, r) /\ u.held[u.held[r]] = App =>
       r = c /\ ~HasHome(u)
  /\ u.kind[c] = "login" /\ u.held[c] = App => ~HasHome(u)

(* The invariant of what a handler leaves, and of a state.                 *)
Whole(u, req, s) ==
  /\ General(u, req)
  /\ ~LogoutWired => Plain(u, req, s)
  /\ ~InteractivePop => Buttons(u)

Inv == session \in BOOLEAN /\ Whole(ui, request, session)

-----------------------------------------------------------------------------
(* App is a name, Nobody is not, and there are finitely many names.        *)
LEMMA Names == App \in Ids /\ Nobody \notin Ids /\ IsFiniteSet(Ids)
<1>1. App \in Ids /\ Nobody \notin Ids
  BY MaxIdAssumption DEF App, Ids, Nobody
<1>2. IsFiniteSet(Ids)
  BY MaxIdAssumption, FS_Interval DEF Ids
<1>3. QED
  BY <1>1, <1>2

(* While a name is free, Fresh finds one.                                  *)
LEMMA FreshIsFree ==
  ASSUME NEW u, Free(u) # {}
  PROVE  Fresh(u) \in Ids /\ u.kind[Fresh(u)] = "none"
BY DEF Fresh, Free

(* What Living computes from the orphan sets is Kept: the references of a  *)
(* tree are two deep at most between the application or a home and a       *)
(* registration.                                                           *)
LEMMA AliveIsKept ==
  ASSUME NEW u, Tree(u), NEW c \in Ids
  PROVE  Alive(u, c) <=> Kept(u, c)
<1> DEFINE Children == {d \in Ids : u.kind[d] \in {"login", "registration"}}
           Orphans == {S \in SUBSET Children : \A d \in S : u.held[d] \in S \cup {Nobody}}
           D == {d \in Children : ~Kept(u, d)}
<1>1. Alive(u, c) <=> u.kind[c] # "none" /\ \A S \in Orphans : c \notin S
  BY DEF Alive, Living
<1>2. u.kind \in [Ids -> Kinds] /\ u.held \in [Ids -> Ids \cup {Nobody}]
  BY DEF Tree, Uis
<1>3. D \in Orphans
  <2>1. ASSUME NEW d \in D, u.held[d] # Nobody
        PROVE  u.held[d] \in D
    <3>1. u.held[d] \in Ids
      BY <1>2, <2>1
    <3>2. u.kind[d] = "registration" /\ u.kind[u.held[d]] = "login"
      BY <3>1, <2>1 DEF Tree, Kept
    <3>3. QED
      BY <3>1, <3>2, <2>1 DEF Kept
  <2>2. QED
    BY <2>1
<1>4. ASSUME NEW S \in Orphans, NEW d \in S, Kept(u, d)
      PROVE  FALSE
  <2>1. ASSUME NEW e \in S, u.kind[e] = "login", u.held[e] # Nobody
        PROVE  FALSE
    <3>1. u.held[e] \in S /\ u.held[e] \in Ids
      BY <2>1
    <3>2. u.kind[u.held[e]] \in {"app", "home"}
      BY <2>1, <3>1 DEF Tree
    <3>3. QED
      BY <3>1, <3>2
  <2>2. CASE u.kind[d] = "registration" /\ u.held[d] # Nobody /\ u.held[u.held[d]] # Nobody
    <3>1. u.held[d] \in S /\ u.held[d] \in Ids
      BY <2>2
    <3>2. u.kind[u.held[d]] = "login"
      BY <2>2, <3>1 DEF Tree
    <3>3. QED
      BY <3>1, <3>2, <2>1, <2>2
  <2>3. QED
    BY <1>4, <2>1, <2>2 DEF Kept
<1>5. Kept(u, c) => u.kind[c] # "none"
  BY DEF Kept
<1>6. ~Kept(u, c) => u.kind[c] = "none" \/ c \in D
  BY <1>2 DEF Kept, Kinds
<1>7. QED
  BY <1>1, <1>3, <1>4, <1>5, <1>6

(* The screens of a stack and their places.                                *)
LEMMA StackTypes ==
  ASSUME NEW u, u \in Uis
  PROVE  /\ u.stack \in Seq(Screens) /\ Len(u.stack) \in Nat
         /\ \A i \in 1 .. Len(u.stack) : u.stack[i] \in Screens /\ u.stack[i].owner \in Ids
         /\ u.stack # << >> => 1 \in 1 .. Len(u.stack) /\ Len(u.stack) \in 1 .. Len(u.stack)
<1>1. u.stack \in Seq(Screens)
  BY DEF Uis
<1>2. \A i \in 1 .. Len(u.stack) : u.stack[i] \in Screens
  BY <1>1
<1>3. \A s \in Screens : s.owner \in Ids
  BY DEF Screens
<1>4. Len(u.stack) \in Nat /\ (u.stack # << >> => Len(u.stack) > 0)
  BY <1>1
<1>5. QED
  BY <1>1, <1>2, <1>3, <1>4

(* What deinit leaves.                                                     *)
Left(u, req, gone) ==
  /\ gone \in SUBSET Ids
  /\ \A c \in gone : ~Kept(u, c) /\ req[c] # "asked"
  /\ \A i \in 1 .. Len(u.stack) : u.stack[i].owner \notin gone
  /\ ui' \in Uis
  /\ ui'.stack = u.stack
  /\ \A c \in Ids :
       /\ ui'.kind[c] = IF c \in gone THEN "none" ELSE u.kind[c]
       /\ ui'.held[c] = IF c \in gone \/ u.held[c] \in gone THEN Nobody ELSE u.held[c]
       /\ c \in ui'.armed <=> c \in u.armed /\ c \notin gone /\ u.held[c] \notin gone
       /\ request'[c] = IF c \in gone THEN "none" ELSE req[c]
  /\ request' \in [Ids -> {"none", "asked", "signedIn", "ended"}]

(* Becomes takes away coordinators that are not kept, have no screen and   *)
(* wait for no sign-in.                                                    *)
LEMMA BecomesLeft ==
  ASSUME NEW u, NEW req, Tree(u), RequestsOK(u, req), Becomes(u, req)
  PROVE  \E gone : Left(u, req, gone)
<1>1. PICK gone \in {Gone(u, req)} :
    /\ ui' = [u EXCEPT !.kind  = [c \in Ids |-> IF c \in gone THEN "none" ELSE @[c]],
                       !.held  = [c \in Ids |-> IF {c, @[c]} \cap gone # {}
                                                THEN Nobody ELSE @[c]],
                       !.armed = {c \in @ : {c, u.held[c]} \cap gone = {}}]
    /\ request' = [c \in Ids |-> IF c \in gone THEN "none" ELSE req[c]]
  BY DEF Becomes
<1>2. u \in Uis /\ gone \in SUBSET Ids
  BY <1>1 DEF Tree, Gone
<1>3. /\ ui' \in Uis /\ ui'.stack = u.stack
      /\ ui'.kind = [c \in Ids |-> IF c \in gone THEN "none" ELSE u.kind[c]]
      /\ ui'.held = [c \in Ids |-> IF {c, u.held[c]} \cap gone # {} THEN Nobody ELSE u.held[c]]
      /\ ui'.armed = {c \in u.armed : {c, u.held[c]} \cap gone = {}}
  BY <1>1, <1>2 DEF Uis, Kinds
<1>4. \A c \in gone : ~Kept(u, c) /\ req[c] # "asked" /\ ~OnStack(u, c)
  BY <1>1, AliveIsKept DEF Gone, Alive
<1>5. \A i \in 1 .. Len(u.stack) : u.stack[i].owner \notin gone
  BY <1>2, <1>4 DEF OnStack, Uis
<1>6. request' \in [Ids -> {"none", "asked", "signedIn", "ended"}]
  BY <1>1 DEF RequestsOK
<1>7. \A c \in Ids : c \in ui'.armed <=> c \in u.armed /\ c \notin gone /\ u.held[c] \notin gone
  BY <1>3
<1>8. \A c \in Ids :
       /\ ui'.kind[c] = IF c \in gone THEN "none" ELSE u.kind[c]
       /\ ui'.held[c] = IF c \in gone \/ u.held[c] \in gone THEN Nobody ELSE u.held[c]
       /\ request'[c] = IF c \in gone THEN "none" ELSE req[c]
  BY <1>1, <1>3
<1>9. Left(u, req, gone)
  BY <1>2, <1>3, <1>4, <1>5, <1>6, <1>7, <1>8 DEF Left
<1>10. QED
  BY <1>9

(* deinit takes no kept coordinator, and nothing that keeps one.           *)
LEMMA LeftKept ==
  ASSUME NEW u, NEW req, NEW gone, Tree(u), Left(u, req, gone), NEW c \in Ids
  PROVE  /\ Kept(ui', c) <=> Kept(u, c)
         /\ Kept(u, c) => c \notin gone
         /\ Kept(u, c) /\ u.kind[c] # "home" => ui'.held[c] = u.held[c]
<1>1. u.kind \in [Ids -> Kinds] /\ u.held \in [Ids -> Ids \cup {Nobody}]
  BY DEF Tree, Uis
<1>2. Nobody \notin Ids
  BY Names
<1>3. Kept(u, c) => c \notin gone /\ ui'.kind[c] = u.kind[c]
  BY DEF Left
<1>4. ASSUME Kept(u, c), u.kind[c] \in {"login", "registration"}
      PROVE  ui'.held[c] = u.held[c] /\ u.held[c] \in Ids /\ Kept(u, u.held[c])
  <2>1. u.held[c] \in Ids
    BY <1>1, <1>4 DEF Kept
  <2>2. Kept(u, u.held[c])
    BY <1>4, <2>1 DEF Kept, Tree
  <2>3. QED
    BY <1>2, <1>3, <1>4, <2>1, <2>2 DEF Left
<1>5. ASSUME Kept(u, c), u.kind[c] = "app"
      PROVE  ui'.held[c] = u.held[c]
  BY <1>2, <1>3, <1>5 DEF Left, Tree
<1>6. Kept(u, c) => Kept(ui', c)
  <2>1. ASSUME Kept(u, c), u.kind[c] = "registration"
        PROVE  Kept(ui', c)
    <3>1. u.held[c] \in Ids /\ u.kind[u.held[c]] = "login" /\ Kept(u, u.held[c])
      BY <1>4, <2>1 DEF Tree
    <3>2. ui'.held[u.held[c]] = u.held[u.held[c]]
      <4>1. u.held[c] \notin gone /\ u.held[u.held[c]] \in Ids /\ Kept(u, u.held[u.held[c]])
        BY <3>1, <1>1 DEF Kept, Tree, Left
      <4>2. QED
        BY <4>1, <3>1 DEF Left
    <3>3. QED
      BY <2>1, <3>1, <3>2, <1>3, <1>4 DEF Kept
  <2>2. QED
    BY <1>3, <1>4, <2>1 DEF Kept
<1>7. Kept(ui', c) => Kept(u, c)
  <2>1. ui'.kind[c] # "none" => ui'.kind[c] = u.kind[c] /\ c \notin gone
    BY DEF Left
  <2>2. ui'.held[c] # Nobody => ui'.held[c] = u.held[c] /\ u.held[c] \in Ids
    BY <1>1 DEF Left
  <2>3. \A d \in Ids : ui'.held[d] # Nobody => ui'.held[d] = u.held[d]
    BY DEF Left
  <2>4. QED
    BY <2>1, <2>2, <2>3 DEF Kept
<1>8. QED
  BY <1>3, <1>4, <1>5, <1>6, <1>7 DEF Kept

(* deinit leaves a tree.                                                   *)
LEMMA LeftTree ==
  ASSUME NEW u, NEW req, NEW gone, Tree(u), Left(u, req, gone)
  PROVE  Tree(ui')
<1>1. ui' \in Uis
  BY DEF Left
<1>2. u.kind \in [Ids -> Kinds] /\ u.held \in [Ids -> Ids \cup {Nobody}] /\ Nobody \notin Ids
  BY Names DEF Tree, Uis
<1>3. App \in Ids /\ App \notin gone
  BY Names DEF Tree, Left, Kept
<1>4. \A c \in Ids : ui'.held[c] # Nobody => 
          ui'.held[c] = u.held[c] /\ u.held[c] \in Ids /\ c \notin gone /\ u.held[c] \notin gone
  BY <1>2 DEF Left
<1>5. \A c \in Ids : ui'.kind[c] # "none" => ui'.kind[c] = u.kind[c] /\ c \notin gone
  BY DEF Left
<1>6. \A c \in Ids : ui'.kind[c] = "app" <=> c = App
  BY <1>3, <1>5 DEF Tree, Left
<1>7. ui'.held[App] = Nobody
  BY <1>3 DEF Tree, Left
<1>8. \A c \in Ids : ui'.kind[c] = "none" => ui'.held[c] = Nobody
  BY DEF Tree, Left
<1>9. ASSUME NEW c \in Ids, ui'.held[c] \in Ids
      PROVE  \/ ui'.kind[c] = "login" /\ ui'.kind[ui'.held[c]] \in {"app", "home"}
             \/ ui'.kind[c] = "registration" /\ ui'.kind[ui'.held[c]] = "login"
             \/ ui'.kind[c] = "home" /\ ui'.kind[ui'.held[c]] \in {"login", "registration"}
  <2>1. ui'.held[c] = u.held[c] /\ c \notin gone /\ u.held[c] \notin gone
    BY <1>2, <1>4, <1>9
  <2>2. ui'.kind[c] = u.kind[c] /\ ui'.kind[u.held[c]] = u.kind[u.held[c]]
    BY <2>1, <1>9 DEF Left
  <2>3. QED
    BY <2>1, <2>2, <1>9 DEF Tree
<1>10. \A c \in Ids : ui'.kind[c] \in {"login", "registration"} /\ ui'.held[c] # Nobody => c \in ui'.armed
  BY <1>4, <1>5 DEF Tree, Left
<1>11. \A c, d \in Ids :
         ui'.kind[c] = "login" /\ ui'.kind[d] = "login" /\ ui'.held[c] = App /\ ui'.held[d] = App => c = d
  BY <1>2, <1>3, <1>4, <1>5 DEF Tree
<1>12. QED
  BY <1>1, <1>6, <1>7, <1>8, <1>9, <1>10, <1>11 DEF Tree

(* deinit leaves the screens, and their owners what they were.             *)
LEMMA LeftStack ==
  ASSUME NEW u, NEW req, NEW gone, Tree(u), StackOK(u), Left(u, req, gone)
  PROVE  /\ StackOK(ui')
         /\ \A i \in 1 .. Len(u.stack) :
              /\ u.stack[i] \in Screens
              /\ ui'.kind[u.stack[i].owner] = u.kind[u.stack[i].owner]
<1>1. \A i \in 1 .. Len(u.stack) : u.stack[i] \in Screens /\ u.stack[i].owner \in Ids
  BY StackTypes DEF Tree
<1>2. \A i \in 1 .. Len(u.stack) : ui'.kind[u.stack[i].owner] = u.kind[u.stack[i].owner]
  BY <1>1 DEF Left
<1>3. QED
  BY <1>1, <1>2 DEF StackOK, Left

(* deinit leaves the requests of login and registration coordinators.      *)
LEMMA LeftRequests ==
  ASSUME NEW u, NEW req, NEW gone, RequestsOK(u, req), Left(u, req, gone)
  PROVE  RequestsOK(ui', request')
BY DEF RequestsOK, Left

(* deinit frees names.                                                     *)
LEMMA LeftRoom ==
  ASSUME NEW u, NEW req, NEW gone, RoomLeft(u, req), Left(u, req, gone)
  PROVE  RoomLeft(ui', request')
<1>1. Free(u) \subseteq Free(ui') /\ Waiting(request') \subseteq Waiting(req)
  BY DEF Left, Free, Waiting
<1>2. IsFiniteSet(Free(ui')) /\ IsFiniteSet(Waiting(req)) /\ IsFiniteSet(Free(u)) /\ IsFiniteSet(Waiting(request'))
  BY Names, FS_Subset DEF Free, Waiting
<1>3. Cardinality(Free(u)) <= Cardinality(Free(ui')) /\ Cardinality(Waiting(request')) <= Cardinality(Waiting(req))
  BY <1>1, <1>2, FS_Subset
<1>4. /\ Cardinality(Free(u)) \in Nat /\ Cardinality(Free(ui')) \in Nat
      /\ Cardinality(Waiting(request')) \in Nat /\ Cardinality(Waiting(req)) \in Nat
  BY <1>2, FS_CardinalityType
<1>5. QED
  BY <1>3, <1>4 DEF RoomLeft

(* deinit leaves every Home, and whoever brought it as it was.             *)
LEMMA LeftHomes ==
  ASSUME NEW u, NEW req, NEW gone, Tree(u), HomesOK(u, req), Left(u, req, gone)
  PROVE  HomesOK(ui', request')
<1>1. u.held \in [Ids -> Ids \cup {Nobody}] /\ Nobody \notin Ids
  BY Names DEF Tree, Uis
<1>2. \A c \in Ids : ui'.held[c] # Nobody => 
          ui'.held[c] = u.held[c] /\ u.held[c] \in Ids /\ c \notin gone /\ u.held[c] \notin gone
  BY <1>1 DEF Left
<1>3. \A c \in Ids : c \notin gone => ui'.kind[c] = u.kind[c] /\ request'[c] = req[c]
  BY DEF Left
<1>4. \A c \in Ids : ui'.kind[c] = "home" => u.kind[c] = "home"
  BY DEF Left
<1>5. ASSUME NEW h \in Ids, ui'.kind[h] = "home", ui'.held[h] # Nobody, ui'.held[ui'.held[h]] # Nobody
      PROVE  /\ ui'.kind[ui'.held[h]] = "login"
             /\ request'[ui'.held[h]] = "none"
             /\ \A i \in 1 .. Len(ui'.stack) : ui'.stack[i].owner # ui'.held[h]
  <2>1. ui'.held[h] = u.held[h] /\ u.held[h] \in Ids /\ u.held[h] \notin gone
    BY <1>2, <1>5
  <2>2. u.held[u.held[h]] # Nobody
    BY <1>2, <1>5, <2>1
  <2>3. /\ u.kind[u.held[h]] = "login"
        /\ req[u.held[h]] = "none"
        /\ \A i \in 1 .. Len(u.stack) : u.stack[i].owner # u.held[h]
    BY <1>1, <1>4, <1>5, <2>1, <2>2 DEF HomesOK
  <2>4. QED
    BY <1>3, <2>1, <2>3 DEF Left
<1>6. \A g, h \in Ids : ui'.kind[g] = "home" /\ ui'.kind[h] = "home"
                          /\ ui'.held[g] = ui'.held[h] /\ ui'.held[g] # Nobody => g = h
  BY <1>1, <1>2, <1>4 DEF HomesOK
<1>7. QED
  BY <1>5, <1>6 DEF HomesOK

(* A Home is never taken away: its own closure refers to it.               *)
LEMMA LeftHasHome ==
  ASSUME NEW u, NEW req, NEW gone, Left(u, req, gone)
  PROVE  HasHome(ui') <=> HasHome(u)
BY DEF HasHome, Left, Kept

(* deinit does not take the coordinator of a screen.                       *)
LEMMA LeftServed ==
  ASSUME NEW u, NEW req, NEW gone, Tree(u), StackOK(u), ServedOK(u), Left(u, req, gone)
  PROVE  ServedOK(ui')
<1>1. \A i \in 1 .. Len(u.stack) : u.stack[i].owner \in Ids
  BY StackTypes DEF Tree
<1>2. QED
  BY <1>1, LeftHasHome, LeftKept DEF ServedOK, Left

(* deinit keeps what holds without logouts.                                *)
LEMMA LeftPlain ==
  ASSUME NEW u, NEW req, NEW gone, Tree(u), StackOK(u), RequestsOK(u, req), Plain(u, req, session'), Left(u, req, gone)
  PROVE  Plain(ui', request', session')
<1>1. u.held \in [Ids -> Ids \cup {Nobody}] /\ Nobody \notin Ids
  BY Names DEF Tree, Uis
<1>2. /\ \A i \in 1 .. Len(u.stack) : u.stack[i].owner \in Ids \ gone
      /\ 1 \in 1 .. Len(u.stack)
  BY StackTypes DEF Tree, StackOK, Left
<1>3. \A c \in Ids : ui'.kind[c] # "none" => ui'.kind[c] = u.kind[c] /\ c \notin gone
  BY DEF Left
<1>4. \A c \in Ids : ui'.kind[c] = "login" => ui'.held[c] \in {App, Nobody}
  BY <1>3 DEF Plain, Left
<1>5. \A i \in 1 .. Len(ui'.stack) : ui'.stack[i].kind = "login" => i = 1
  BY DEF Plain, Left
<1>6. \A c \in Ids : ui'.kind[c] = "login" /\ request'[c] # "none" => ui'.stack[1].owner = c
  BY <1>3 DEF Plain, Left
<1>7. ASSUME NEW i \in 1 .. Len(ui'.stack), ui'.stack[i].kind = "registration"
      PROVE  /\ i > 1
             /\ ui'.stack[i - 1] = [kind |-> "login", owner |-> ui'.held[ui'.stack[i].owner]]
             /\ Kept(ui', ui'.stack[i].owner) => i = Len(ui'.stack)
  <2>1. ui'.stack = u.stack
    BY DEF Left
  <2>2. /\ i > 1
        /\ u.stack[i - 1] = [kind |-> "login", owner |-> u.held[u.stack[i].owner]]
        /\ Kept(u, u.stack[i].owner) => i = Len(u.stack)
    BY <1>7, <2>1 DEF Plain
  <2>3. i - 1 \in 1 .. Len(u.stack) /\ u.stack[i - 1].owner \notin gone
    BY <1>2, <2>1, <2>2 DEF Tree, Uis
  <2>4. ui'.held[u.stack[i].owner] = u.held[u.stack[i].owner]
    BY <1>2, <2>1, <2>2, <2>3 DEF Left
  <2>5. QED
    BY <1>2, <2>1, <2>2, <2>4, LeftKept
<1>8. \A c \in Ids : request'[c] = "signedIn" => session'
  BY DEF Plain, Left
<1>9. ASSUME HasHome(ui'), ~session'
      PROVE  \E c \in Ids : ui'.kind[c] = "login" /\ request'[c] = "ended"
  <2>1. PICK c \in Ids : u.kind[c] = "login" /\ req[c] = "ended"
    BY <1>9, LeftHasHome DEF Plain
  <2>2. u.stack[1].owner = c
    BY <2>1 DEF Plain
  <2>3. QED
    BY <1>2, <2>1, <2>2 DEF Left
<1>10. QED
  BY <1>4, <1>5, <1>6, <1>7, <1>8, <1>9 DEF Plain

(* deinit keeps what holds without swipes.                                 *)
LEMMA LeftButtons ==
  ASSUME NEW u, NEW req, NEW gone, Tree(u), StackOK(u), Buttons(u), Left(u, req, gone)
  PROVE  Buttons(ui')
<1> DEFINE n == Len(u.stack)
           c == u.stack[n].owner
<1>1. u.held \in [Ids -> Ids \cup {Nobody}] /\ Nobody \notin Ids /\ App \in Ids
  BY Names DEF Tree, Uis
<1>2. n \in 1 .. Len(u.stack) /\ c \in Ids
  BY StackTypes DEF Tree, StackOK
<1>3. ui'.stack = u.stack
  BY DEF Left
<1>4. Kept(u, c) /\ Kept(ui', c) /\ ui'.kind[c] = u.kind[c]
  BY <1>2, LeftKept, LeftStack DEF Buttons
<1>5. \A d \in Ids : ui'.kind[d] # "none" => ui'.kind[d] = u.kind[d]
  BY DEF Left
<1>6. u.kind[c] = "registration" => n > 1 /\ u.stack[n - 1] = [kind |-> "login", owner |-> ui'.held[c]]
  BY <1>2, <1>4, LeftKept DEF Buttons
<1>7. ASSUME NEW r \in Ids, ui'.kind[r] = "registration", Kept(ui', r), ui'.held[ui'.held[r]] = App
      PROVE  r = c /\ ~HasHome(ui')
  <2>1. Kept(u, r) /\ u.kind[r] = "registration" /\ ui'.held[r] = u.held[r]
    BY <1>5, <1>7, LeftKept
  <2>2. u.held[r] \in Ids
    BY <1>1, <2>1 DEF Kept
  <2>3. u.held[u.held[r]] = App
    BY <1>1, <1>7, <2>1, <2>2 DEF Left
  <2>4. QED
    BY <2>1, <2>3, LeftHasHome DEF Buttons
<1>8. u.kind[c] = "login" /\ ui'.held[c] = App => ~HasHome(ui')
  BY <1>2, <1>4, LeftKept, LeftHasHome DEF Buttons
<1>9. QED
  BY <1>3, <1>4, <1>6, <1>7, <1>8 DEF Buttons

(* It is enough to show the invariant of what a handler leaves: deinit     *)
(* keeps it.                                                               *)
LEMMA BecomesWhole ==
  ASSUME NEW u, NEW req, Whole(u, req, session'), Becomes(u, req)
  PROVE  Whole(ui', request', session')
<1>1. PICK gone : Left(u, req, gone)
  BY BecomesLeft DEF Whole, General
<1>2. General(ui', request')
  BY <1>1, LeftTree, LeftStack, LeftRequests, LeftRoom, LeftHomes, LeftServed DEF Whole, General
<1>3. ~LogoutWired => Plain(ui', request', session')
  BY <1>1, LeftPlain DEF Whole, General
<1>4. ~InteractivePop => Buttons(ui')
  BY <1>1, LeftButtons DEF Whole, General
<1>5. QED
  BY <1>2, <1>3, <1>4 DEF Whole

-----------------------------------------------------------------------------
(* What the statements do to the tree and the stack.                       *)

(* add gives a free name a kind and a parent.                              *)
LEMMA AddFields ==
  ASSUME NEW u \in Uis, NEW k \in Kinds, NEW p \in Ids, NEW arm \in BOOLEAN, Free(u) # {}
  PROVE  /\ add(u, k, p, arm) \in Uis
         /\ add(u, k, p, arm).kind = [u.kind EXCEPT ![Fresh(u)] = k]
         /\ add(u, k, p, arm).held = [u.held EXCEPT ![Fresh(u)] = p]
         /\ arm => add(u, k, p, arm).armed = u.armed \cup {Fresh(u)}
         /\ ~arm => add(u, k, p, arm).armed = u.armed
         /\ add(u, k, p, arm).stack = u.stack
BY FreshIsFree DEF add, Uis

(* remove takes a coordinator from childCoordinators.                      *)
LEMMA RemoveFields ==
  ASSUME NEW u \in Uis, NEW c \in Ids
  PROVE  /\ remove(u, c) \in Uis
         /\ remove(u, c).kind = u.kind
         /\ remove(u, c).held = [u.held EXCEPT ![c] = Nobody]
         /\ remove(u, c).armed = u.armed \ {c}
         /\ remove(u, c).stack = u.stack
BY DEF remove, Uis

(* push adds a screen on top.                                              *)
LEMMA PushFields ==
  ASSUME NEW u \in Uis, NEW k \in {"login", "registration", "home"}, NEW c \in Ids
  PROVE  /\ push(u, k, c) \in Uis
         /\ push(u, k, c).kind = u.kind
         /\ push(u, k, c).held = u.held
         /\ push(u, k, c).armed = u.armed
         /\ push(u, k, c).stack = Append(u.stack, [kind |-> k, owner |-> c])
<1>1. [kind |-> k, owner |-> c] \in Screens
  BY DEF Screens
<1>2. Append(u.stack, [kind |-> k, owner |-> c]) \in Seq(Screens)
  BY <1>1 DEF Uis
<1>3. QED
  BY <1>2 DEF push, Uis

(* pop takes the top screen away, but never the root.                      *)
LEMMA PopFields ==
  ASSUME NEW u \in Uis
  PROVE  /\ pop(u) \in Uis
         /\ pop(u).kind = u.kind
         /\ pop(u).held = u.held
         /\ pop(u).armed = u.armed
         /\ pop(u).stack = IF Len(u.stack) > 1 THEN Front(u.stack) ELSE u.stack
<1>1. u.stack \in Seq(Screens)
  BY DEF Uis
<1>2. Len(u.stack) > 1 => Front(u.stack) \in Seq(Screens)
  BY <1>1 DEF Front
<1>3. QED
  BY <1>1, <1>2 DEF pop, Uis

(* The places of a stack with one more screen.                             *)
LEMMA PushedStack ==
  ASSUME NEW s \in Seq(Screens), NEW x
  PROVE  /\ Len(Append(s, x)) = Len(s) + 1
         /\ \A i \in 1 .. Len(s) : Append(s, x)[i] = s[i]
         /\ Append(s, x)[Len(s) + 1] = x
         /\ Append(s, x) # << >>
OBVIOUS

(* The places of a stack without its top.                                  *)
LEMMA PoppedStack ==
  ASSUME NEW s \in Seq(Screens), Len(s) > 1
  PROVE  /\ Len(Front(s)) = Len(s) - 1
         /\ \A i \in 1 .. Len(s) - 1 : Front(s)[i] = s[i]
         /\ Front(s) # << >>
<1>1. Len(s) \in Nat /\ 1 <= Len(s) - 1 /\ Len(s) - 1 \in Int
  OBVIOUS
<1>2. \A i \in 1 .. Len(s) - 1 : s[i] \in Screens
  OBVIOUS
<1>3. /\ Len(SubSeq(s, 1, Len(s) - 1)) = (Len(s) - 1) - 1 + 1
      /\ \A i \in 1 .. (Len(s) - 1) - 1 + 1 : SubSeq(s, 1, Len(s) - 1)[i] = s[1 + i - 1]
      /\ SubSeq(s, 1, Len(s) - 1) \in Seq(Screens)
  BY <1>1, <1>2, SubSeqProperties, Z3
<1>4. Len(Front(s)) = Len(s) - 1
  BY <1>1, <1>3 DEF Front
<1>5. ASSUME NEW i \in 1 .. Len(s) - 1
      PROVE  Front(s)[i] = s[i]
  <2>1. i \in 1 .. (Len(s) - 1) - 1 + 1 /\ 1 + i - 1 = i
    BY <1>1
  <2>2. QED
    BY <1>3, <2>1 DEF Front
<1>6. QED
  BY <1>1, <1>4, <1>5

(* A name that is free is nobody's parent.                                 *)
LEMMA Childless ==
  ASSUME NEW u, Tree(u), NEW c \in Ids, u.kind[c] = "none"
  PROVE  \A d \in Ids : u.held[d] # c
BY DEF Tree

(* A new child of the right kind leaves a tree.                            *)
LEMMA AddTree ==
  ASSUME NEW u, Tree(u), NEW k, NEW p \in Ids, NEW arm \in BOOLEAN, Free(u) # {},
         \/ k = "login" /\ u.kind[p] = "home"
         \/ k = "registration" /\ u.kind[p] = "login"
         \/ k = "home" /\ u.kind[p] \in {"login", "registration"},
         k # "home" => arm
  PROVE  Tree(add(u, k, p, arm))
<1> DEFINE v == add(u, k, p, arm)
           f == Fresh(u)
<1>1. u \in Uis /\ k \in Kinds
  BY DEF Tree, Kinds
<1>2. f \in Ids /\ u.kind[f] = "none" /\ f # p /\ f # App
  BY FreshIsFree, Names DEF Tree
<1>3. /\ v \in Uis
      /\ v.kind = [u.kind EXCEPT ![f] = k]
      /\ v.held = [u.held EXCEPT ![f] = p]
      /\ arm => v.armed = u.armed \cup {f}
      /\ ~arm => v.armed = u.armed
  BY <1>1, AddFields
<1>4. u.kind \in [Ids -> Kinds] /\ u.held \in [Ids -> Ids \cup {Nobody}]
  BY <1>1 DEF Uis
<1>5. \A d \in Ids : u.held[d] # f
  BY <1>2, Childless
<1>6. /\ \A d \in Ids : d # f => v.kind[d] = u.kind[d] /\ v.held[d] = u.held[d]
      /\ v.kind[f] = k /\ v.held[f] = p
      /\ \A d \in u.armed : d \in v.armed
      /\ k # "home" => f \in v.armed
  BY <1>2, <1>3, <1>4
<1> HIDE DEF v, f
<1>7. \A c \in Ids : v.kind[c] = "app" <=> c = App
  BY <1>2, <1>6 DEF Tree
<1>8. v.held[App] = Nobody
  BY <1>2, <1>6, Names DEF Tree
<1>9. \A c \in Ids : v.kind[c] = "none" => v.held[c] = Nobody
  BY <1>2, <1>6 DEF Tree
<1>10. ASSUME NEW c \in Ids, v.held[c] \in Ids
       PROVE  \/ v.kind[c] = "login" /\ v.kind[v.held[c]] \in {"app", "home"}
              \/ v.kind[c] = "registration" /\ v.kind[v.held[c]] = "login"
              \/ v.kind[c] = "home" /\ v.kind[v.held[c]] \in {"login", "registration"}
  <2>1. CASE c = f
    BY <1>2, <1>6, <2>1
  <2>2. CASE c # f
    BY <1>5, <1>6, <1>10, <2>2 DEF Tree
  <2>3. QED
    BY <2>1, <2>2
<1>11. \A c \in Ids : v.kind[c] \in {"login", "registration"} /\ v.held[c] # Nobody => c \in v.armed
  BY <1>6 DEF Tree
<1>12. \A c, d \in Ids :
         v.kind[c] = "login" /\ v.kind[d] = "login" /\ v.held[c] = App /\ v.held[d] = App => c = d
  <2>1. k = "login" => p # App
    BY Names DEF Tree
  <2>2. QED
    BY <1>6, <2>1 DEF Tree
<1>13. QED
  BY <1>3, <1>7, <1>8, <1>9, <1>10, <1>11, <1>12 DEF Tree, v

(* A completed child leaves a tree.                                        *)
LEMMA RemoveTree ==
  ASSUME NEW u, Tree(u), NEW c \in Ids
  PROVE  Tree(remove(u, c))
<1> DEFINE v == remove(u, c)
<1>1. u \in Uis /\ u.held \in [Ids -> Ids \cup {Nobody}] /\ Nobody \notin Ids /\ App \in Ids
  BY Names DEF Tree, Uis
<1>2. v \in Uis /\ v.kind = u.kind /\ v.armed = u.armed \ {c}
  BY <1>1, RemoveFields
<1>3. v.held = [u.held EXCEPT ![c] = Nobody]
  BY <1>1, RemoveFields
<1> HIDE DEF v
<1>4. \A d \in Ids : v.held[d] = IF d = c THEN Nobody ELSE u.held[d]
  BY <1>1, <1>3
<1>5. QED
  BY <1>1, <1>2, <1>4 DEF Tree, v

(* The stack does not matter to the tree.                                  *)
LEMMA SameTree ==
  ASSUME NEW u, NEW v \in Uis, Tree(u), v.kind = u.kind, v.held = u.held, v.armed = u.armed
  PROVE  Tree(v) /\ \A c \in Ids : Kept(v, c) <=> Kept(u, c)
BY DEF Tree, Kept

(* A new coordinator has no screen yet.                                    *)
LEMMA AddStack ==
  ASSUME NEW u, Tree(u), StackOK(u), NEW v \in Uis, NEW f, NEW k, u.kind[f] = "none",
         v.kind = [u.kind EXCEPT ![f] = k], v.stack = u.stack
  PROVE  StackOK(v) /\ \A i \in 1 .. Len(u.stack) : u.stack[i].owner # f
<1>1. \A i \in 1 .. Len(u.stack) : u.stack[i] \in Screens /\ u.stack[i].owner \in Ids
  BY StackTypes DEF Tree
<1>2. \A i \in 1 .. Len(u.stack) : u.kind[u.stack[i].owner] # "none"
  BY <1>1 DEF StackOK, Screens
<1>3. u.kind \in [Ids -> Kinds]
  BY DEF Tree, Uis
<1>4. QED
  BY <1>1, <1>2, <1>3 DEF StackOK

(* The first screen of a coordinator may come on top.                      *)
LEMMA PushStack ==
  ASSUME NEW u, u \in Uis, StackOK(u), NEW v \in Uis, NEW c \in Ids, v.kind = u.kind,
         \A i \in 1 .. Len(u.stack) : u.stack[i].owner # c,
         v.stack = Append(u.stack, [kind |-> u.kind[c], owner |-> c])
  PROVE  StackOK(v)
<1>1. /\ u.stack \in Seq(Screens) /\ Len(u.stack) \in Nat
      /\ 1 \in 1 .. Len(u.stack)
  BY StackTypes DEF StackOK
<1>2. /\ Len(v.stack) = Len(u.stack) + 1
      /\ \A i \in 1 .. Len(u.stack) : v.stack[i] = u.stack[i]
      /\ v.stack[Len(u.stack) + 1] = [kind |-> u.kind[c], owner |-> c]
      /\ v.stack # << >>
  BY <1>1, PushedStack
<1>3. \A i \in 1 .. Len(v.stack) : i \in 1 .. Len(u.stack) \/ i = Len(u.stack) + 1
  BY <1>1, <1>2
<1>4. QED
  BY <1>1, <1>2, <1>3 DEF StackOK

(* A stack without its top is in order.                                    *)
LEMMA PopStack ==
  ASSUME NEW u, u \in Uis, StackOK(u), NEW v \in Uis, v.kind = u.kind,
         Len(u.stack) > 1, v.stack = Front(u.stack)
  PROVE  StackOK(v)
<1>1. u.stack \in Seq(Screens) /\ Len(u.stack) \in Nat
  BY StackTypes
<1>2. /\ Len(v.stack) = Len(u.stack) - 1
      /\ \A i \in 1 .. Len(u.stack) - 1 : v.stack[i] = u.stack[i]
      /\ v.stack # << >>
  BY <1>1, PoppedStack
<1>3. \A i \in 1 .. Len(v.stack) : i \in 1 .. Len(u.stack) /\ v.stack[i] = u.stack[i]
  BY <1>1, <1>2
<1>4. 1 \in 1 .. Len(v.stack)
  BY <1>1, <1>2
<1>5. \A i \in 1 .. Len(v.stack) : v.stack[i].kind = v.kind[v.stack[i].owner]
  BY <1>3 DEF StackOK
<1>6. \A i, j \in 1 .. Len(v.stack) : v.stack[i].owner = v.stack[j].owner => i = j
  BY <1>3 DEF StackOK
<1>7. v.stack[1].kind # "registration"
  BY <1>3, <1>4 DEF StackOK
<1>8. QED
  BY <1>2, <1>5, <1>6, <1>7 DEF StackOK

(* A child that completes brings no Home.                                  *)
LEMMA RemoveHomes ==
  ASSUME NEW u, Tree(u), NEW req, HomesOK(u, req), NEW v \in Uis, NEW c \in Ids,
         v.kind = u.kind, v.held = [u.held EXCEPT ![c] = Nobody], v.stack = u.stack
  PROVE  HomesOK(v, req)
<1>1. u.held \in [Ids -> Ids \cup {Nobody}] /\ Nobody \notin Ids
  BY Names DEF Tree, Uis
<1>2. \A d \in Ids : v.held[d] # Nobody => v.held[d] = u.held[d] /\ u.held[d] \in Ids
  BY <1>1
<1>3. QED
  BY <1>1, <1>2 DEF HomesOK

-----------------------------------------------------------------------------
(* Room for coordinators.                                                  *)

(* How many names are free and how many requests are out are natural       *)
(* numbers.                                                                *)
LEMMA Counts ==
  ASSUME NEW u, NEW req
  PROVE  /\ IsFiniteSet(Free(u)) /\ Cardinality(Free(u)) \in Nat
         /\ IsFiniteSet(Waiting(req)) /\ Cardinality(Waiting(req)) \in Nat
         /\ Cardinality(Free(u)) > 0 => Free(u) # {}
<1>1. IsFiniteSet(Free(u)) /\ IsFiniteSet(Waiting(req))
  BY Names, FS_Subset DEF Free, Waiting
<1>2. QED
  BY <1>1, FS_CardinalityType, FS_EmptySet

(* A new coordinator takes one free name.                                  *)
LEMMA FreeTaken ==
  ASSUME NEW u, NEW v, NEW f \in Ids, u.kind[f] = "none", v.kind[f] # "none",
         \A d \in Ids : d # f => v.kind[d] = u.kind[d]
  PROVE  Cardinality(Free(v)) = Cardinality(Free(u)) - 1
<1>1. Free(v) = Free(u) \ {f} /\ f \in Free(u)
  BY DEF Free
<1>2. QED
  BY <1>1, Counts, FS_RemoveElement

(* A new request adds one to those that are out; an answer takes one away. *)
LEMMA WaitingChanges ==
  ASSUME NEW req, req \in [Ids -> {"none", "asked", "signedIn", "ended"}], NEW c \in Ids,
         NEW x \in {"none", "asked", "signedIn", "ended"}
  PROVE  LET new == [req EXCEPT ![c] = x]
         IN  /\ Cardinality(Waiting(new)) <= Cardinality(Waiting(req)) + 1
             /\ c \in Waiting(req) =>
                  /\ Cardinality(Waiting(req)) > 0
                  /\ Cardinality(Waiting(new)) <= Cardinality(Waiting(req))
                  /\ x \in {"none", "ended"} =>
                       Cardinality(Waiting(new)) = Cardinality(Waiting(req)) - 1
<1> DEFINE new == [req EXCEPT ![c] = x]
<1>1. \A d \in Ids : new[d] = IF d = c THEN x ELSE req[d]
  OBVIOUS
<1> HIDE DEF new
<1>2. Waiting(new) \subseteq Waiting(req) \cup {c}
  BY <1>1 DEF Waiting
<1>3. c \in Waiting(req) => Waiting(req) \cup {c} = Waiting(req) /\ Waiting(req) # {}
  OBVIOUS
<1>4. x \in {"none", "ended"} => Waiting(new) = Waiting(req) \ {c}
  BY <1>1 DEF Waiting
<1>5. /\ IsFiniteSet(Waiting(req)) /\ IsFiniteSet(Waiting(new))
      /\ Cardinality(Waiting(req)) \in Nat /\ Cardinality(Waiting(new)) \in Nat
  BY Counts
<1>6. IsFiniteSet(Waiting(req) \cup {c})
      /\ Cardinality(Waiting(req) \cup {c}) <= Cardinality(Waiting(req)) + 1
      /\ Cardinality(Waiting(req) \cup {c}) \in Nat
  <2>1. CASE c \in Waiting(req)
    BY <1>3, <1>5, <2>1
  <2>2. CASE c \notin Waiting(req)
    BY <1>5, <2>2, FS_AddElement
  <2>3. QED
    BY <2>1, <2>2
<1>7. Cardinality(Waiting(new)) <= Cardinality(Waiting(req) \cup {c})
  BY <1>2, <1>6, FS_Subset
<1>8. c \in Waiting(req) => Cardinality(Waiting(req) \ {c}) = Cardinality(Waiting(req)) - 1
  BY <1>5, FS_RemoveElement
<1>9. c \in Waiting(req) => Cardinality(Waiting(req)) > 0
  BY <1>3, <1>5, FS_EmptySet
<1>10. /\ Cardinality(Waiting(new)) <= Cardinality(Waiting(req)) + 1
       /\ c \in Waiting(req) => Cardinality(Waiting(new)) <= Cardinality(Waiting(req))
  <2>1. Cardinality(Waiting(new)) <= Cardinality(Waiting(req)) + 1
    BY <1>5, <1>6, <1>7
  <2>2. ASSUME c \in Waiting(req)
        PROVE  Cardinality(Waiting(new)) <= Cardinality(Waiting(req))
    <3>1. Waiting(req) \cup {c} = Waiting(req)
      BY <1>3, <2>2
    <3>2. QED
      BY <3>1, <1>7
  <2>3. QED
    BY <2>1, <2>2
<1>11. c \in Waiting(req) /\ x \in {"none", "ended"} =>
         Cardinality(Waiting(new)) = Cardinality(Waiting(req)) - 1
  BY <1>4, <1>8
<1>12. QED
  BY <1>9, <1>10, <1>11 DEF new

(* The guard Room in terms of Free and Waiting.                            *)
LEMMA RoomCounts ==
  ASSUME NEW k \in Nat, Room(k)
  PROVE  Cardinality(Free(ui)) >= k + Cardinality(Waiting(request))
BY DEF Room, Waits, Waiting

-----------------------------------------------------------------------------
(* Steps that leave the tree as it is.                                     *)

(* What a tap touches is the last screen.                                  *)
LEMMA TopIsLast ==
  ASSUME NEW k, NEW c, ui \in Uis, ui.stack # << >>, Touchable(k, c)
  PROVE  /\ Len(ui.stack) \in 1 .. Len(ui.stack)
         /\ ui.stack[Len(ui.stack)] = [kind |-> k, owner |-> c]
BY StackTypes DEF Touchable, Top, Last

(* A step that changes requests alone keeps the invariant, if only the     *)
(* login on top asks and a failed login stays ended.                       *)
LEMMA QuietWhole ==
  ASSUME Inv, NEW req, NEW s, RequestsOK(ui, req), RoomLeft(ui, req),
         \A c \in Ids : ui.kind[c] = "login" /\ request[c] = "none" /\ req[c] # "none"
                          => c = ui.stack[Len(ui.stack)].owner,
         ~LogoutWired =>
           /\ \A c \in Ids : req[c] = "signedIn" => s
           /\ session => s
           /\ \A c \in Ids : ui.kind[c] = "login" /\ request[c] = "ended" => req[c] = "ended"
  PROVE  Whole(ui, req, s)
<1> DEFINE n == Len(ui.stack)
<1>1. /\ Tree(ui) /\ StackOK(ui) /\ RequestsOK(ui, request) /\ HomesOK(ui, request) /\ ServedOK(ui)
      /\ ui \in Uis
  BY DEF Inv, Whole, General, Tree
<1>2. 1 \in 1 .. n /\ n \in 1 .. n
  BY <1>1, StackTypes DEF StackOK
<1>3. HomesOK(ui, req)
  <2>1. ui.held \in [Ids -> Ids \cup {Nobody}]
    BY <1>1 DEF Uis
  <2>2. QED
    BY <1>1, <1>2, <2>1 DEF HomesOK
<1>4. ASSUME ~LogoutWired
      PROVE  Plain(ui, req, s)
  <2>1. Plain(ui, request, session)
    BY <1>4 DEF Inv, Whole
  <2>2. \A c \in Ids : ui.kind[c] = "login" /\ req[c] # "none" => ui.stack[1].owner = c
    <3>1. ui.stack[n].kind = ui.kind[ui.stack[n].owner]
      BY <1>1, <1>2 DEF StackOK
    <3>2. ui.stack[n].kind = "login" => n = 1
      BY <1>2, <2>1 DEF Plain
    <3>3. QED
      BY <2>1, <3>1, <3>2 DEF Plain
  <2>3. HasHome(ui) /\ ~s => \E c \in Ids : ui.kind[c] = "login" /\ req[c] = "ended"
    BY <1>4, <2>1 DEF Plain
  <2>4. QED
    BY <1>4, <2>1, <2>2, <2>3 DEF Plain
<1>5. QED
  BY <1>1, <1>3, <1>4 DEF Inv, Whole, General

(* One request changes.                                                    *)
LEMMA RequestsChange ==
  ASSUME NEW u, NEW req, RequestsOK(u, req), NEW c \in Ids, u.kind[c] \in {"login", "registration"},
         NEW x \in {"none", "asked", "signedIn", "ended"}
  PROVE  /\ RequestsOK(u, [req EXCEPT ![c] = x])
         /\ \A d \in Ids : [req EXCEPT ![c] = x][d] = IF d = c THEN x ELSE req[d]
<1>1. \A d \in Ids : [req EXCEPT ![c] = x][d] = IF d = c THEN x ELSE req[d]
  BY DEF RequestsOK
<1>2. [req EXCEPT ![c] = x] \in [Ids -> {"none", "asked", "signedIn", "ended"}]
  BY DEF RequestsOK
<1>3. QED
  BY <1>1, <1>2 DEF RequestsOK

(* TapLogin and TapSignUp: the coordinator of the top screen asks.         *)
LEMMA AskedWhole ==
  ASSUME Inv, NEW c \in Ids, Room(1), NEW k \in {"login", "registration"}, Touchable(k, c),
         k = "login" => request[c] # "ended"
  PROVE  Whole(ui, [request EXCEPT ![c] = "asked"], session)
<1> DEFINE req == [request EXCEPT ![c] = "asked"]
<1>1. Tree(ui) /\ StackOK(ui) /\ RequestsOK(ui, request) /\ ui \in Uis
  BY DEF Inv, Whole, General, Tree
<1>2. ui.stack[Len(ui.stack)] = [kind |-> k, owner |-> c] /\ Len(ui.stack) \in 1 .. Len(ui.stack)
  BY <1>1, TopIsLast DEF StackOK
<1>3. ui.kind[c] = k
  BY <1>1, <1>2 DEF StackOK
<1>4. RequestsOK(ui, req)
  BY <1>1, <1>3, RequestsChange
<1>9. \A d \in Ids : req[d] = IF d = c THEN "asked" ELSE request[d]
  BY <1>1 DEF RequestsOK
<1>5. RoomLeft(ui, req)
  <2>1. Cardinality(Waiting(req)) <= Cardinality(Waiting(request)) + 1
    BY <1>1, WaitingChanges DEF RequestsOK
  <2>2. Cardinality(Free(ui)) >= 1 + Cardinality(Waiting(request))
    BY RoomCounts
  <2>3. QED
    BY <2>1, <2>2, Counts DEF RoomLeft
<1>6. ~LogoutWired => \A d \in Ids : request[d] = "signedIn" => session
  BY DEF Inv, Whole, Plain
<1> HIDE DEF req
<1>7. Whole(ui, req, session)
  BY <1>2, <1>3, <1>4, <1>9, <1>5, <1>6, QuietWhole
<1>8. QED
  BY <1>7 DEF req

(* SignIn and the results that change no screen.                           *)
LEMMA AnsweredWhole ==
  ASSUME Inv, NEW c \in Ids, request[c] \in {"asked", "signedIn"},
         NEW x \in {"none", "signedIn", "ended"}, NEW s \in BOOLEAN,
         session => s, x = "signedIn" => s
  PROVE  Whole(ui, [request EXCEPT ![c] = x], s)
<1> DEFINE req == [request EXCEPT ![c] = x]
<1>1. Tree(ui) /\ StackOK(ui) /\ RequestsOK(ui, request) /\ RoomLeft(ui, request)
  BY DEF Inv, Whole, General
<1>2. ui.kind[c] \in {"login", "registration"}
  BY <1>1 DEF RequestsOK
<1>3. RequestsOK(ui, req)
  BY <1>1, <1>2, RequestsChange
<1>8. \A d \in Ids : req[d] = IF d = c THEN x ELSE request[d]
  BY <1>1 DEF RequestsOK
<1>4. RoomLeft(ui, req)
  <2>1. c \in Waiting(request)
    BY DEF Waiting
  <2>2. Cardinality(Waiting(req)) <= Cardinality(Waiting(request))
    BY <1>1, <2>1, WaitingChanges DEF RequestsOK
  <2>3. QED
    BY <1>1, <2>2, Counts DEF RoomLeft
<1>5. ~LogoutWired => \A d \in Ids : request[d] = "signedIn" => session
  BY DEF Inv, Whole, Plain
<1> HIDE DEF req
<1>6. Whole(ui, req, s)
  BY <1>3, <1>8, <1>4, <1>5, QuietWhole
<1>7. QED
  BY <1>6 DEF req

-----------------------------------------------------------------------------
(* goToRegisterButtonTapped.                                               *)

(* The types of the tree and the stack of a state in order.                *)
LEMMA TopScreen ==
  ASSUME Inv
  PROVE  /\ ui \in Uis /\ ui.held \in [Ids -> Ids \cup {Nobody}] /\ ui.kind \in [Ids -> Kinds]
         /\ ui.stack \in Seq(Screens) /\ Len(ui.stack) \in Nat
         /\ 1 \in 1 .. Len(ui.stack) /\ Len(ui.stack) \in 1 .. Len(ui.stack)
         /\ \A i \in 1 .. Len(ui.stack) :
              /\ ui.stack[i] \in Screens /\ ui.stack[i].owner \in Ids
              /\ ui.stack[i].kind = ui.kind[ui.stack[i].owner]
         /\ \A k, c : Touchable(k, c) => ui.stack[Len(ui.stack)] = [kind |-> k, owner |-> c]
<1>1. ui \in Uis /\ StackOK(ui)
  BY DEF Inv, Whole, General, Tree
<1>2. QED
  BY <1>1, StackTypes, TopIsLast DEF StackOK, Uis

(* TapGoToRegister: pushRegistrationVC.                                    *)
LEMMA GoToRegisterWhole ==
  ASSUME Inv, NEW c \in Ids, Touchable("login", c), Alive(ui, c), Room(1)
  PROVE  Whole(pushRegistrationVC(ui, c), request, session)
<1> DEFINE n == Len(ui.stack)
           f == Fresh(ui)
           t == add(ui, "registration", c, TRUE)
           v == pushRegistrationVC(ui, c)
<1>1. /\ Tree(ui) /\ StackOK(ui) /\ RequestsOK(ui, request) /\ RoomLeft(ui, request)
      /\ HomesOK(ui, request) /\ ServedOK(ui) /\ ui \in Uis
  BY DEF Inv, Whole, General, Tree
<1>2. ui.stack[n] = [kind |-> "login", owner |-> c] /\ ui.kind[c] = "login" /\ n \in 1 .. n
  BY TopScreen
<1>3. Kept(ui, c) /\ ui.held[c] # Nobody
  BY <1>1, <1>2, AliveIsKept DEF Kept
<1>4. Free(ui) # {}
  <2>1. Cardinality(Free(ui)) >= 1 + Cardinality(Waiting(request))
    BY RoomCounts
  <2>2. QED
    BY <2>1, Counts
<1>5. f \in Ids /\ ui.kind[f] = "none" /\ f # c
  BY <1>2, <1>4, FreshIsFree
<1>6. /\ t \in Uis
      /\ t.kind = [ui.kind EXCEPT ![f] = "registration"]
      /\ t.held = [ui.held EXCEPT ![f] = c]
      /\ t.armed = ui.armed \cup {f}
      /\ t.stack = ui.stack
  <2>1. t = [ui EXCEPT !.kind[f] = "registration", !.held[f] = c, !.armed = @ \cup {f}]
    BY DEF add
  <2> HIDE DEF t, f
  <2>2. QED
    BY <1>1, <1>5, <2>1 DEF Uis, Kinds
<1>8. Tree(t) /\ v = push(t, "registration", f)
  BY <1>1, <1>2, <1>4, AddTree DEF pushRegistrationVC
<1> HIDE DEF v, t, f
<1>7. /\ v \in Uis
      /\ v.kind = t.kind /\ v.held = t.held /\ v.armed = t.armed
      /\ v.stack = Append(ui.stack, [kind |-> "registration", owner |-> f])
  BY <1>5, <1>6, <1>8, PushFields
<1>9. StackOK(t) /\ \A i \in 1 .. n : ui.stack[i].owner # f
  BY <1>1, <1>5, <1>6, AddStack
<1>10. Tree(v)
  BY <1>7, <1>8, SameTree
<1>11. /\ \A d \in Ids : v.kind[d] = IF d = f THEN "registration" ELSE ui.kind[d]
       /\ \A d \in Ids : v.held[d] = IF d = f THEN c ELSE ui.held[d]
       /\ v.kind[f] = "registration" /\ v.held[f] = c
  BY <1>5, <1>6, <1>7, TopScreen
<1>12. StackOK(v)
  BY <1>5, <1>6, <1>7, <1>9, <1>11, PushStack
<1>13. /\ Len(v.stack) = n + 1
       /\ \A i \in 1 .. n : v.stack[i] = ui.stack[i]
       /\ v.stack[n + 1] = [kind |-> "registration", owner |-> f]
       /\ \A i \in 1 .. n + 1 : i \in 1 .. n \/ i = n + 1
  BY <1>7, TopScreen, PushedStack
<1>14. \A d \in Ids : ui.held[d] # f
  BY <1>1, <1>5, Childless
<1>15. /\ \A d \in Ids : d # f => (Kept(v, d) <=> Kept(ui, d))
       /\ Kept(v, f)
  <2>1. ASSUME NEW d \in Ids, d # f
        PROVE  Kept(v, d) <=> Kept(ui, d)
    <3>1. ui.held[d] # Nobody => ui.held[d] \in Ids \ {f}
      BY <1>14, TopScreen
    <3>2. QED
      BY <1>11, <2>1, <3>1 DEF Kept
  <2>2. QED
    BY <1>3, <1>5, <1>11, <2>1, Names DEF Kept
<1>16. RequestsOK(v, request)
  BY <1>1, <1>5, <1>11 DEF RequestsOK
<1>17. RoomLeft(v, request)
  <2>1. Cardinality(Free(v)) = Cardinality(Free(ui)) - 1
    BY <1>5, <1>11, FreeTaken
  <2>2. Cardinality(Free(ui)) >= 1 + Cardinality(Waiting(request))
    BY RoomCounts
  <2>3. QED
    BY <2>1, <2>2, Counts DEF RoomLeft
<1>18. HomesOK(v, request)
  <2>1. \A h \in Ids : v.kind[h] = "home" => h # f /\ ui.kind[h] = "home" /\ v.held[h] = ui.held[h]
    BY <1>11
  <2>2. \A h \in Ids : ui.held[h] # Nobody => ui.held[h] \in Ids \ {f}
    BY <1>14, TopScreen
  <2>3. ASSUME NEW h \in Ids, v.kind[h] = "home", v.held[h] # Nobody, v.held[v.held[h]] # Nobody
        PROVE  /\ v.kind[v.held[h]] = "login"
               /\ request[v.held[h]] = "none"
               /\ \A i \in 1 .. Len(v.stack) : v.stack[i].owner # v.held[h]
    <3>1. ui.held[h] \in Ids \ {f} /\ ui.held[ui.held[h]] # Nobody /\ v.held[h] = ui.held[h]
      BY <1>11, <2>1, <2>2, <2>3
    <3>2. /\ ui.kind[ui.held[h]] = "login"
          /\ request[ui.held[h]] = "none"
          /\ \A i \in 1 .. n : ui.stack[i].owner # ui.held[h]
      BY <1>1, <2>1, <2>3, <3>1 DEF HomesOK
    <3>3. QED
      BY <1>11, <1>13, <3>1, <3>2
  <2>4. \A g, h \in Ids : v.kind[g] = "home" /\ v.kind[h] = "home"
                            /\ v.held[g] = v.held[h] /\ v.held[g] # Nobody => g = h
    BY <1>1, <2>1 DEF HomesOK
  <2>5. QED
    BY <2>3, <2>4 DEF HomesOK
<1>19. HasHome(v) <=> HasHome(ui)
  BY <1>5, <1>11 DEF HasHome
<1>20. ServedOK(v)
  BY <1>1, <1>9, <1>13, <1>15, <1>19, TopScreen DEF ServedOK
<1>21. ASSUME ~LogoutWired
       PROVE  Plain(v, request, session)
  <2>1. Plain(ui, request, session)
    BY <1>21 DEF Inv, Whole
  <2>2. \A d \in Ids : v.kind[d] = "login" => v.held[d] \in {App, Nobody}
    BY <1>11, <2>1 DEF Plain
  <2>3. \A i \in 1 .. Len(v.stack) : v.stack[i].kind = "login" => i = 1
    BY <1>13, <2>1 DEF Plain
  <2>4. \A d \in Ids : v.kind[d] = "login" /\ request[d] # "none" => v.stack[1].owner = d
    BY <1>11, <1>13, <2>1, TopScreen DEF Plain
  <2>5. ASSUME NEW i \in 1 .. Len(v.stack), v.stack[i].kind = "registration"
        PROVE  /\ i > 1
               /\ v.stack[i - 1] = [kind |-> "login", owner |-> v.held[v.stack[i].owner]]
               /\ Kept(v, v.stack[i].owner) => i = Len(v.stack)
    <3>1. CASE i = n + 1
      BY <1>2, <1>11, <1>13, <3>1
    <3>2. CASE i \in 1 .. n
      <4>1. /\ i > 1
            /\ ui.stack[i - 1] = [kind |-> "login", owner |-> ui.held[ui.stack[i].owner]]
            /\ Kept(ui, ui.stack[i].owner) => i = n
        BY <1>13, <2>1, <2>5, <3>2 DEF Plain
      <4>2. ui.stack[i].owner \in Ids \ {f} /\ i # n
        BY <1>2, <1>9, <1>13, <2>5, <3>2, TopScreen
      <4>3. i - 1 \in 1 .. n
        BY <3>2, <4>1
      <4>4. QED
        BY <1>11, <1>13, <1>15, <3>2, <4>1, <4>2, <4>3
    <3>3. QED
      BY <1>13, <2>5, <3>1, <3>2
  <2>6. HasHome(v) /\ ~session => \E d \in Ids : v.kind[d] = "login" /\ request[d] = "ended"
    BY <1>5, <1>11, <1>19, <2>1 DEF Plain
  <2>7. \A d \in Ids : request[d] = "signedIn" => session
    BY <2>1 DEF Plain
  <2>8. QED
    BY <2>2, <2>3, <2>4, <2>5, <2>6, <2>7 DEF Plain
<1>22. ASSUME ~InteractivePop
       PROVE  Buttons(v)
  <2>1. Buttons(ui)
    BY <1>22 DEF Inv, Whole
  <2>2. v.stack[Len(v.stack)].owner = f /\ Len(v.stack) > 1 /\ Len(v.stack) - 1 = n
    BY <1>2, <1>13
  <2>3. ASSUME NEW r \in Ids, v.kind[r] = "registration", Kept(v, r), v.held[v.held[r]] = App
        PROVE  r = f /\ ~HasHome(v)
    <3>1. CASE r = f
      BY <1>2, <1>5, <1>11, <1>19, <2>1, <2>3, <3>1 DEF Buttons
    <3>2. CASE r # f
      <4>1. Kept(ui, r) /\ ui.kind[r] = "registration" /\ ui.held[ui.held[r]] = App
        <5>1. ui.held[r] \in Ids \ {f}
          BY <1>11, <1>14, <1>15, <2>3, <3>2, TopScreen DEF Kept
        <5>2. QED
          BY <1>11, <1>15, <2>3, <3>2, <5>1
      <4>2. r = c
        BY <1>2, <2>1, <4>1 DEF Buttons
      <4>3. QED
        BY <1>2, <4>1, <4>2
    <3>3. QED
      BY <3>1, <3>2
  <2>4. QED
    BY <1>2, <1>11, <1>13, <1>15, <2>2, <2>3 DEF Buttons
<1>23. Whole(v, request, session)
  BY <1>10, <1>12, <1>16, <1>17, <1>18, <1>20, <1>21, <1>22 DEF Whole, General
<1>24. QED
  BY <1>23 DEF v

-----------------------------------------------------------------------------
(* isCompleted.                                                            *)

(* A kept login or registration completes: its parent is alive and its     *)
(* handler armed, so isCompleted removes it, and pops for a registration.  *)
LEMMA ChildCompletes ==
  ASSUME NEW u, Tree(u), NEW c \in Ids, Kept(u, c), u.kind[c] \in {"login", "registration"}
  PROVE  /\ u.held[c] \in Ids
         /\ isCompleted(u, c) = remove(IF u.kind[c] = "login" THEN u ELSE pop(u), c)
<1>1. u.held[c] \in Ids /\ c \in u.armed
  BY DEF Tree, Uis, Kept
<1>2. Kept(u, u.held[c])
  BY <1>1 DEF Kept, Tree
<1>3. Alive(u, u.held[c])
  BY <1>1, <1>2, AliveIsKept
<1>4. u.kind[u.held[c]] # "registration"
  BY <1>1 DEF Tree
<1>5. QED
  BY <1>1, <1>3, <1>4 DEF isCompleted

(* A pop that uncovers a screen.                                           *)
LEMMA PopFacts ==
  ASSUME NEW u, NEW v \in Uis, u \in Uis, StackOK(u), Len(u.stack) > 1, v.stack = Front(u.stack)
  PROVE  /\ Len(v.stack) = Len(u.stack) - 1
         /\ \A i \in 1 .. Len(v.stack) :
              /\ i \in 1 .. Len(u.stack) /\ i # Len(u.stack)
              /\ v.stack[i] = u.stack[i]
              /\ u.stack[i].owner # u.stack[Len(u.stack)].owner
         /\ 1 \in 1 .. Len(v.stack) /\ Len(v.stack) \in 1 .. Len(v.stack)
         /\ \A i \in 1 .. Len(v.stack) : i > 1 => i - 1 \in 1 .. Len(v.stack)
<1>1. u.stack \in Seq(Screens) /\ Len(u.stack) \in Nat
  BY StackTypes
<1>2. /\ Len(v.stack) = Len(u.stack) - 1
      /\ \A i \in 1 .. Len(u.stack) - 1 : v.stack[i] = u.stack[i]
  BY <1>1, PoppedStack
<1>3. \A i \in 1 .. Len(v.stack) : i \in 1 .. Len(u.stack) /\ i # Len(u.stack)
  BY <1>1, <1>2
<1>4. Len(u.stack) \in 1 .. Len(u.stack)
  BY <1>1
<1>5. \A i \in 1 .. Len(v.stack) : u.stack[i].owner # u.stack[Len(u.stack)].owner
  BY <1>3, <1>4 DEF StackOK
<1>6. \A i \in 1 .. Len(v.stack) : v.stack[i] = u.stack[i]
  BY <1>1, <1>2
<1>7. 1 \in 1 .. Len(v.stack) /\ Len(v.stack) \in 1 .. Len(v.stack)
  BY <1>1, <1>2
<1>8. \A i \in 1 .. Len(v.stack) : i > 1 => i - 1 \in 1 .. Len(v.stack)
  BY <1>1, <1>2
<1>9. QED
  BY <1>2, <1>3, <1>5, <1>6, <1>7, <1>8

(* Popping a screen brings no Home.                                        *)
LEMMA PopHomes ==
  ASSUME NEW u, u \in Uis, NEW v, NEW req, HomesOK(u, req), v.kind = u.kind, v.held = u.held,
         \A i \in 1 .. Len(v.stack) : i \in 1 .. Len(u.stack) /\ v.stack[i] = u.stack[i]
  PROVE  HomesOK(v, req)
<1>1. ASSUME NEW h \in Ids, v.kind[h] = "home", v.held[h] # Nobody, v.held[v.held[h]] # Nobody
      PROVE  /\ v.kind[v.held[h]] = "login"
             /\ req[v.held[h]] = "none"
             /\ \A i \in 1 .. Len(v.stack) : v.stack[i].owner # v.held[h]
  <2>1. /\ u.kind[u.held[h]] = "login"
        /\ req[u.held[h]] = "none"
        /\ \A i \in 1 .. Len(u.stack) : u.stack[i].owner # u.held[h]
    BY <1>1 DEF HomesOK
  <2>2. QED
    BY <2>1
<1>2. \A g, h \in Ids : v.kind[g] = "home" /\ v.kind[h] = "home"
                          /\ v.held[g] = v.held[h] /\ v.held[g] # Nobody => g = h
  BY DEF HomesOK
<1>3. QED
  BY <1>1, <1>2 DEF HomesOK

(* TapGoToLogin: the registration on top completes and its screen goes.    *)
LEMMA GoToLoginWhole ==
  ASSUME Inv, NEW c \in Ids, Touchable("registration", c), Alive(ui, c)
  PROVE  Whole(isCompleted(ui, c), request, session)
<1> DEFINE n == Len(ui.stack)
           p == pop(ui)
           v == isCompleted(ui, c)
           d == ui.held[c]
<1>1. /\ Tree(ui) /\ StackOK(ui) /\ RequestsOK(ui, request) /\ RoomLeft(ui, request)
      /\ HomesOK(ui, request) /\ ServedOK(ui) /\ ui \in Uis
  BY DEF Inv, Whole, General, Tree
<1>2. ui.stack[n] = [kind |-> "registration", owner |-> c] /\ ui.kind[c] = "registration" /\ n \in 1 .. n
  BY TopScreen
<1>3. n > 1
  BY <1>1, <1>2 DEF StackOK
<1>4. Kept(ui, c)
  BY <1>1, AliveIsKept
<1>5. d \in Ids /\ v = remove(p, c) /\ ui.kind[d] = "login" /\ Kept(ui, d) /\ d # c
  BY <1>1, <1>2, <1>4, ChildCompletes DEF Tree, Kept
<1>6. p \in Uis /\ p.kind = ui.kind /\ p.held = ui.held /\ p.armed = ui.armed /\ p.stack = Front(ui.stack)
  BY <1>1, <1>3, PopFields
<1> HIDE DEF v, p
<1>7. Tree(p) /\ StackOK(p)
  BY <1>1, <1>3, <1>6, SameTree, PopStack
<1>8. /\ v \in Uis /\ v.kind = ui.kind /\ v.stack = p.stack
      /\ v.held = [ui.held EXCEPT ![c] = Nobody]
  BY <1>5, <1>6, RemoveFields
<1>9. Tree(v)
  BY <1>5, <1>7, RemoveTree
<1>10. StackOK(v)
  BY <1>6, <1>7, <1>8 DEF StackOK
<1>11. /\ Len(v.stack) = n - 1
       /\ \A i \in 1 .. Len(v.stack) : i \in 1 .. n /\ i # n /\ v.stack[i] = ui.stack[i] /\ ui.stack[i].owner # c
       /\ 1 \in 1 .. Len(v.stack) /\ Len(v.stack) \in 1 .. Len(v.stack)
       /\ \A i \in 1 .. Len(v.stack) : i > 1 => i - 1 \in 1 .. Len(v.stack)
  <2>1. v.stack = Front(ui.stack)
    BY <1>6, <1>8
  <2>2. /\ Len(v.stack) = n - 1
        /\ \A i \in 1 .. Len(v.stack) :
             /\ i \in 1 .. n /\ i # n
             /\ v.stack[i] = ui.stack[i]
             /\ ui.stack[i].owner # ui.stack[n].owner
        /\ 1 \in 1 .. Len(v.stack) /\ Len(v.stack) \in 1 .. Len(v.stack)
        /\ \A i \in 1 .. Len(v.stack) : i > 1 => i - 1 \in 1 .. Len(v.stack)
    BY <1>1, <1>3, <1>8, <2>1, PopFacts
  <2>3. QED
    BY <1>2, <2>2
<1>12. \A e \in Ids : v.held[e] = IF e = c THEN Nobody ELSE ui.held[e]
  BY <1>8, TopScreen
<1>13. \A e \in Ids : e # c => (Kept(v, e) <=> Kept(ui, e))
  <2>1. ASSUME NEW e \in Ids, e # c
        PROVE  Kept(v, e) <=> Kept(ui, e)
    <3>1. ui.kind[e] = "registration" /\ ui.held[e] # Nobody => ui.held[e] \in Ids \ {c}
      BY <1>1, <1>2, TopScreen DEF Tree
    <3>2. QED
      BY <1>8, <1>12, <2>1, <3>1 DEF Kept
  <2>2. QED
    BY <2>1
<1>14. ~Kept(v, c)
  BY <1>2, <1>8, <1>12 DEF Kept
<1>15. RequestsOK(v, request) /\ RoomLeft(v, request)
  BY <1>1, <1>8 DEF RequestsOK, RoomLeft, Free
<1>16. HomesOK(v, request)
  <2>1. HomesOK(p, request)
    BY <1>1, <1>6, <1>8, <1>11, PopHomes
  <2>2. QED
    BY <1>6, <1>7, <1>8, <2>1, RemoveHomes
<1>17. HasHome(v) <=> HasHome(ui)
  BY <1>8 DEF HasHome
<1>18. ServedOK(v)
  BY <1>1, <1>11, <1>13, <1>17, TopScreen DEF ServedOK
<1>19. ASSUME ~LogoutWired
       PROVE  Plain(v, request, session)
  <2>1. Plain(ui, request, session)
    BY <1>19 DEF Inv, Whole
  <2>2. \A e \in Ids : v.kind[e] = "login" => v.held[e] \in {App, Nobody}
    BY <1>8, <1>12, <2>1 DEF Plain
  <2>3. \A i \in 1 .. Len(v.stack) : v.stack[i].kind = "login" => i = 1
    BY <1>11, <2>1 DEF Plain
  <2>4. \A e \in Ids : v.kind[e] = "login" /\ request[e] # "none" => v.stack[1].owner = e
    BY <1>8, <1>11, <2>1 DEF Plain
  <2>5. ASSUME NEW i \in 1 .. Len(v.stack), v.stack[i].kind = "registration"
        PROVE  /\ i > 1
               /\ v.stack[i - 1] = [kind |-> "login", owner |-> v.held[v.stack[i].owner]]
               /\ Kept(v, v.stack[i].owner) => i = Len(v.stack)
    <3>1. /\ i > 1
          /\ ui.stack[i - 1] = [kind |-> "login", owner |-> ui.held[ui.stack[i].owner]]
          /\ ~Kept(ui, ui.stack[i].owner)
      BY <1>11, <2>1, <2>5 DEF Plain
    <3>2. i - 1 \in 1 .. Len(v.stack) /\ i \in 1 .. n /\ ui.stack[i].owner # c
      BY <1>11, <3>1
    <3>3. ui.stack[i].owner \in Ids
      BY <3>2, TopScreen
    <3>4. /\ v.stack[i] = ui.stack[i] /\ v.stack[i - 1] = ui.stack[i - 1]
          /\ v.held[ui.stack[i].owner] = ui.held[ui.stack[i].owner]
          /\ ~Kept(v, ui.stack[i].owner)
      BY <1>11, <1>12, <1>13, <3>1, <3>2, <3>3
    <3>5. QED
      BY <3>1, <3>4
  <2>6. HasHome(v) /\ ~session => \E e \in Ids : v.kind[e] = "login" /\ request[e] = "ended"
    BY <1>8, <1>17, <2>1 DEF Plain
  <2>7. \A e \in Ids : request[e] = "signedIn" => session
    BY <2>1 DEF Plain
  <2>8. QED
    BY <2>2, <2>3, <2>4, <2>5, <2>6, <2>7 DEF Plain
<1>20. ASSUME ~InteractivePop
       PROVE  Buttons(v)
  <2>1. Buttons(ui)
    BY <1>20 DEF Inv, Whole
  <2>2. v.stack[Len(v.stack)] = [kind |-> "login", owner |-> d]
    <3>1. ui.stack[n - 1] = [kind |-> "login", owner |-> d]
      BY <1>2, <2>1 DEF Buttons
    <3>2. QED
      BY <1>11, <3>1
  <2>3. ASSUME NEW r \in Ids, v.kind[r] = "registration", Kept(v, r), v.held[v.held[r]] = App
        PROVE  FALSE
    <3>1. r # c /\ Kept(ui, r) /\ ui.kind[r] = "registration" /\ v.held[r] = ui.held[r]
      BY <1>8, <1>12, <1>13, <1>14, <2>3
    <3>2. ui.held[r] \in Ids /\ ui.kind[ui.held[r]] = "login"
      BY <1>1, <3>1, ChildCompletes DEF Tree
    <3>3. ui.held[ui.held[r]] = App
      BY <1>2, <1>12, <2>3, <3>1, <3>2
    <3>4. r = c
      BY <1>2, <2>1, <3>1, <3>3 DEF Buttons
    <3>5. QED
      BY <3>1, <3>4
  <2>4. ui.held[d] = App => ~HasHome(ui)
    BY <1>2, <1>4, <2>1 DEF Buttons
  <2>5. QED
    BY <1>5, <1>8, <1>12, <1>13, <1>17, <2>2, <2>3, <2>4 DEF Buttons
<1>21. Whole(v, request, session)
  BY <1>9, <1>10, <1>15, <1>16, <1>18, <1>19, <1>20 DEF Whole, General
<1>22. QED
  BY <1>21 DEF v

-----------------------------------------------------------------------------
(* The edge swipe.                                                         *)

(* SwipeBack: the screen goes and its coordinator stays.                   *)
LEMMA SwipeWhole ==
  ASSUME Inv, InteractivePop, Len(ui.stack) > 1
  PROVE  Whole(pop(ui), request, session)
<1> DEFINE n == Len(ui.stack)
           v == pop(ui)
<1>1. /\ Tree(ui) /\ StackOK(ui) /\ RequestsOK(ui, request) /\ RoomLeft(ui, request)
      /\ HomesOK(ui, request) /\ ServedOK(ui) /\ ui \in Uis
  BY DEF Inv, Whole, General, Tree
<1>2. v \in Uis /\ v.kind = ui.kind /\ v.held = ui.held /\ v.armed = ui.armed /\ v.stack = Front(ui.stack)
  BY <1>1, PopFields
<1> HIDE DEF v
<1>3. Tree(v) /\ (\A c \in Ids : Kept(v, c) <=> Kept(ui, c)) /\ StackOK(v)
  BY <1>1, <1>2, SameTree, PopStack
<1>4. /\ Len(v.stack) = n - 1
      /\ \A i \in 1 .. Len(v.stack) : i \in 1 .. n /\ i # n /\ v.stack[i] = ui.stack[i]
      /\ 1 \in 1 .. Len(v.stack)
      /\ \A i \in 1 .. Len(v.stack) : i > 1 => i - 1 \in 1 .. Len(v.stack)
  BY <1>1, <1>2, PopFacts
<1>5. RequestsOK(v, request) /\ RoomLeft(v, request)
  BY <1>1, <1>2 DEF RequestsOK, RoomLeft, Free
<1>6. HomesOK(v, request)
  BY <1>1, <1>2, <1>4, PopHomes
<1>7. ServedOK(v)
  BY <1>1, <1>2, <1>3, <1>4, TopScreen DEF ServedOK, HasHome
<1>8. ASSUME ~LogoutWired
      PROVE  Plain(v, request, session)
  <2>1. Plain(ui, request, session)
    BY <1>8 DEF Inv, Whole
  <2>2. ASSUME NEW i \in 1 .. Len(v.stack), v.stack[i].kind = "registration"
        PROVE  /\ i > 1
               /\ v.stack[i - 1] = [kind |-> "login", owner |-> v.held[v.stack[i].owner]]
               /\ Kept(v, v.stack[i].owner) => i = Len(v.stack)
    <3>1. /\ i > 1
          /\ ui.stack[i - 1] = [kind |-> "login", owner |-> ui.held[ui.stack[i].owner]]
          /\ ~Kept(ui, ui.stack[i].owner)
      BY <1>4, <2>1, <2>2 DEF Plain
    <3>2. i - 1 \in 1 .. Len(v.stack) /\ i \in 1 .. n
      BY <1>4, <3>1
    <3>3. ui.stack[i].owner \in Ids
      BY <3>2, TopScreen
    <3>4. /\ v.stack[i] = ui.stack[i] /\ v.stack[i - 1] = ui.stack[i - 1]
          /\ ~Kept(v, ui.stack[i].owner)
      BY <1>3, <1>4, <3>1, <3>2, <3>3
    <3>5. QED
      BY <1>2, <3>1, <3>4
  <2>3. \A i \in 1 .. Len(v.stack) : v.stack[i].kind = "login" => i = 1
    BY <1>4, <2>1 DEF Plain
  <2>4. \A c \in Ids : v.kind[c] = "login" /\ request[c] # "none" => v.stack[1].owner = c
    BY <1>2, <1>4, <2>1 DEF Plain
  <2>5. QED
    BY <1>2, <2>1, <2>2, <2>3, <2>4 DEF Plain, HasHome
<1>9. Whole(v, request, session)
  BY <1>3, <1>5, <1>6, <1>7, <1>8 DEF Whole, General
<1>10. QED
  BY <1>9 DEF v

-----------------------------------------------------------------------------
(* A child that is added and started.                                      *)
Shown(t, k, c, arm) == push(add(t, k, c, arm), k, Fresh(t))

(* What there is to know of the tree v that has a new child f of c.        *)
ShownIn(t, k, c, f, v) ==
  LET n == Len(t.stack)
  IN  /\ Tree(v) /\ StackOK(v) /\ v \in Uis
      /\ f \in Ids /\ t.kind[f] = "none" /\ f # c
      /\ \A d \in Ids : t.held[d] # f
      /\ \A i \in 1 .. n : t.stack[i].owner # f
      /\ v.kind = [t.kind EXCEPT ![f] = k]
      /\ \A d \in Ids : v.kind[d] = IF d = f THEN k ELSE t.kind[d]
      /\ \A d \in Ids : v.held[d] = IF d = f THEN c ELSE t.held[d]
      /\ Len(v.stack) = n + 1
      /\ \A i \in 1 .. n : v.stack[i] = t.stack[i]
      /\ v.stack[n + 1] = [kind |-> k, owner |-> f]
      /\ \A i \in 1 .. n + 1 : i \in 1 .. n \/ i = n + 1
      /\ \A d \in Ids : d # f => (Kept(v, d) <=> Kept(t, d))
      /\ k \in {"login", "home"} => Kept(v, f)

(* add and then push: a new child that is started.                         *)
LEMMA ShownFacts ==
  ASSUME NEW t, Tree(t), StackOK(t), NEW k, NEW c \in Ids, NEW arm \in BOOLEAN, Free(t) # {},
         \/ k = "login" /\ t.kind[c] = "home"
         \/ k = "registration" /\ t.kind[c] = "login"
         \/ k = "home" /\ t.kind[c] \in {"login", "registration"},
         k # "home" => arm
  PROVE  ShownIn(t, k, c, Fresh(t), Shown(t, k, c, arm))
<1> DEFINE f == Fresh(t)
           v == Shown(t, k, c, arm)
           n == Len(t.stack)
           w == add(t, k, c, arm)
<1>1. t \in Uis /\ k \in Kinds /\ k \in {"login", "registration", "home"}
  BY DEF Tree, Kinds
<1>2. f \in Ids /\ t.kind[f] = "none" /\ f # c
  BY FreshIsFree
<1>3. /\ w \in Uis
      /\ w.kind = [t.kind EXCEPT ![f] = k]
      /\ w.held = [t.held EXCEPT ![f] = c]
      /\ w.stack = t.stack
  BY <1>1, AddFields
<1>4. Tree(w) /\ v = push(w, k, f)
  BY AddTree DEF Shown
<1> HIDE DEF w, v, f
<1>5. /\ v \in Uis
      /\ v.kind = w.kind /\ v.held = w.held /\ v.armed = w.armed
      /\ v.stack = Append(t.stack, [kind |-> k, owner |-> f])
  BY <1>1, <1>2, <1>3, <1>4, PushFields
<1>6. StackOK(w) /\ \A i \in 1 .. n : t.stack[i].owner # f
  BY <1>2, <1>3, AddStack
<1>7. Tree(v)
  BY <1>4, <1>5, SameTree
<1>8. t.kind \in [Ids -> Kinds] /\ t.held \in [Ids -> Ids \cup {Nobody}]
  BY <1>1 DEF Uis
<1>9. /\ \A d \in Ids : v.kind[d] = IF d = f THEN k ELSE t.kind[d]
      /\ \A d \in Ids : v.held[d] = IF d = f THEN c ELSE t.held[d]
  BY <1>2, <1>3, <1>5, <1>8
<1>10. w.kind[f] = k
  BY <1>2, <1>5, <1>9
<1>11. StackOK(v)
  BY <1>2, <1>3, <1>5, <1>6, <1>10, PushStack
<1>12. /\ t.stack \in Seq(Screens)
       /\ \A i \in 1 .. n + 1 : i \in 1 .. n \/ i = n + 1
  BY <1>1, StackTypes
<1>13. /\ Len(v.stack) = n + 1
       /\ \A i \in 1 .. n : v.stack[i] = t.stack[i]
       /\ v.stack[n + 1] = [kind |-> k, owner |-> f]
  BY <1>5, <1>12, PushedStack
<1>14. \A d \in Ids : t.held[d] # f
  BY <1>2, Childless
<1>15. ASSUME NEW d \in Ids, d # f
       PROVE  Kept(v, d) <=> Kept(t, d)
  <2>1. t.held[d] # Nobody => t.held[d] \in Ids \ {f}
    BY <1>8, <1>14
  <2>2. QED
    BY <1>9, <1>15, <2>1 DEF Kept
<1>16. k \in {"login", "home"} => Kept(v, f)
  BY <1>2, <1>9, Names DEF Kept
<1>17. v.kind = [t.kind EXCEPT ![f] = k]
  BY <1>3, <1>5
<1>18. ShownIn(t, k, c, f, v)
  BY <1>2, <1>5, <1>6, <1>7, <1>9, <1>11, <1>12, <1>13, <1>14, <1>15, <1>16, <1>17 DEF ShownIn
<1>19. QED
  BY <1>18 DEF f, v

-----------------------------------------------------------------------------
(* A result that brings a Home: the coordinator c completes, which leaves  *)
(* the tree t, and starts the Home in it.                                  *)
LEMMA HomeWhole ==
  ASSUME Inv, NEW c \in Ids, Kept(ui, c), ui.kind[c] \in {"login", "registration"},
         request[c] \in {"asked", "signedIn"}, NEW x \in {"none", "ended"},
         ui.kind[c] = "registration" => x = "none" /\ \E i \in 1 .. Len(ui.stack) : ui.stack[i].owner = c,
         x = "none" => request[c] = "signedIn",
         NEW arm \in BOOLEAN,
         NEW t, t = remove(IF ui.kind[c] = "login" THEN ui ELSE pop(ui), c)
  PROVE  Whole(Shown(t, "home", c, arm), [request EXCEPT ![c] = x], session)
<1> DEFINE m == Len(ui.stack)
           n == Len(t.stack)
           f == Fresh(t)
           v == Shown(t, "home", c, arm)
           req == [request EXCEPT ![c] = x]
           p == IF ui.kind[c] = "login" THEN ui ELSE pop(ui)
<1>1. /\ Tree(ui) /\ StackOK(ui) /\ RequestsOK(ui, request) /\ RoomLeft(ui, request)
      /\ HomesOK(ui, request) /\ ui \in Uis
  BY DEF Inv, Whole, General, Tree
<1>2. ui.kind[c] = "registration" => m > 1
  <2>1. ASSUME ui.kind[c] = "registration"
        PROVE  m > 1
    <3>1. PICK i \in 1 .. m : ui.stack[i].owner = c
      BY <2>1
    <3>2. i # 1
      BY <1>1, <2>1, <3>1 DEF StackOK
    <3>3. QED
      BY <3>1, <3>2, TopScreen
  <2>2. QED
    BY <2>1
<1>3. /\ p \in Uis /\ p.kind = ui.kind /\ p.held = ui.held /\ p.armed = ui.armed
      /\ ui.kind[c] = "login" => p.stack = ui.stack
      /\ ui.kind[c] = "registration" => p.stack = Front(ui.stack)
  BY <1>1, <1>2, PopFields
<1>4. t = remove(p, c)
  OBVIOUS
<1> HIDE DEF p
<1>5. /\ t \in Uis /\ t.kind = ui.kind /\ t.stack = p.stack
      /\ t.held = [ui.held EXCEPT ![c] = Nobody]
      /\ \A d \in Ids : t.held[d] = IF d = c THEN Nobody ELSE ui.held[d]
  BY <1>3, <1>4, RemoveFields, TopScreen
<1>6. Tree(p) /\ StackOK(p)
  BY <1>1, <1>2, <1>3, SameTree, PopStack DEF StackOK
<1>7. Tree(t) /\ StackOK(t)
  <2>1. Tree(t)
    BY <1>4, <1>6, RemoveTree
  <2>2. StackOK(t)
    BY <1>3, <1>5, <1>6 DEF StackOK
  <2>3. QED
    BY <2>1, <2>2
<1>8. c \in Waiting(request) /\ Free(ui) # {} /\ Free(t) = Free(ui)
  <2>1. c \in Waiting(request)
    BY DEF Waiting
  <2>2. Cardinality(Waiting(request)) > 0
    BY <1>1, <2>1, WaitingChanges DEF RequestsOK
  <2>3. Cardinality(Free(ui)) > 0
    BY <1>1, <2>2, Counts DEF RoomLeft
  <2>4. QED
    BY <1>5, <2>1, <2>3, Counts DEF Free
<1> HIDE DEF v, f
<1>9. /\ Tree(v) /\ StackOK(v) /\ v \in Uis
      /\ f \in Ids /\ ui.kind[f] = "none" /\ f # c
      /\ \A d \in Ids : t.held[d] # f
      /\ \A i \in 1 .. n : t.stack[i].owner # f
      /\ v.kind = [ui.kind EXCEPT ![f] = "home"]
      /\ \A d \in Ids : v.kind[d] = IF d = f THEN "home" ELSE ui.kind[d]
      /\ \A d \in Ids : v.held[d] = IF d = f THEN c ELSE t.held[d]
      /\ Len(v.stack) = n + 1
      /\ \A i \in 1 .. n : v.stack[i] = t.stack[i]
      /\ v.stack[n + 1] = [kind |-> "home", owner |-> f]
      /\ \A i \in 1 .. n + 1 : i \in 1 .. n \/ i = n + 1
      /\ \A d \in Ids : d # f => (Kept(v, d) <=> Kept(t, d))
      /\ Kept(v, f)
  <2>1. Tree(t) /\ StackOK(t) /\ Free(t) # {} /\ t.kind[c] \in {"login", "registration"}
    BY <1>5, <1>7, <1>8
  <2>2. ShownIn(t, "home", c, f, v)
    BY <2>1, ShownFacts DEF f, v
  <2> HIDE DEF n
  <2>3. n = Len(t.stack) /\ t.kind = ui.kind
    BY <1>5 DEF n
  <2>4. /\ Tree(v) /\ StackOK(v) /\ v \in Uis
        /\ f \in Ids /\ t.kind[f] = "none" /\ f # c
        /\ \A d \in Ids : t.held[d] # f
        /\ \A i \in 1 .. n : t.stack[i].owner # f
        /\ v.kind = [t.kind EXCEPT ![f] = "home"]
        /\ \A d \in Ids : d # f => (Kept(v, d) <=> Kept(t, d))
        /\ Kept(v, f)
    BY <2>2, <2>3, ZenonT(30) DEF ShownIn
  <2>5. /\ \A d \in Ids : v.kind[d] = IF d = f THEN "home" ELSE t.kind[d]
        /\ \A d \in Ids : v.held[d] = IF d = f THEN c ELSE t.held[d]
        /\ Len(v.stack) = n + 1
        /\ \A i \in 1 .. n : v.stack[i] = t.stack[i]
        /\ v.stack[n + 1] = [kind |-> "home", owner |-> f]
        /\ \A i \in 1 .. n + 1 : i \in 1 .. n \/ i = n + 1
    BY <2>2, <2>3, ZenonT(30) DEF ShownIn
  <2>6. QED
    BY <2>3, <2>4, <2>5
<1>10. RequestsOK(ui, req) /\ \A d \in Ids : req[d] = IF d = c THEN x ELSE request[d]
  <2>1. RequestsOK(ui, req)
    BY <1>1, RequestsChange
  <2>2. QED
    BY <1>1, <2>1 DEF RequestsOK
<1>11. RoomLeft(v, req)
  <2>1. Cardinality(Free(v)) = Cardinality(Free(ui)) - 1
    <3>1. /\ f \in Ids /\ ui.kind[f] = "none" /\ v.kind[f] # "none"
          /\ \A d \in Ids : d # f => v.kind[d] = ui.kind[d]
      BY <1>9
    <3>2. QED
      BY <3>1, FreeTaken
  <2>2. Cardinality(Waiting(req)) = Cardinality(Waiting(request)) - 1
    BY <1>1, <1>8, WaitingChanges DEF RequestsOK
  <2>3. QED
    BY <1>1, <2>1, <2>2, Counts DEF RoomLeft
<1> HIDE DEF req
<1>12. RequestsOK(v, req)
  BY <1>9, <1>10 DEF RequestsOK
(* The stack of t is that of ui, less the screen of a registration.        *)
<1>13. /\ \A i \in 1 .. n : i \in 1 .. m /\ t.stack[i] = ui.stack[i]
       /\ ui.kind[c] = "registration" => \A i \in 1 .. n : i # m
       /\ 1 \in 1 .. n
  <2>1. CASE ui.kind[c] = "login"
    BY <1>3, <1>5, <2>1, TopScreen
  <2>2. CASE ui.kind[c] = "registration"
    BY <1>1, <1>2, <1>3, <1>5, <2>2, PopFacts
  <2>3. QED
    BY <2>1, <2>2
(* Who is kept was kept before, by somebody else than c.                   *)
<1>14. ASSUME NEW d \in Ids, d # f, Kept(v, d), ui.kind[d] \in {"login", "registration"}
       PROVE  /\ d # c /\ Kept(ui, d) /\ v.held[d] = ui.held[d]
              /\ ui.held[d] \in Ids \ {c}
              /\ ui.kind[d] = "registration" =>
                   /\ ui.kind[ui.held[d]] = "login"
                   /\ v.held[ui.held[d]] = ui.held[ui.held[d]]
  <2>1. Kept(t, d)
    BY <1>9, <1>14
  <2>2. d # c
    BY <1>5, <1>14, <2>1 DEF Kept
  <2>3. t.held[d] = ui.held[d] /\ ui.held[d] \in Ids /\ ui.held[d] # f
    <3>1. t.held[d] # Nobody
      BY <1>5, <1>14, <2>1 DEF Kept
    <3>2. t.held[d] = ui.held[d] /\ ui.held[d] \in Ids \cup {Nobody}
      BY <1>5, <2>2, TopScreen
    <3>3. t.held[d] # f
      BY <1>9
    <3>4. QED
      BY <3>1, <3>2, <3>3
  <2>4. ui.held[d] # c
    <3>1. CASE ui.kind[d] = "login"
      BY <1>1, <2>3, <3>1 DEF Tree
    <3>2. CASE ui.kind[d] = "registration"
      BY <1>5, <2>1, <2>3, <3>2 DEF Kept
    <3>3. QED
      BY <1>14, <3>1, <3>2
  <2>5. Kept(ui, d)
    BY <1>5, <2>1, <2>2, <2>3, <2>4 DEF Kept
  <2>6. ui.kind[d] = "registration" => ui.kind[ui.held[d]] = "login"
    BY <1>1, <2>3 DEF Tree
  <2>7. QED
    BY <1>5, <1>9, <1>14, <2>2, <2>3, <2>4, <2>5, <2>6
<1>15. HomesOK(v, req)
  <2>1. ASSUME NEW h \in Ids, v.kind[h] = "home", v.held[h] # Nobody, v.held[v.held[h]] # Nobody
        PROVE  /\ v.kind[v.held[h]] = "login"
               /\ req[v.held[h]] = "none"
               /\ \A i \in 1 .. Len(v.stack) : v.stack[i].owner # v.held[h]
    <3>1. h # f /\ h # c
      BY <1>5, <1>9, <2>1
    <3>2. v.held[h] = ui.held[h] /\ ui.held[h] \in Ids \ {f} /\ ui.kind[h] = "home"
      BY <1>5, <1>9, <2>1, <3>1, TopScreen
    <3>3. ui.held[h] # c /\ ui.held[ui.held[h]] # Nobody
      BY <1>5, <1>9, <2>1, <3>2
    <3>4. /\ ui.kind[ui.held[h]] = "login"
          /\ request[ui.held[h]] = "none"
          /\ \A i \in 1 .. m : ui.stack[i].owner # ui.held[h]
      BY <1>1, <2>1, <3>2, <3>3 DEF HomesOK
    <3>5. \A i \in 1 .. Len(v.stack) : v.stack[i].owner # ui.held[h]
      <4>1. ASSUME NEW i \in 1 .. n
            PROVE  v.stack[i].owner # ui.held[h]
        BY <1>9, <1>13, <3>4
      <4>2. v.stack[n + 1].owner # ui.held[h]
        BY <1>9, <3>2
      <4>3. QED
        BY <1>9, <4>1, <4>2
    <3>6. QED
      BY <1>9, <1>10, <3>2, <3>3, <3>4, <3>5
  <2>2. \A h \in Ids : ui.kind[h] = "home" => ui.held[h] # c
    <3>1. ui.held[c] # Nobody /\ c # Nobody
      BY Names DEF Kept
    <3>2. QED
      BY <1>1, <3>1 DEF HomesOK
  <2>3. ASSUME NEW g \in Ids, NEW h \in Ids, v.kind[g] = "home", v.kind[h] = "home",
               v.held[g] = v.held[h], v.held[g] # Nobody
        PROVE  g = h
    <3>1. \A e \in {g, h} : e # f => ui.kind[e] = "home" /\ v.held[e] = ui.held[e] /\ ui.held[e] # c
      BY <1>5, <1>9, <2>2, <2>3
    <3>2. v.held[f] = c
      BY <1>9
    <3>3. QED
      BY <1>1, <2>3, <3>1, <3>2 DEF HomesOK
  <2>4. QED
    BY <2>1, <2>3 DEF HomesOK
<1>16. HasHome(v) /\ ServedOK(v)
  BY <1>9 DEF HasHome, ServedOK
<1>17. ASSUME ~LogoutWired
       PROVE  Plain(v, req, session)
  <2>1. Plain(ui, request, session)
    BY <1>17 DEF Inv, Whole
  <2>2. \A d \in Ids : v.kind[d] = "login" => v.held[d] \in {App, Nobody}
    BY <1>5, <1>9, <2>1 DEF Plain
  <2>3. ASSUME NEW i \in 1 .. Len(v.stack), v.stack[i].kind = "login"
        PROVE  i = 1
    <3>1. i \in 1 .. n
      BY <1>9, <2>3
    <3>2. i \in 1 .. m /\ ui.stack[i].kind = "login"
      BY <1>9, <1>13, <2>3, <3>1
    <3>3. QED
      BY <2>1, <3>2 DEF Plain
  <2>4. ASSUME NEW d \in Ids, v.kind[d] = "login", req[d] # "none"
        PROVE  v.stack[1].owner = d
    <3>1. ui.kind[d] = "login" /\ request[d] # "none"
      BY <1>9, <1>10, <2>4
    <3>2. QED
      BY <1>9, <1>13, <2>1, <3>1 DEF Plain
  <2>5. ASSUME NEW i \in 1 .. Len(v.stack), v.stack[i].kind = "registration"
        PROVE  /\ i > 1
               /\ v.stack[i - 1] = [kind |-> "login", owner |-> v.held[v.stack[i].owner]]
               /\ Kept(v, v.stack[i].owner) => i = Len(v.stack)
    <3> DEFINE r == ui.stack[i].owner
    <3>1. i \in 1 .. n /\ v.stack[i] = ui.stack[i] /\ i \in 1 .. m
      BY <1>9, <1>13, <2>5
    <3>2. /\ i > 1
          /\ ui.stack[i - 1] = [kind |-> "login", owner |-> ui.held[r]]
          /\ Kept(ui, r) => i = m
      BY <2>1, <2>5, <3>1 DEF Plain
    <3>3. r \in Ids \ {f} /\ ui.kind[r] = "registration"
      BY <1>9, <1>13, <2>5, <3>1, TopScreen
    <3>4. r # c
      <4>1. ASSUME ui.kind[c] = "registration", r = c
            PROVE  FALSE
        BY <1>13, <3>1, <3>2, <4>1
      <4>2. QED
        BY <3>3, <4>1
    <3>5. v.held[r] = ui.held[r] /\ v.stack[i - 1] = ui.stack[i - 1]
      <4>1. i - 1 \in 1 .. n
        BY <3>1, <3>2
      <4>2. QED
        BY <1>5, <1>9, <1>13, <3>3, <3>4, <4>1
    <3>6. ~Kept(v, r)
      <4>1. ASSUME Kept(v, r)
            PROVE  FALSE
        <5>1. /\ Kept(ui, r) /\ ui.held[r] \in Ids \ {c} /\ ui.kind[ui.held[r]] = "login"
              /\ v.held[ui.held[r]] = ui.held[ui.held[r]]
          BY <1>14, <3>3, <4>1
        <5>2. ui.held[ui.held[r]] = App
          BY <2>1, <3>3, <5>1 DEF Plain, Kept
        <5>3. ui.kind[c] = "login"
          BY <1>13, <3>1, <3>2, <5>1
        <5>4. ui.held[c] = App
          BY <2>1, <5>3 DEF Plain, Kept
        <5>5. QED
          BY <1>1, <5>1, <5>2, <5>3, <5>4 DEF Tree
      <4>2. QED
        BY <4>1
    <3>7. QED
      BY <3>1, <3>2, <3>5, <3>6
  <2>6. \A d \in Ids : req[d] = "signedIn" => session
    BY <1>10, <2>1 DEF Plain
  <2>7. ASSUME ~session
        PROVE  \E d \in Ids : v.kind[d] = "login" /\ req[d] = "ended"
    <3>1. x = "ended" /\ ui.kind[c] = "login"
      BY <2>1, <2>7 DEF Plain
    <3>2. QED
      BY <1>9, <1>10, <3>1
  <2>8. QED
    BY <2>2, <2>3, <2>4, <2>5, <2>6, <2>7 DEF Plain
<1>18. ASSUME ~InteractivePop
       PROVE  Buttons(v)
  <2>1. Buttons(ui)
    BY <1>18 DEF Inv, Whole
  <2>2. v.stack[Len(v.stack)].owner = f /\ v.kind[f] = "home"
    BY <1>9
  <2>3. ASSUME NEW r \in Ids, v.kind[r] = "registration", Kept(v, r), v.held[v.held[r]] = App
        PROVE  FALSE
    <3>1. r # f /\ ui.kind[r] = "registration"
      BY <1>9, <2>3
    <3>2. /\ r # c /\ Kept(ui, r) /\ ui.held[r] \in Ids \ {c} /\ ui.kind[ui.held[r]] = "login"
          /\ ui.held[ui.held[r]] = App
      BY <1>14, <2>3, <3>1
    <3>3. r = ui.stack[m].owner /\ ~HasHome(ui)
      BY <2>1, <3>1, <3>2 DEF Buttons
    <3>4. CASE ui.kind[c] = "login"
      <4>1. ui.held[c] = App
        BY <1>1, <3>3, <3>4, ChildCompletes DEF Tree, HasHome
      <4>2. QED
        BY <1>1, <3>2, <3>4, <4>1 DEF Tree
    <3>5. CASE ui.kind[c] = "registration"
      <4>1. ui.held[c] \in Ids /\ ui.kind[ui.held[c]] = "login" /\ Kept(ui, ui.held[c])
        BY <1>1, <3>5, ChildCompletes DEF Tree, Kept
      <4>2. ui.held[ui.held[c]] = App
        BY <1>1, <3>3, <4>1, ChildCompletes DEF Tree, HasHome
      <4>3. c = ui.stack[m].owner
        BY <2>1, <3>5, <4>2 DEF Buttons
      <4>4. QED
        BY <3>2, <3>3, <4>3
    <3>6. QED
      BY <3>4, <3>5
  <2>4. QED
    BY <1>9, <2>2, <2>3 DEF Buttons
<1>19. Whole(v, req, session)
  BY <1>9, <1>11, <1>12, <1>15, <1>16, <1>17, <1>18 DEF Whole, General
<1>20. QED
  BY <1>19 DEF v, req

-----------------------------------------------------------------------------
(* logoutButtonTapped.                                                     *)

(* A home coordinator completes: at most its parent's handler removes it,  *)
(* nothing is popped.                                                      *)
LEMMA HomeCompletes ==
  ASSUME Inv, NEW c \in Ids, Touchable("home", c), NEW t, t = isCompleted(ui, c)
  PROVE  /\ Tree(t) /\ StackOK(t) /\ HomesOK(t, request)
         /\ t.kind = ui.kind
         /\ \A d \in Ids : d # c => t.held[d] = ui.held[d]
         /\ \A d \in Ids : Kept(t, d) <=> Kept(ui, d)
         /\ ui.kind[c] = "home" /\ c # App
<1>1. Tree(ui) /\ StackOK(ui) /\ HomesOK(ui, request) /\ ui \in Uis
  BY DEF Inv, Whole, General, Tree
<1>2. ui.kind[c] = "home" /\ c # App
  <2>1. ui.stack[Len(ui.stack)] = [kind |-> "home", owner |-> c] /\ ui.kind[c] = "home"
    BY TopScreen
  <2>2. QED
    BY <1>1, <2>1 DEF Tree
<1>3. CASE t = ui
  BY <1>1, <1>2, <1>3
<1>4. ASSUME NEW p \in {ui, pop(ui)}, t = remove(p, c)
      PROVE  /\ Tree(t) /\ StackOK(t) /\ HomesOK(t, request)
             /\ t.kind = ui.kind
             /\ \A d \in Ids : d # c => t.held[d] = ui.held[d]
             /\ \A d \in Ids : Kept(t, d) <=> Kept(ui, d)
  <2>1. /\ p \in Uis /\ p.kind = ui.kind /\ p.held = ui.held /\ p.armed = ui.armed
        /\ p.stack = ui.stack \/ (Len(ui.stack) > 1 /\ p.stack = Front(ui.stack))
    BY <1>1, PopFields
  <2>2. Tree(p)
    BY <1>1, <2>1, SameTree
  <2>3. StackOK(p) /\ HomesOK(p, request)
    <3>1. CASE p.stack = ui.stack
      BY <1>1, <2>1, <3>1, PopHomes DEF StackOK
    <3>2. CASE Len(ui.stack) > 1 /\ p.stack = Front(ui.stack)
      <4>1. \A i \in 1 .. Len(p.stack) : i \in 1 .. Len(ui.stack) /\ p.stack[i] = ui.stack[i]
        BY <1>1, <2>1, <3>2, PopFacts
      <4>2. HomesOK(p, request)
        BY <1>1, <2>1, <4>1, PopHomes
      <4>3. StackOK(p)
        BY <1>1, <2>1, <3>2, PopStack
      <4>4. QED
        BY <4>2, <4>3
    <3>3. QED
      BY <2>1, <3>1, <3>2
  <2>4. /\ t \in Uis /\ t.kind = ui.kind /\ t.stack = p.stack
        /\ t.held = [ui.held EXCEPT ![c] = Nobody]
    BY <1>4, <2>1, RemoveFields
  <2>5. Tree(t)
    BY <1>4, <2>2, RemoveTree
  <2>6. StackOK(t)
    BY <2>1, <2>3, <2>4 DEF StackOK
  <2>7. HomesOK(t, request)
    BY <2>1, <2>2, <2>3, <2>4, RemoveHomes
  <2>8. \A d \in Ids : d # c => t.held[d] = ui.held[d]
    BY <2>4, TopScreen
  <2>9. ASSUME NEW d \in Ids
        PROVE  Kept(t, d) <=> Kept(ui, d)
    <3>1. CASE d = c
      BY <1>2, <2>4, <3>1 DEF Kept
    <3>2. CASE d # c
      <4>1. ui.kind[d] = "registration" /\ ui.held[d] # Nobody => ui.held[d] \in Ids \ {c}
        BY <1>1, <1>2, TopScreen DEF Tree
      <4>2. QED
        BY <2>4, <2>8, <3>2, <4>1 DEF Kept
    <3>3. QED
      BY <3>1, <3>2
  <2>10. QED
    BY <2>4, <2>5, <2>6, <2>7, <2>8, <2>9
<1>5. t = ui \/ \E p \in {ui, pop(ui)} : t = remove(p, c)
  BY DEF isCompleted
<1>6. QED
  BY <1>2, <1>3, <1>4, <1>5

(* add, for the login of switchToLoginVC.                                  *)
LEMMA AddLogin ==
  ASSUME NEW t, t \in Uis, NEW c \in Ids, Free(t) # {}
  PROVE  /\ add(t, "login", c, TRUE) \in Uis
         /\ add(t, "login", c, TRUE).kind = [t.kind EXCEPT ![Fresh(t)] = "login"]
         /\ add(t, "login", c, TRUE).held = [t.held EXCEPT ![Fresh(t)] = c]
         /\ add(t, "login", c, TRUE).armed = t.armed \cup {Fresh(t)}
         /\ add(t, "login", c, TRUE).stack = t.stack
BY FreshIsFree DEF add, Uis, Kinds

(* The Login screen of a home, or the Home that follows at once.           *)
LEMMA LogoutWhole ==
  ASSUME Inv, LogoutWired, NEW c \in Ids, Touchable("home", c), Room(2), NEW b \in BOOLEAN,
         NEW req, NEW s, RequestsOK(ui, req), RoomLeft(ui, req),
         Cardinality(Waiting(req)) <= Cardinality(Waiting(request)),
         \A d \in Ids : request[d] = "none" => req[d] = "none",
         NEW t, t = isCompleted(ui, c)
  PROVE  Whole(switchToLoginVC(t, c, b), req, s)
<1> DEFINE f == Fresh(t)
           w == add(t, "login", c, TRUE)
           g == Fresh(w)
           v == switchToLoginVC(t, c, b)
<1>1. /\ Tree(ui) /\ Tree(t) /\ StackOK(t) /\ HomesOK(t, request) /\ t.kind = ui.kind
      /\ \A d \in Ids : d # c => t.held[d] = ui.held[d]
      /\ \A d \in Ids : Kept(t, d) <=> Kept(ui, d)
      /\ ui.kind[c] = "home" /\ c # App
  BY HomeCompletes DEF Inv, Whole, General
<1>2. v = IF b THEN Shown(w, "home", f, TRUE) ELSE Shown(t, "login", c, TRUE)
  BY DEF switchToLoginVC, startLogin, Shown
<1>3. Free(t) = Free(ui) /\ Cardinality(Free(ui)) >= 2 + Cardinality(Waiting(request)) /\ Free(t) # {}
  <2>1. Cardinality(Free(ui)) >= 2 + Cardinality(Waiting(request))
    BY RoomCounts
  <2>2. Free(t) = Free(ui)
    BY <1>1 DEF Free
  <2>3. QED
    BY <2>1, <2>2, Counts
<1>4. ShownIn(t, "login", c, f, Shown(t, "login", c, TRUE))
  BY <1>1, <1>3, ShownFacts
<1>5. f \in Ids /\ ui.kind[f] = "none" /\ f # c /\ \A d \in Ids : t.held[d] # f
  BY <1>1, <1>4 DEF ShownIn
<1>6. /\ t \in Uis /\ t.kind \in [Ids -> Kinds] /\ t.held \in [Ids -> Ids \cup {Nobody}]
  BY <1>1 DEF Tree, Uis
<1>7. /\ Tree(w) /\ StackOK(w) /\ w \in Uis
      /\ w.kind = [t.kind EXCEPT ![f] = "login"]
      /\ w.held = [t.held EXCEPT ![f] = c]
      /\ w.stack = t.stack
      /\ \A i \in 1 .. Len(t.stack) : t.stack[i].owner # f
  <2>1. Tree(w)
    BY <1>1, <1>3, AddTree
  <2>2. /\ w \in Uis
        /\ w.kind = [t.kind EXCEPT ![f] = "login"]
        /\ w.held = [t.held EXCEPT ![f] = c]
        /\ w.armed = t.armed \cup {f}
        /\ w.stack = t.stack
    BY <1>3, <1>6, AddLogin
  <2> HIDE DEF w, f
  <2>3. StackOK(w) /\ \A i \in 1 .. Len(t.stack) : t.stack[i].owner # f
    BY <1>1, <1>5, <2>2, AddStack
  <2>4. QED
    BY <2>1, <2>2, <2>3
<1>8. b => ShownIn(w, "home", f, g, v)
  <2>1. w.kind[f] = "login"
    BY <1>5, <1>6, <1>7
  <2>2. Cardinality(Free(w)) = Cardinality(Free(t)) - 1
    <3>1. /\ t.kind[f] = "none" /\ w.kind[f] # "none"
          /\ \A d \in Ids : d # f => w.kind[d] = t.kind[d]
      BY <1>1, <1>5, <1>6, <1>7, <2>1
    <3> HIDE DEF w, f
    <3>2. QED
      BY <1>5, <3>1, FreeTaken
  <2>3. Free(w) # {}
    <3>1. Cardinality(Waiting(request)) \in Nat /\ Cardinality(Free(t)) \in Nat
      BY Counts
    <3> HIDE DEF w, f
    <3>2. Cardinality(Free(w)) > 0
      BY <1>3, <2>2, <3>1
    <3>3. QED
      BY <3>2, Counts
  <2>4. ShownIn(w, "home", f, g, Shown(w, "home", f, TRUE))
    BY <1>5, <1>7, <2>1, <2>3, ShownFacts
  <2>5. QED
    BY <1>2, <2>4
<1>9. ~b => ShownIn(t, "login", c, f, v)
  BY <1>2, <1>4
<1> HIDE DEF v, w, f, g
<1>10. /\ \A d \in Ids : w.kind[d] = IF d = f THEN "login" ELSE ui.kind[d]
       /\ \A d \in Ids : w.held[d] = IF d = f THEN c ELSE t.held[d]
  BY <1>1, <1>6, <1>7
<1>11. \A d \in Ids : d # f => (Kept(w, d) <=> Kept(ui, d))
  <2>1. ASSUME NEW d \in Ids, d # f
        PROVE  Kept(w, d) <=> Kept(t, d)
    <3>1. t.held[d] # Nobody => t.held[d] \in Ids \ {f}
      BY <1>5, <1>6
    <3>2. QED
      BY <1>1, <1>10, <2>1, <3>1 DEF Kept
  <2>2. QED
    BY <1>1, <2>1
(* The new children are f and, if b, g.                                    *)
<1>12. /\ Tree(v) /\ StackOK(v)
       /\ v.held[f] = c /\ v.kind[f] = "login"
       /\ b => g \in Ids /\ g # f /\ ui.kind[g] = "none" /\ v.kind[g] = "home" /\ v.held[g] = f
       /\ \A d \in Ids : d # f /\ (b => d # g) =>
            /\ v.kind[d] = ui.kind[d] /\ v.held[d] = t.held[d]
            /\ Kept(v, d) <=> Kept(ui, d)
       /\ Len(v.stack) = Len(t.stack) + 1
       /\ \A i \in 1 .. Len(t.stack) : v.stack[i] = t.stack[i]
       /\ v.stack[Len(t.stack) + 1].owner = IF b THEN g ELSE f
       /\ \A i \in 1 .. Len(v.stack) : i \in 1 .. Len(t.stack) \/ i = Len(t.stack) + 1
       /\ Kept(v, IF b THEN g ELSE f)
  <2>1. CASE b
    BY <1>5, <1>7, <1>8, <1>10, <1>11, <2>1 DEF ShownIn
  <2>2. CASE ~b
    BY <1>1, <1>5, <1>9, <2>2 DEF ShownIn
  <2>3. QED
    BY <2>1, <2>2
<1>13. RequestsOK(v, req)
  <2>1. \A d \in Ids : req[d] # "none" => d # f /\ (b => d # g)
    BY <1>5, <1>12 DEF RequestsOK
  <2>2. QED
    BY <1>12, <2>1 DEF RequestsOK
<1>14. RoomLeft(v, req)
  <2>1. Cardinality(Free(w)) = Cardinality(Free(ui)) - 1
    <3>1. /\ w.kind[f] # "none"
          /\ \A d \in Ids : d # f => w.kind[d] = ui.kind[d]
      BY <1>5, <1>10
    <3>2. QED
      BY <1>5, <3>1, FreeTaken
  <2>2. CASE b
    <3>1. /\ g \in Ids /\ w.kind[g] = "none" /\ v.kind[g] # "none"
          /\ \A d \in Ids : d # g => v.kind[d] = w.kind[d]
      BY <1>10, <1>12, <2>2
    <3>2. Cardinality(Free(v)) = Cardinality(Free(w)) - 1
      BY <3>1, FreeTaken
    <3>3. QED
      BY <1>3, <2>1, <3>2, Counts DEF RoomLeft
  <2>3. CASE ~b
    <3>1. Free(v) = Free(w)
      BY <1>10, <1>12, <2>3 DEF Free
    <3>2. QED
      BY <1>3, <2>1, <3>1, Counts DEF RoomLeft
  <2>4. QED
    BY <2>2, <2>3
<1>15. HomesOK(v, req)
  <2>1. ASSUME NEW h \in Ids, v.kind[h] = "home", b => h # g
        PROVE  /\ h # f /\ ui.kind[h] = "home" /\ v.held[h] = t.held[h]
               /\ v.held[h] # Nobody => v.held[h] \in Ids \ {f} /\ (b => v.held[h] # g)
    <3>1. h # f /\ ui.kind[h] = "home" /\ v.held[h] = t.held[h]
      BY <1>12, <2>1
    <3>2. b => t.held[h] # g
      BY <1>1, <1>12, Childless
    <3>3. QED
      BY <1>5, <1>6, <3>1, <3>2
  <2>2. ASSUME NEW h \in Ids, v.kind[h] = "home", v.held[h] # Nobody, v.held[v.held[h]] # Nobody
        PROVE  /\ v.kind[v.held[h]] = "login"
               /\ req[v.held[h]] = "none"
               /\ \A i \in 1 .. Len(v.stack) : v.stack[i].owner # v.held[h]
    <3>1. CASE b /\ h = g
      <4>1. req[f] = "none"
        BY <1>5 DEF RequestsOK
      <4>2. \A i \in 1 .. Len(v.stack) : v.stack[i].owner # f
        BY <1>7, <1>12, <3>1
      <4>3. QED
        BY <1>12, <3>1, <4>1, <4>2
    <3>2. CASE b => h # g
      <4>1. /\ t.kind[h] = "home" /\ v.held[h] = t.held[h]
            /\ t.held[h] \in Ids \ {f} /\ (b => t.held[h] # g)
        BY <1>1, <2>1, <2>2, <3>2
      <4>2. v.held[t.held[h]] = t.held[t.held[h]] /\ v.kind[t.held[h]] = t.kind[t.held[h]]
        BY <1>1, <1>12, <4>1
      <4>3. /\ t.kind[t.held[h]] = "login"
            /\ request[t.held[h]] = "none"
            /\ \A i \in 1 .. Len(t.stack) : t.stack[i].owner # t.held[h]
        BY <1>1, <2>2, <4>1, <4>2 DEF HomesOK
      <4>4. ASSUME NEW i \in 1 .. Len(v.stack)
            PROVE  v.stack[i].owner # t.held[h]
        BY <1>12, <4>1, <4>3
      <4>5. QED
        BY <4>1, <4>2, <4>3, <4>4
    <3>3. QED
      BY <3>1, <3>2
  <2>3. ASSUME NEW e \in Ids, NEW h \in Ids, v.kind[e] = "home", v.kind[h] = "home",
               v.held[e] = v.held[h], v.held[e] # Nobody
        PROVE  e = h
    <3>1. CASE b /\ (e = g \/ h = g)
      BY <1>12, <2>1, <2>3, <3>1
    <3>2. CASE b => e # g /\ h # g
      <4>1. t.kind[e] = "home" /\ t.kind[h] = "home" /\ t.held[e] = t.held[h] /\ t.held[e] # Nobody
        BY <1>1, <2>1, <2>3, <3>2
      <4>2. QED
        BY <1>1, <4>1 DEF HomesOK
    <3>3. QED
      BY <3>1, <3>2
  <2>4. QED
    BY <2>2, <2>3 DEF HomesOK
<1>16. HasHome(v) /\ ServedOK(v)
  <2>1. v.kind[c] = "home"
    BY <1>1, <1>5, <1>12
  <2>2. QED
    BY <2>1 DEF HasHome, ServedOK
<1>17. ASSUME ~InteractivePop
       PROVE  Buttons(v)
  <2>1. Buttons(ui)
    BY <1>17 DEF Inv, Whole
  <2>2. ASSUME NEW r \in Ids, v.kind[r] = "registration", Kept(v, r), v.held[v.held[r]] = App
        PROVE  FALSE
    <3>1. r # f /\ (b => r # g)
      BY <1>12, <2>2
    <3>2. ui.kind[r] = "registration" /\ Kept(ui, r) /\ v.held[r] = ui.held[r]
      BY <1>1, <1>12, <2>2, <3>1
    <3>3. ui.held[r] \in Ids /\ ui.kind[ui.held[r]] = "login"
      BY <1>1, <3>2, ChildCompletes DEF Tree
    <3>4. ui.held[r] # f /\ (b => ui.held[r] # g) /\ ui.held[r] # c
      BY <1>1, <1>5, <1>12, <3>3
    <3>5. ui.held[ui.held[r]] = App
      BY <1>1, <1>12, <2>2, <3>2, <3>3, <3>4
    <3>6. QED
      BY <1>1, <2>1, <3>2, <3>5 DEF Buttons, HasHome
  <2>3. QED
    BY <1>1, <1>12, <2>2 DEF Buttons
<1>18. Whole(v, req, s)
  BY <1>12, <1>13, <1>14, <1>15, <1>16, <1>17 DEF Whole, General
<1>19. QED
  BY <1>18 DEF v

-----------------------------------------------------------------------------
(* AppCoordinator.start.                                                   *)

(* startApp: one login and its screen, or the Home it starts.              *)
LEMMA StartWhole ==
  ASSUME NEW s \in BOOLEAN, NEW req, req = [c \in Ids |-> "none"]
  PROVE  Whole(startApp(s), req, s)
<1> DEFINE f == Fresh(Empty)
           t == add(Empty, "login", App, TRUE)
           g == Fresh(t)
           w == add(t, "home", f, TRUE)
           v == startApp(s)
<1>1. App \in Ids /\ Nobody \notin Ids /\ 1 \in Ids \ {App} /\ 2 \in Ids \ {App} /\ 1 # 2
  BY MaxIdAssumption, Names DEF Ids, App
<1>2. /\ Empty \in Uis
      /\ Empty.kind = [c \in Ids |-> IF c = App THEN "app" ELSE "none"]
      /\ Empty.held = [c \in Ids |-> Nobody]
      /\ Empty.armed = {} /\ Empty.stack = << >>
  BY DEF Empty, Uis, Kinds
<1>3. Free(Empty) = Ids \ {App}
  BY <1>1, <1>2 DEF Free
<1>4. f \in Ids \ {App}
  BY <1>1, <1>3 DEF Fresh
<1>5. /\ t \in Uis
      /\ t.kind = [Empty.kind EXCEPT ![f] = "login"]
      /\ t.held = [Empty.held EXCEPT ![f] = App]
      /\ t.armed = Empty.armed \cup {f}
      /\ t.stack = Empty.stack
  BY <1>1, <1>2, <1>3, AddLogin
<1>6. v = IF s THEN push(w, "home", g) ELSE push(t, "login", f)
  BY DEF startApp, startLogin
<1> HIDE DEF f, t
<1>7. /\ \A c \in Ids : t.kind[c] = IF c = App THEN "app" ELSE IF c = f THEN "login" ELSE "none"
      /\ \A c \in Ids : t.held[c] = IF c = f THEN App ELSE Nobody
      /\ t.armed = {f} /\ t.stack = << >>
  BY <1>2, <1>4, <1>5
<1>8. Tree(t)
  BY <1>1, <1>4, <1>5, <1>7 DEF Tree
<1>9. g \in Ids \ {App, f} /\ Free(t) # {}
  <2>1. Free(t) = Ids \ {App, f}
    BY <1>4, <1>7 DEF Free
  <2>2. Free(t) # {}
    BY <1>1, <2>1
  <2>3. QED
    BY <2>1, <2>2 DEF Fresh
<1>10. /\ w \in Uis /\ Tree(w)
       /\ w.kind = [t.kind EXCEPT ![g] = "home"]
       /\ w.held = [t.held EXCEPT ![g] = f]
       /\ w.stack = t.stack
  <2>1. Tree(w)
    BY <1>4, <1>7, <1>8, <1>9, AddTree
  <2>2. /\ w.kind = [t.kind EXCEPT ![g] = "home"]
        /\ w.held = [t.held EXCEPT ![g] = f]
        /\ w.stack = t.stack
    BY <1>4, <1>5, <1>9 DEF add, Uis
  <2>3. QED
    BY <2>1, <2>2 DEF Tree
<1> HIDE DEF g, w
<1>11. t.kind \in [Ids -> Kinds] /\ t.held \in [Ids -> Ids \cup {Nobody}]
  BY <1>5 DEF Uis
<1>12. /\ \A c \in Ids : w.kind[c] = IF c = g THEN "home" ELSE t.kind[c]
       /\ \A c \in Ids : w.held[c] = IF c = g THEN f ELSE t.held[c]
  BY <1>9, <1>10, <1>11
<1>13. \A x : Append(<< >>, x) = << x >>
  OBVIOUS
<1>14. Cardinality(Waiting(req)) = 0 /\ \A c \in Ids : req[c] = "none"
  <2>1. Waiting(req) = {}
    BY DEF Waiting
  <2>2. QED
    BY <2>1, FS_EmptySet
<1>15. \A u : RoomLeft(u, req)
  BY <1>14, Counts DEF RoomLeft
<1> HIDE DEF v
<1>16. CASE s
  <2>1. v \in Uis /\ v.kind = w.kind /\ v.held = w.held /\ v.armed = w.armed
        /\ v.stack = << [kind |-> "home", owner |-> g] >>
    BY <1>6, <1>7, <1>9, <1>10, <1>13, <1>16, PushFields
  <2>2. Tree(v)
    BY <1>10, <2>1, SameTree
  <2>3. v.kind[g] = "home" /\ \A c \in Ids : v.kind[c] = "home" => c = g
    BY <1>7, <1>9, <1>12, <2>1
  <2>4. StackOK(v)
    BY <2>1, <2>3 DEF StackOK
  <2>5. HasHome(v) /\ ServedOK(v)
    BY <1>9, <2>3 DEF HasHome, ServedOK
  <2>6. HomesOK(v, req)
    <3>1. v.held[g] = f /\ v.kind[f] = "login"
      BY <1>4, <1>7, <1>9, <1>12, <2>1
    <3>2. \A i \in 1 .. Len(v.stack) : v.stack[i].owner # f
      BY <1>9, <2>1
    <3>3. QED
      BY <1>4, <1>14, <2>3, <3>1, <3>2 DEF HomesOK
  <2>7. RequestsOK(v, req)
    BY <1>14 DEF RequestsOK
  <2>8. Plain(v, req, s)
    <3>1. \A c \in Ids : v.kind[c] = "login" => v.held[c] \in {App, Nobody}
      BY <1>7, <1>12, <2>1
    <3>2. QED
      BY <1>14, <1>16, <2>1, <3>1 DEF Plain
  <2>9. Buttons(v)
    <3>1. Kept(v, g) /\ v.stack[Len(v.stack)].owner = g
      BY <2>1, <2>3 DEF Kept
    <3>2. \A c \in Ids : v.kind[c] # "registration"
      BY <1>7, <1>12, <2>1
    <3>3. QED
      BY <2>3, <3>1, <3>2 DEF Buttons
  <2>10. QED
    BY <1>15, <2>2, <2>4, <2>5, <2>6, <2>7, <2>8, <2>9 DEF Whole, General, v
<1>17. CASE ~s
  <2>1. v \in Uis /\ v.kind = t.kind /\ v.held = t.held /\ v.armed = t.armed
        /\ v.stack = << [kind |-> "login", owner |-> f] >>
    BY <1>4, <1>5, <1>6, <1>7, <1>13, <1>17, PushFields
  <2>2. Tree(v)
    BY <1>8, <2>1, SameTree
  <2>3. v.kind[f] = "login" /\ v.held[f] = App /\ \A c \in Ids : v.kind[c] \notin {"home", "registration"}
    BY <1>4, <1>7, <2>1
  <2>4. StackOK(v)
    BY <2>1, <2>3 DEF StackOK
  <2>5. Kept(v, f)
    BY <1>1, <2>3 DEF Kept
  <2>6. ~HasHome(v) /\ ServedOK(v)
    BY <2>1, <2>3, <2>5 DEF HasHome, ServedOK
  <2>7. HomesOK(v, req)
    BY <2>3 DEF HomesOK
  <2>8. RequestsOK(v, req)
    BY <1>14 DEF RequestsOK
  <2>9. Plain(v, req, s)
    <3>1. \A c \in Ids : v.kind[c] = "login" => v.held[c] \in {App, Nobody}
      BY <1>7, <2>1
    <3>2. QED
      BY <1>14, <2>1, <2>6, <3>1 DEF Plain
  <2>10. Buttons(v)
    BY <2>1, <2>3, <2>5, <2>6 DEF Buttons
  <2>11. QED
    BY <1>15, <2>2, <2>4, <2>6, <2>7, <2>8, <2>9, <2>10 DEF Whole, General, v
<1>18. QED
  BY <1>16, <1>17

-----------------------------------------------------------------------------
(* The invariant.                                                          *)

(* The initial states.                                                     *)
LEMMA InitInv == Init => Inv
BY StartWhole DEF Init, Inv

(* LoginSucceeded and LoginFailed: a kept login completes and brings a     *)
(* Home, one that is gone does nothing.                                    *)
LEMMA LoginResultWhole ==
  ASSUME Inv, NEW c \in Ids, ui.kind[c] = "login", request[c] \in {"asked", "signedIn"},
         NEW x \in {"none", "ended"}, x = "none" => request[c] = "signedIn", NEW result
  PROVE  Whole(onLoginCompleted(ui, c, result), [request EXCEPT ![c] = x], session)
<1>1. Tree(ui) /\ session \in BOOLEAN /\ ui \in Uis
  BY DEF Inv, Whole, General, Tree
<1>2. CASE Alive(ui, c)
  <2> DEFINE t == remove(ui, c)
  <2>1. Kept(ui, c)
    BY <1>1, <1>2, AliveIsKept
  <2>2. isCompleted(ui, c) = t
    BY <1>1, <2>1, ChildCompletes
  <2>3. Fresh(ui) = Fresh(t)
    <3>1. t.kind = ui.kind
      BY <1>1, RemoveFields
    <3>2. Free(ui) = Free(t)
      BY <3>1 DEF Free
    <3>3. QED
      BY <3>2 DEF Fresh
  <2>4. onLoginCompleted(ui, c, result) = Shown(t, "home", c, FALSE)
    BY <1>2, <2>2, <2>3 DEF onLoginCompleted, Shown
  <2>5. Whole(Shown(t, "home", c, FALSE), [request EXCEPT ![c] = x], session)
    BY <2>1, HomeWhole
  <2>6. QED
    BY <2>4, <2>5
<1>3. CASE ~Alive(ui, c)
  <2>1. onLoginCompleted(ui, c, result) = ui
    BY <1>3 DEF onLoginCompleted
  <2>2. Whole(ui, [request EXCEPT ![c] = x], session)
    BY <1>1, AnsweredWhole
  <2>3. QED
    BY <2>1, <2>2
<1>4. QED
  BY <1>2, <1>3

(* RegistrationSucceeded: switchToHomeVC adds the Home before it           *)
(* completes, which leaves what completing first would.                    *)
LEMMA RegisteredWhole ==
  ASSUME Inv, NEW c \in Ids, ui.kind[c] = "registration", request[c] = "signedIn",
         OnStack(ui, c), Alive(ui, c)
  PROVE  Whole(switchToHomeVC(ui, c), [request EXCEPT ![c] = "none"], session)
<1> DEFINE t == remove(pop(ui), c)
           w == add(ui, "home", c, TRUE)
           f == Fresh(ui)
<1>1. /\ Tree(ui) /\ StackOK(ui) /\ RequestsOK(ui, request) /\ RoomLeft(ui, request) /\ ui \in Uis
  BY DEF Inv, Whole, General, Tree
<1>2. Kept(ui, c)
  BY <1>1, AliveIsKept
<1>3. Free(ui) # {}
  <2>1. c \in Waiting(request)
    BY DEF Waiting
  <2>2. Cardinality(Waiting(request)) > 0
    BY <1>1, <2>1, WaitingChanges DEF RequestsOK
  <2>3. QED
    BY <1>1, <2>2, Counts DEF RoomLeft
<1>4. f \in Ids /\ ui.kind[f] = "none" /\ f # c
  BY <1>3, FreshIsFree
<1>5. /\ w \in Uis
      /\ w.kind = [ui.kind EXCEPT ![f] = "home"]
      /\ w.held = [ui.held EXCEPT ![f] = c]
      /\ w.armed = ui.armed \cup {f}
      /\ w.stack = ui.stack
  BY <1>1, <1>3, FreshIsFree DEF add, Uis, Kinds
<1>6. Tree(w)
  BY <1>1, <1>3, AddTree
<1>7. isCompleted(w, c) = remove(pop(w), c)
  <2>1. w.kind[c] = "registration"
    BY <1>4, <1>5, TopScreen
  <2>2. ui.held[c] \in Ids \ {f} /\ ui.held[c] # Nobody
    BY <1>1, <1>2, <1>4, ChildCompletes, Childless, Names
  <2>3. w.held[c] = ui.held[c] /\ w.held[ui.held[c]] = ui.held[ui.held[c]]
    <3> HIDE DEF w, f
    <3>1. QED
      BY <1>4, <1>5, <2>2, TopScreen
  <2>4. Kept(w, c)
    BY <1>2, <2>1, <2>2, <2>3 DEF Kept
  <2> HIDE DEF w
  <2>5. QED
    BY <1>6, <2>1, <2>4, ChildCompletes
<1>8. remove(pop(w), c) = add(t, "home", c, TRUE) /\ Fresh(t) = f
  <2>1. /\ t \in Uis
        /\ t.kind = ui.kind
        /\ t.held = [ui.held EXCEPT ![c] = Nobody]
        /\ t.armed = ui.armed \ {c}
        /\ t.stack = pop(ui).stack
    <3> DEFINE p == pop(ui)
    <3>1. p \in Uis /\ p.kind = ui.kind /\ p.held = ui.held /\ p.armed = ui.armed
      BY <1>1, PopFields
    <3>2. t = remove(p, c)
      OBVIOUS
    <3> HIDE DEF p, t
    <3>3. /\ t \in Uis /\ t.kind = p.kind /\ t.held = [p.held EXCEPT ![c] = Nobody]
          /\ t.armed = p.armed \ {c} /\ t.stack = p.stack
      BY <3>1, <3>2, RemoveFields
    <3>4. QED
      BY <3>1, <3>3 DEF p
  <2>2. Free(t) = Free(ui) /\ Fresh(t) = f
    <3> HIDE DEF t
    <3>1. Free(t) = Free(ui)
      BY <2>1 DEF Free
    <3>2. QED
      BY <3>1 DEF Fresh
  <2> DEFINE y == add(t, "home", c, TRUE)
             z == remove(pop(w), c)
  <2>3. /\ y \in Uis
        /\ y.kind = [t.kind EXCEPT ![f] = "home"]
        /\ y.held = [t.held EXCEPT ![f] = c]
        /\ y.armed = t.armed \cup {f}
        /\ y.stack = t.stack
    <3> HIDE DEF t, f
    <3>1. QED
      BY <1>4, <2>1, <2>2 DEF add, Uis, Kinds
  <2>4. /\ z \in Uis
        /\ z.kind = w.kind
        /\ z.held = [w.held EXCEPT ![c] = Nobody]
        /\ z.armed = w.armed \ {c}
        /\ z.stack = pop(w).stack
    <3> DEFINE p == pop(w)
    <3>1. w \in Uis
      BY <1>5
    <3> HIDE DEF w
    <3>2. p \in Uis /\ p.kind = w.kind /\ p.held = w.held /\ p.armed = w.armed
      BY <3>1, PopFields
    <3>3. z = remove(p, c)
      OBVIOUS
    <3> HIDE DEF p, z
    <3>4. /\ z \in Uis /\ z.kind = p.kind /\ z.held = [p.held EXCEPT ![c] = Nobody]
          /\ z.armed = p.armed \ {c} /\ z.stack = p.stack
      BY <3>2, <3>3, RemoveFields
    <3>5. QED
      BY <3>2, <3>4 DEF p
  <2>5. pop(w).stack = pop(ui).stack
    <3> HIDE DEF w
    <3>1. QED
      BY <1>1, <1>5, PopFields
  <2> HIDE DEF w, y, z, t, f
  <2>6. y.kind = z.kind /\ y.stack = z.stack
    BY <1>5, <2>1, <2>3, <2>4, <2>5
  <2>7. y.held = z.held
    BY <1>4, <1>5, <2>1, <2>3, <2>4, TopScreen
  <2>8. y.armed = z.armed
    BY <1>4, <1>5, <2>1, <2>3, <2>4
  <2>9. y = z
    <3>1. y \in Uis /\ z \in Uis
      BY <2>3, <2>4
    <3>2. y = [kind |-> y.kind, held |-> y.held, armed |-> y.armed, stack |-> y.stack]
      BY <3>1 DEF Uis
    <3>3. z = [kind |-> z.kind, held |-> z.held, armed |-> z.armed, stack |-> z.stack]
      BY <3>1 DEF Uis
    <3>4. QED
      BY <2>6, <2>7, <2>8, <3>2, <3>3
  <2>10. QED
    BY <2>2, <2>9 DEF y, z
<1>9. switchToHomeVC(ui, c) = Shown(t, "home", c, TRUE)
  BY <1>7, <1>8 DEF switchToHomeVC, Shown
<1>10. \E i \in 1 .. Len(ui.stack) : ui.stack[i].owner = c
  BY TopScreen DEF OnStack
<1>11. t = remove(IF ui.kind[c] = "login" THEN ui ELSE pop(ui), c)
  OBVIOUS
<1> HIDE DEF t
<1>12. Whole(Shown(t, "home", c, TRUE), [request EXCEPT ![c] = "none"], session)
  BY <1>2, <1>10, <1>11, HomeWhole
<1>13. QED
  BY <1>9, <1>12

(* Every step keeps the invariant.                                         *)
LEMMA NextInv == Inv /\ [Next]_vars => Inv'
<1> SUFFICES ASSUME Inv, [Next]_vars
             PROVE  Inv'
  OBVIOUS
<1>1. /\ Tree(ui) /\ StackOK(ui) /\ RequestsOK(ui, request) /\ RoomLeft(ui, request) /\ ui \in Uis
      /\ Whole(ui, request, session) /\ session \in BOOLEAN
  BY DEF Inv, Whole, General, Tree
<1>2. ASSUME NEW c \in Ids, TapGoToRegister(c)
      PROVE  Inv'
  BY <1>1, <1>2, GoToRegisterWhole, BecomesWhole DEF TapGoToRegister, Inv
<1>3. ASSUME NEW c \in Ids, TapLogin(c)
      PROVE  Inv'
  BY <1>1, <1>3, AskedWhole, BecomesWhole DEF TapLogin, Inv
<1>4. ASSUME NEW c \in Ids, TapSignUp(c)
      PROVE  Inv'
  <2>1. Whole(ui, [request EXCEPT ![c] = "asked"], session)
    BY <1>4, AskedWhole DEF TapSignUp
  <2>2. QED
    BY <1>1, <1>4, <2>1, BecomesWhole DEF TapSignUp, Inv
<1>5. ASSUME NEW c \in Ids, TapGoToLogin(c)
      PROVE  Inv'
  BY <1>1, <1>5, GoToLoginWhole, BecomesWhole DEF TapGoToLogin, Inv
<1>6. ASSUME NEW c \in Ids, SignIn(c)
      PROVE  Inv'
  <2>1. Whole(ui, [request EXCEPT ![c] = "signedIn"], session')
    BY <1>1, <1>6, AnsweredWhole DEF SignIn
  <2>2. QED
    BY <1>1, <1>6, <2>1, BecomesWhole DEF SignIn, Inv
<1>7. ASSUME NEW c \in Ids, LoginSucceeded(c)
      PROVE  Inv'
  BY <1>1, <1>7, LoginResultWhole, BecomesWhole DEF LoginSucceeded, Inv
<1>8. ASSUME NEW c \in Ids, LoginFailed(c)
      PROVE  Inv'
  BY <1>1, <1>8, LoginResultWhole, BecomesWhole DEF LoginFailed, Inv
<1>9. ASSUME NEW c \in Ids, RegistrationSucceeded(c)
      PROVE  Inv'
  <2>1. CASE OnStack(ui, c) /\ Alive(ui, c)
    BY <1>1, <1>9, <2>1, RegisteredWhole, BecomesWhole DEF RegistrationSucceeded, Inv
  <2>2. CASE ~(OnStack(ui, c) /\ Alive(ui, c))
    BY <1>1, <1>9, <2>2, AnsweredWhole, BecomesWhole DEF RegistrationSucceeded, Inv
  <2>3. QED
    BY <2>1, <2>2
<1>10. ASSUME NEW c \in Ids, RegistrationFailed(c)
       PROVE  Inv'
  BY <1>1, <1>10, AnsweredWhole, BecomesWhole DEF RegistrationFailed, Inv
<1>11. ASSUME NEW c \in Ids, Logout(c)
       PROVE  Inv'
  <2>1. CASE /\ session' = FALSE
             /\ Becomes(switchToLoginVC(isCompleted(ui, c), c, FALSE), request)
    <3>1. Cardinality(Waiting(request)) <= Cardinality(Waiting(request))
      BY Counts
    <3>2. LogoutWired /\ Touchable("home", c) /\ Room(2)
      BY <1>11 DEF Logout
    <3>3. Whole(switchToLoginVC(isCompleted(ui, c), c, FALSE), request, session')
      BY <1>1, <3>1, <3>2, LogoutWhole
    <3>4. QED
      BY <2>1, <3>3, BecomesWhole DEF Inv
  <2>2. ASSUME NEW d \in Ids, request[d] = "asked", session' = TRUE,
               Becomes(switchToLoginVC(isCompleted(ui, c), c, TRUE), [request EXCEPT ![d] = "signedIn"])
        PROVE  Inv'
    <3> DEFINE req == [request EXCEPT ![d] = "signedIn"]
    <3>1. ui.kind[d] \in {"login", "registration"} /\ d \in Waiting(request)
      BY <1>1, <2>2 DEF RequestsOK, Waiting
    <3>2. RequestsOK(ui, req)
      BY <1>1, <3>1, RequestsChange
    <3>3. Cardinality(Waiting(req)) <= Cardinality(Waiting(request))
      BY <1>1, <3>1, WaitingChanges DEF RequestsOK
    <3>4. RoomLeft(ui, req)
      BY <1>1, <3>3, Counts DEF RoomLeft
    <3>5. \A e \in Ids : request[e] = "none" => req[e] = "none"
      BY <1>1, <2>2 DEF RequestsOK
    <3> HIDE DEF req
    <3>6. Whole(switchToLoginVC(isCompleted(ui, c), c, TRUE), req, session')
      BY <1>1, <1>11, <3>2, <3>3, <3>4, <3>5, LogoutWhole DEF Logout
    <3>7. QED
      BY <2>2, <3>6, BecomesWhole DEF Inv, req
  <2>3. QED
    BY <1>11, <2>1, <2>2 DEF Logout
<1>12. CASE SwipeBack
  BY <1>1, <1>12, SwipeWhole, BecomesWhole DEF SwipeBack, Inv
<1>13. CASE Relaunch
  BY <1>1, <1>13, StartWhole, BecomesWhole DEF Relaunch, Inv
<1>14. CASE UNCHANGED vars
  BY <1>1, <1>14 DEF vars, Inv
<1>15. QED
  BY <1>2, <1>3, <1>4, <1>5, <1>6, <1>7, <1>8, <1>9, <1>10, <1>11, <1>12, <1>13, <1>14 DEF Next

-----------------------------------------------------------------------------
(* What holds in every reachable state.                                    *)

(* Inv is an invariant, whatever MaxId and the two switches.               *)
THEOREM Invariance == Spec => []Inv
<1>1. Init => Inv
  BY InitInv
<1>2. Inv /\ [Next]_vars => Inv'
  BY NextInv
<1>3. QED
  BY <1>1, <1>2, PTL DEF Spec

(* Every variable has its type and the stack always has a screen.          *)
THEOREM TypeCorrect == Spec => []TypeOK
<1>1. Inv => TypeOK
  BY DEF Inv, Whole, General, Tree, StackOK, RequestsOK, TypeOK
<1>2. QED
  BY <1>1, Invariance, PTL

(* A coordinator brings one Home at most, with swipes, logouts and late    *)
(* results in any order: whoever has brought one has completed.            *)
THEOREM OneHomeEach == Spec => []OneHomePerCoordinator
<1>1. ASSUME Inv
      PROVE  OneHomePerCoordinator
  <2>1. SUFFICES ASSUME NEW c \in Ids
                 PROVE  Cardinality({h \in Ids : ui.kind[h] = "home" /\ ui.held[h] = c}) <= 1
    BY DEF OneHomePerCoordinator
  <2> DEFINE homes == {h \in Ids : ui.kind[h] = "home" /\ ui.held[h] = c}
  <2>2. HomesOK(ui, request) /\ c # Nobody
    BY <1>1, Names DEF Inv, Whole, General
  <2>3. \A g, h \in homes : g = h
    BY <2>2 DEF HomesOK
  <2>4. CASE homes = {}
    BY <2>4, FS_EmptySet
  <2>5. ASSUME NEW h \in homes
        PROVE  Cardinality(homes) <= 1
    <3>1. homes = {h}
      BY <2>3, <2>5
    <3>2. Cardinality({h}) = 1
      BY FS_Singleton
    <3>3. QED
      BY <3>1, <3>2
  <2>6. QED
    BY <2>4, <2>5
<1>2. QED
  BY <1>1, Invariance, PTL

(* The coordinator of the screen on top.                                   *)
LEMMA TopIsKept ==
  ASSUME Inv
  PROVE  /\ Top = ui.stack[Len(ui.stack)] /\ Len(ui.stack) \in 1 .. Len(ui.stack)
         /\ Top.owner \in Ids
         /\ Alive(ui, Top.owner) <=> Kept(ui, Top.owner)
<1>1. Tree(ui)
  BY DEF Inv, Whole, General
<1>2. /\ Top = ui.stack[Len(ui.stack)] /\ Len(ui.stack) \in 1 .. Len(ui.stack)
      /\ Top.owner \in Ids
  BY TopScreen DEF Top, Last
<1>3. QED
  BY <1>1, <1>2, AliveIsKept

(* Until a Home was shown, every screen on top has its coordinator, even   *)
(* if the user swipes.                                                     *)
THEOREM ServedUntilTheFirstHome == Spec => []ServedUntilHome
<1>1. ASSUME Inv
      PROVE  ServedUntilHome
  <2>1. ServedOK(ui)
    BY <1>1 DEF Inv, Whole, General
  <2>2. HasHome(ui) \/ Kept(ui, Top.owner)
    BY <1>1, <2>1, TopIsKept DEF ServedOK
  <2>3. QED
    BY <1>1, <2>2, TopIsKept DEF ServedUntilHome, TopIsServed, HasHome
<1>2. QED
  BY <1>1, Invariance, PTL

(* Without swipes the user never looks at a screen whose coordinator is    *)
(* gone, with logouts or without.                                          *)
THEOREM ServedWithoutSwipes ==
  ASSUME ~InteractivePop
  PROVE  Spec => []TopIsServed
<1>1. ASSUME Inv
      PROVE  TopIsServed
  <2>1. Buttons(ui)
    BY <1>1 DEF Inv, Whole
  <2>2. QED
    BY <1>1, <2>1, TopIsKept DEF Buttons, TopIsServed
<1>2. QED
  BY <1>1, Invariance, PTL

(* Without swipes a registration coordinator of the Login screen the       *)
(* application started with is alive only while its screen is about.       *)
THEOREM NoLeakWithoutSwipes ==
  ASSUME ~InteractivePop
  PROVE  Spec => []NoRegistrationLeaks
<1>1. ASSUME Inv
      PROVE  NoRegistrationLeaks
  <2>1. SUFFICES ASSUME NEW c \in Ids, ui.kind[c] = "registration", Alive(ui, c),
                        ui.held[ui.held[c]] = App
                 PROVE  OnStack(ui, c)
    BY DEF NoRegistrationLeaks
  <2>2. Buttons(ui) /\ Tree(ui)
    BY <1>1 DEF Inv, Whole, General
  <2>3. Kept(ui, c)
    BY <2>1, <2>2, AliveIsKept
  <2>4. c = ui.stack[Len(ui.stack)].owner
    BY <2>1, <2>2, <2>3 DEF Buttons
  <2>5. Len(ui.stack) \in DOMAIN ui.stack
    BY <1>1, TopScreen
  <2>6. QED
    BY <2>4, <2>5 DEF OnStack
<1>2. QED
  BY <1>1, Invariance, PTL

(* As long as nothing feeds logoutButtonTapped, a Registration screen lies *)
(* on the Login screen that opened it, swipes or not.                      *)
THEOREM RegistrationAboveItsLogin ==
  ASSUME ~LogoutWired
  PROVE  Spec => []RegistrationOnItsLogin
<1>1. ASSUME Inv
      PROVE  RegistrationOnItsLogin
  <2>1. Plain(ui, request, session)
    BY <1>1 DEF Inv, Whole
  <2>2. DOMAIN ui.stack = 1 .. Len(ui.stack)
    BY <1>1, TopScreen
  <2>3. QED
    BY <2>1, <2>2 DEF Plain, RegistrationOnItsLogin
<1>2. QED
  BY <1>1, Invariance, PTL

(* As long as nothing feeds logoutButtonTapped, the map without a session  *)
(* is the work of a failed login.                                          *)
THEOREM MapWithoutSession ==
  ASSUME ~LogoutWired
  PROVE  Spec => []HomeWithoutSessionAfterFailedLogin
<1>1. ASSUME Inv
      PROVE  HomeWithoutSessionAfterFailedLogin
  <2>1. SUFFICES ASSUME Top.kind = "home", ~session
                 PROVE  \E c \in Ids : request[c] = "ended"
    BY DEF HomeWithoutSessionAfterFailedLogin
  <2>2. Plain(ui, request, session)
    BY <1>1 DEF Inv, Whole
  <2>3. HasHome(ui)
    BY <1>1, <2>1, TopIsKept, TopScreen DEF HasHome
  <2>4. QED
    BY <2>1, <2>2, <2>3 DEF Plain
<1>2. QED
  BY <1>1, Invariance, PTL

=============================================================================
