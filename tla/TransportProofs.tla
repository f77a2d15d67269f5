---------------------------- MODULE TransportProofs ----------------------------
(***************************************************************************)
(* For any nodes, any messages and any maps in them: Transport implements  *)
(* Delivery, and only a view change is rejected, for one of two causes.    *)
(***************************************************************************)
EXTENDS Transport, TLAPS

\* No two entries of a map come out under one key.
Distinct(map) == \A j, k \in map : Character(j) = Character(k) => j = k

Characters(map) == \A k \in map : k <= 55295

\* A message is on its way only after its goroutine has sent it.
SenderFirst == \A c \in Calls : server[c] # "none" => sender[c] \in {"waiting", "ok", "failed"}

\* What is signed is a form of the map, which for a map of characters is the map.
SignedForm ==
    \A c \in Calls :
        sender[c] # "idle" /\ Characters(proofs[c]) => signed[c].numbers = proofs[c]

\* Only what the main loop has taken has been looked at.
JudgedTaken == \A c \in Calls : verdict[c] # "none" => server[c] = "taken"

\* A request is in the channel of its receiver, once, until it is taken.
ChannelHolds ==
    \A n \in Nodes :
        /\ \A i \in 1..Len(channel[n]) : server[channel[n][i]] = "buffered"
        /\ \A i, j \in 1..Len(channel[n]) : channel[n][i] = channel[n][j] => i = j
        /\ \A i \in 1..Len(channel[n]) : To[channel[n][i]] = n

\* Only requests are in a channel.
BufferedRequest == \A c \in Calls : server[c] = "buffered" => Kind[c] = "ClientRequest"

TransportInv ==
    /\ TypeOK /\ SenderFirst /\ SignedForm /\ JudgedTaken /\ RejectedForCause
    /\ ChannelHolds /\ BufferedRequest

-----------------------------------------------------------------------------
(* Forms of maps. *)

\* A map without a collision has one form, itself.
LEMMA FormsOfDistinct ==
    ASSUME NEW map, Distinct(map)
    PROVE  Forms(map) = {map}
<1>1. ASSUME NEW form \in Forms(map) PROVE form = map
    <2>1. form \subseteq map
        BY DEF Forms
    <2>2. ASSUME NEW k \in map PROVE k \in form
        <3>1. PICK e \in form : {d \in form : Character(d) = Character(k)} = {e}
            BY DEF Forms
        <3>2. Character(e) = Character(k) /\ e \in map
            BY <2>1, <3>1
        <3>. QED
            BY <3>1, <3>2 DEF Distinct
    <2>. QED
        BY <2>1, <2>2
<1>2. map \in Forms(map)
    <2>1. \A k \in map : {d \in map : Character(d) = Character(k)} = {k}
        BY DEF Distinct
    <2>. QED
        BY <2>1 DEF Forms
<1>. QED
    BY <1>1, <1>2

\* Numbers that are characters do not collide.
LEMMA CharactersDistinct ==
    ASSUME NEW map \in SUBSET Nat, Characters(map)
    PROVE  Distinct(map)
BY DEF Characters, Distinct, Character

\* So there is one thing to sign of a map of characters.
LEMMA OneSignable ==
    ASSUME NEW map \in SUBSET Nat, NEW cast, Characters(map)
    PROVE  Signable(map, cast) = {[numbers |-> map, votes |-> cast]}
<1>1. Forms(map) = {map}
    BY CharactersDistinct, FormsOfDistinct
<1>. QED
    BY <1>1 DEF Signable

\* What is signed is made of numbers and nodes.
LEMMA VotesType ==
    ASSUME TypeOK, NEW c \in Calls
    PROVE  Votes(c) \in SUBSET Nodes
BY TransportAssumption DEF TypeOK, Votes

LEMMA SignableType ==
    ASSUME NEW map \in SUBSET Nat, NEW cast \in SUBSET Nodes
    PROVE  Signable(map, cast) \subseteq [numbers : SUBSET Nat, votes : SUBSET Nodes]
<1>1. Forms(map) \subseteq SUBSET Nat
    BY DEF Forms
<1>. QED
    BY <1>1 DEF Signable

-----------------------------------------------------------------------------
(* The steps. *)

LEMMA TransportInit == Init => TransportInv
<1>. SUFFICES ASSUME Init PROVE TransportInv
    OBVIOUS
<1>1. TypeOK
    BY TransportAssumption DEF Init, TypeOK
<1>2. ChannelHolds
    BY DEF Init, ChannelHolds
<1>. QED
    BY <1>1, <1>2 DEF Init, TransportInv, SenderFirst, SignedForm, JudgedTaken, RejectedForCause,
        BufferedRequest

\* Sign gives a message the form of its map at that time.
LEMMA SignStep ==
    ASSUME TransportInv, NEW c \in Calls, Sign(c)
    PROVE  TransportInv'
<1>1. TypeOK /\ From[c] \in Nodes /\ ProofSets \subseteq SUBSET Nat
    BY TransportAssumption DEF TransportInv
<1>2. PICK numbers \in SUBSET Nat :
         /\ proofs' = [proofs EXCEPT ![c] = numbers]
         /\ \E form \in Signable(numbers, Votes(c)) : signed' = [signed EXCEPT ![c] = form]
    BY <1>1 DEF Sign
<1>3. PICK form \in Signable(numbers, Votes(c)) : signed' = [signed EXCEPT ![c] = form]
    BY <1>2
<1>4. form \in [numbers : SUBSET Nat, votes : SUBSET Nodes]
    BY <1>1, SignableType, VotesType
<1>5. Characters(numbers) => form.numbers = numbers
    BY OneSignable
<1>6. /\ sender[c] = "idle" /\ sender' = [sender EXCEPT ![c] = "dialling"]
      /\ UNCHANGED <<server, redials, decoded, verdict, channel, prepares, messages, down, up>>
    BY DEF Sign
<1>7. inProgress' \in [Nodes -> BOOLEAN]
    BY <1>1 DEF Sign, ChangesView, TypeOK
<1>8. TypeOK'
    BY <1>1, <1>2, <1>3, <1>4, <1>6, <1>7 DEF TypeOK
<1>9. /\ sender'[c] = "dialling" /\ signed'[c] = form /\ proofs'[c] = numbers
      /\ \A d \in Calls \ {c} :
            sender'[d] = sender[d] /\ signed'[d] = signed[d] /\ proofs'[d] = proofs[d]
    BY <1>1, <1>2, <1>3, <1>6 DEF TypeOK
<1>10. server[c] = "none" /\ verdict[c] = "none"
    BY <1>6 DEF TransportInv, SenderFirst, JudgedTaken
<1>11. SenderFirst' /\ JudgedTaken' /\ ChannelHolds' /\ BufferedRequest'
    BY <1>6, <1>9, <1>10 DEF TransportInv, SenderFirst, JudgedTaken, ChannelHolds,
        BufferedRequest
<1>12. SignedForm'
    BY <1>5, <1>9 DEF TransportInv, SignedForm, Characters
<1>13. RejectedForCause'
    BY <1>6, <1>9, <1>10 DEF TransportInv, RejectedForCause
<1>. QED
    BY <1>8, <1>11, <1>12, <1>13 DEF TransportInv

\* A step that moves a goroutine on, and neither signs, judges nor touches a channel.
LEMMA MoveStep ==
    ASSUME TransportInv, TypeOK', UNCHANGED <<proofs, signed, verdict, channel>>,
           \A c \in Calls :
               /\ sender'[c] = "idle" => sender[c] = "idle"
               /\ server'[c] # "none" => sender'[c] \in {"waiting", "ok", "failed"}
               /\ server[c] = "taken" => server'[c] = "taken" /\ decoded'[c] = decoded[c]
               /\ server[c] = "buffered" <=> server'[c] = "buffered"
               /\ sender[c] = "idle" => sender'[c] = "idle"
    PROVE  TransportInv'
<1>1. TypeOK
    BY DEF TransportInv
<1>2. SenderFirst' /\ SignedForm' /\ JudgedTaken' /\ BufferedRequest'
    BY DEF TransportInv, SenderFirst, SignedForm, JudgedTaken, BufferedRequest
<1>3. ChannelHolds'
    <2>1. \A n \in Nodes : \A i \in 1..Len(channel[n]) : channel[n][i] \in Calls
        BY <1>1 DEF TypeOK
    <2>. QED
        BY <2>1 DEF TransportInv, ChannelHolds
<1>4. RejectedForCause'
    BY DEF TransportInv, RejectedForCause, JudgedTaken
<1>. QED
    BY <1>2, <1>3, <1>4 DEF TransportInv

\* The handler of a message that is taken for the first time.
LEMMA HandlesStep ==
    ASSUME TransportInv, NEW n \in Nodes, NEW c \in Calls, Handles(n, c),
           server[c] \in {"blocked", "buffered"}
    PROVE  /\ verdict' \in [Calls -> {"none", "handled", "rejected"}]
           /\ \A d \in Calls \ {c} : verdict'[d] = verdict[d]
           /\ verdict'[c] = "rejected" =>
                 /\ Kind[c] = "ViewChange"
                 /\ (\E k \in proofs[c] : k > 55295) \/ signed[c].votes # decoded[c]
           /\ prepares' \in [Nodes -> SUBSET Nodes] /\ messages' \in [Nodes -> SUBSET Nodes]
           /\ inProgress' \in [Nodes -> BOOLEAN] /\ up' \in [Nodes -> BOOLEAN]
<1>1. TypeOK /\ sender[c] # "idle" /\ From[c] \in Nodes
    BY TransportAssumption DEF TransportInv, SenderFirst
<1>2. CASE /\ verdict' = [verdict EXCEPT ![c] = "handled"]
           /\ \/ HandlePrepare(n, c) \/ HandleViewChange(n, c)
              \/ HandleNewView(n, c) \/ HandleOther(n, c)
    <2>1. /\ prepares' \in [Nodes -> SUBSET Nodes] /\ messages' \in [Nodes -> SUBSET Nodes]
          /\ inProgress' \in [Nodes -> BOOLEAN] /\ up' \in [Nodes -> BOOLEAN]
        <3>1. CASE HandlePrepare(n, c)
            BY <1>1, <3>1 DEF TypeOK, HandlePrepare, Writes
        <3>2. CASE HandleViewChange(n, c)
            BY <1>1, <3>2 DEF TypeOK, HandleViewChange, Writes
        <3>3. CASE HandleNewView(n, c) \/ HandleOther(n, c)
            BY <1>1, <3>3 DEF TypeOK, HandleNewView, HandleOther, voteVars
        <3>. QED
            BY <1>2, <3>1, <3>2, <3>3
    <2>. QED
        BY <1>1, <1>2, <2>1 DEF TypeOK
<1>3. CASE verdict' = [verdict EXCEPT ![c] = "rejected"] /\ RejectViewChange(n, c)
    <2>1. UNCHANGED <<prepares, messages, inProgress, up>> /\ Kind[c] = "ViewChange"
        BY <1>3 DEF RejectViewChange, voteVars
    <2>2. ASSUME \A k \in proofs[c] : k <= 55295, signed[c].votes = decoded[c]
          PROVE  FALSE
        <3>1. Characters(proofs[c]) /\ proofs[c] \in SUBSET Nat
            BY <1>1, <2>2 DEF Characters, TypeOK
        <3>2. Signable(proofs[c], decoded[c]) = {[numbers |-> proofs[c], votes |-> decoded[c]]}
            BY <3>1, OneSignable
        <3>3. signed[c].numbers = proofs[c]
            BY <1>1, <3>1 DEF TransportInv, SignedForm
        <3>4. signed[c] = [numbers |-> proofs[c], votes |-> decoded[c]]
            BY <1>1, <2>2, <3>3 DEF TypeOK
        <3>. QED
            BY <1>3, <3>2, <3>4 DEF RejectViewChange
    <2>3. (\E k \in proofs[c] : k > 55295) \/ signed[c].votes # decoded[c]
        <3>1. \A k \in proofs[c] : k \in Nat
            BY <1>1 DEF TypeOK
        <3>. QED
            BY <2>2, <3>1
    <2>. QED
        BY <1>1, <1>3, <2>1, <2>3 DEF TypeOK
<1>. QED
    BY <1>2, <1>3 DEF Handles

\* A message is taken, from its method or from the channel, and handled.
LEMMA TakenStep ==
    ASSUME TransportInv, NEW n \in Nodes, NEW c \in Calls, Handles(n, c),
           server[c] \in {"blocked", "buffered"},
           server' = [server EXCEPT ![c] = "taken"],
           channel' \in [Nodes -> Seq(Calls)], ChannelHolds',
           UNCHANGED <<senderVars, decoded, down>>
    PROVE  TransportInv'
<1>1. TypeOK
    BY DEF TransportInv
<1>2. /\ verdict' \in [Calls -> {"none", "handled", "rejected"}]
      /\ \A d \in Calls \ {c} : verdict'[d] = verdict[d]
      /\ verdict'[c] = "rejected" =>
            /\ Kind[c] = "ViewChange"
            /\ (\E k \in proofs[c] : k > 55295) \/ signed[c].votes # decoded[c]
      /\ prepares' \in [Nodes -> SUBSET Nodes] /\ messages' \in [Nodes -> SUBSET Nodes]
      /\ inProgress' \in [Nodes -> BOOLEAN] /\ up' \in [Nodes -> BOOLEAN]
    BY HandlesStep
<1>3. UNCHANGED <<sender, redials, proofs, signed, decoded, down>>
    BY DEF senderVars
<1>4. TypeOK'
    BY <1>1, <1>2, <1>3 DEF TypeOK
<1>5. SenderFirst' /\ SignedForm' /\ BufferedRequest'
    BY <1>1, <1>3 DEF TransportInv, SenderFirst, SignedForm, BufferedRequest, TypeOK
<1>6. JudgedTaken'
    BY <1>1, <1>2 DEF TransportInv, JudgedTaken, TypeOK
<1>7. RejectedForCause'
    <2>. SUFFICES ASSUME NEW d \in Calls, verdict'[d] = "rejected"
                  PROVE  /\ Kind[d] = "ViewChange"
                         /\ (\E k \in proofs[d] : k > 55295) \/ signed[d].votes # decoded[d]
        BY <1>3 DEF RejectedForCause
    <2>1. CASE d = c
        BY <1>2, <2>1
    <2>2. CASE d # c
        <3>1. verdict[d] = "rejected"
            BY <1>2, <2>2
        <3>. QED
            BY <3>1 DEF TransportInv, RejectedForCause
    <2>. QED
        BY <2>1, <2>2
<1>. QED
    BY <1>4, <1>5, <1>6, <1>7 DEF TransportInv

\* Every step preserves the invariant.
LEMMA TransportNext == TransportInv /\ [Next]_vars => TransportInv'
<1>. SUFFICES ASSUME TransportInv, [Next]_vars
              PROVE  TransportInv'
    OBVIOUS
<1>1. TypeOK /\ SenderFirst
    BY DEF TransportInv
<1>2. ASSUME NEW n \in Nodes, SetDown(n)
      PROVE  TransportInv'
    <2>1. TypeOK'
        BY <1>1, <1>2 DEF TypeOK, SetDown, senderVars, voteVars
    <2>. QED
        BY <1>1, <1>2, <2>1, MoveStep DEF SetDown, senderVars, SenderFirst
<1>3. ASSUME NEW c \in Calls, Dial(c)
      PROVE  TransportInv'
    <2>1. redials' \in [Calls -> Nat] /\ sender'[c] \in {"dialling", "encoding", "failed"}
        BY <1>1, <1>3 DEF TypeOK, Dial
    <2>2. TypeOK'
        <3>1. sender' \in [Calls -> {"idle", "dialling", "encoding", "waiting", "ok", "failed"}]
            <4>1. sender' = [sender EXCEPT ![c] = sender'[c]]
                BY <1>1, <1>3 DEF TypeOK, Dial
            <4>. QED
                BY <1>1, <2>1, <4>1 DEF TypeOK
        <3>2. UNCHANGED <<prepares, messages, inProgress, server, proofs, signed, decoded,
                          verdict, channel, down, up>>
            BY <1>3 DEF Dial, voteVars
        <3>. QED
            BY <1>1, <2>1, <3>1, <3>2 DEF TypeOK
    <2>3. \A d \in Calls \ {c} : sender'[d] = sender[d]
        BY <1>1, <1>3 DEF TypeOK, Dial
    <2>. QED
        BY <1>1, <1>3, <2>1, <2>2, <2>3, MoveStep DEF Dial, SenderFirst
<1>4. ASSUME NEW c \in Calls, Call(c)
      PROVE  TransportInv'
    <2>1. TypeOK'
        BY <1>1, <1>4, VotesType DEF TypeOK, Call, voteVars
    <2>2. /\ sender[c] = "encoding" /\ sender'[c] = "waiting" /\ server[c] = "none"
          /\ \A d \in Calls \ {c} :
                sender'[d] = sender[d] /\ server'[d] = server[d] /\ decoded'[d] = decoded[d]
        BY <1>1, <1>4 DEF TypeOK, Call, SenderFirst
    <2>. QED
        BY <1>1, <1>4, <2>1, <2>2, MoveStep DEF Call, SenderFirst
<1>5. ASSUME NEW c \in Calls, Returns(c) \/ TimesOut(c)
      PROVE  TransportInv'
    <2>1. TypeOK'
        BY <1>1, <1>5 DEF TypeOK, Returns, TimesOut, voteVars
    <2>2. /\ sender[c] = "waiting" /\ sender'[c] \in {"ok", "failed"}
          /\ \A d \in Calls \ {c} : sender'[d] = sender[d]
        BY <1>1, <1>5 DEF TypeOK, Returns, TimesOut
    <2>. QED
        BY <1>1, <1>5, <2>1, <2>2, MoveStep DEF Returns, TimesOut, SenderFirst
<1>6. ASSUME NEW c \in Calls, Arrives(c)
      PROVE  TransportInv'
    <2>1. TypeOK'
        BY <1>1, <1>6 DEF TypeOK, Arrives, senderVars, voteVars
    <2>2. /\ server[c] = "called" /\ server'[c] \in {"refused", "blocked"}
          /\ \A d \in Calls \ {c} : server'[d] = server[d]
        BY <1>1, <1>6 DEF TypeOK, Arrives
    <2>. QED
        BY <1>1, <1>6, <2>1, <2>2, MoveStep DEF Arrives, senderVars, SenderFirst
<1>7. ASSUME NEW c \in Calls, Buffer(c)
      PROVE  TransportInv'
    <2>. DEFINE n == To[c]
    <2>1. n \in Nodes /\ channel[n] \in Seq(Calls)
        BY <1>1, TransportAssumption DEF TypeOK
    <2>2. /\ server[c] = "blocked" /\ server'[c] = "buffered"
          /\ \A d \in Calls \ {c} : server'[d] = server[d]
          /\ channel'[n] = Append(channel[n], c)
          /\ \A m \in Nodes \ {n} : channel'[m] = channel[m]
        BY <1>1, <1>7, <2>1 DEF TypeOK, Buffer
    <2>3. TypeOK'
        <3>1. channel' \in [Nodes -> Seq(Calls)]
            BY <1>1, <1>7, <2>1 DEF TypeOK, Buffer
        <3>. QED
            BY <1>1, <1>7, <3>1 DEF TypeOK, Buffer, senderVars, voteVars
    <2>4. \A m \in Nodes : \A i \in 1..Len(channel[m]) :
              channel[m][i] \in Calls \ {c}
        BY <1>1, <2>2 DEF TypeOK, TransportInv, ChannelHolds
    <2>5. ChannelHolds'
        <3>1. ASSUME NEW m \in Nodes \ {n}
              PROVE  /\ \A i \in 1..Len(channel'[m]) : server'[channel'[m][i]] = "buffered"
                     /\ \A i, j \in 1..Len(channel'[m]) :
                            channel'[m][i] = channel'[m][j] => i = j
                     /\ \A i \in 1..Len(channel'[m]) : To[channel'[m][i]] = m
            BY <2>2, <2>4 DEF TransportInv, ChannelHolds
        <3>2. /\ Len(channel'[n]) = Len(channel[n]) + 1
              /\ \A i \in 1..Len(channel[n]) : channel'[n][i] = channel[n][i]
              /\ channel'[n][Len(channel[n]) + 1] = c
              /\ Len(channel[n]) \in Nat
            BY <2>1, <2>2
        <3>3. \A i \in 1..Len(channel'[n]) : i \in 1..Len(channel[n]) \/ i = Len(channel[n]) + 1
            BY <3>2
        <3>4. /\ \A i \in 1..Len(channel'[n]) : server'[channel'[n][i]] = "buffered"
              /\ \A i \in 1..Len(channel'[n]) : To[channel'[n][i]] = n
            BY <2>1, <2>2, <2>4, <3>2, <3>3 DEF TransportInv, ChannelHolds
        <3>5. \A i, j \in 1..Len(channel'[n]) : channel'[n][i] = channel'[n][j] => i = j
            <4>1. \A i, j \in 1..Len(channel[n]) : channel[n][i] = channel[n][j] => i = j
                BY <2>1 DEF TransportInv, ChannelHolds
            <4>2. \A i \in 1..Len(channel[n]) : channel[n][i] # c
                BY <2>1, <2>4
            <4>. QED
                BY <3>2, <3>3, <4>1, <4>2
        <3>. QED
            BY <3>1, <3>4, <3>5 DEF ChannelHolds
    <2>6. UNCHANGED <<sender, proofs, signed, decoded, verdict>>
        BY <1>7 DEF Buffer, senderVars
    <2>7. SenderFirst' /\ SignedForm' /\ JudgedTaken' /\ RejectedForCause'
        BY <2>2, <2>6 DEF TransportInv, SenderFirst, SignedForm, JudgedTaken, RejectedForCause
    <2>8. BufferedRequest'
        BY <1>7, <2>2 DEF TransportInv, BufferedRequest, Buffer
    <2>. QED
        BY <2>3, <2>5, <2>7, <2>8 DEF TransportInv
<1>8. ASSUME NEW c \in Calls, Take(c)
      PROVE  TransportInv'
    <2>1. To[c] \in Nodes
        BY TransportAssumption
    <2>2. /\ server[c] = "blocked" /\ Handles(To[c], c)
          /\ server' = [server EXCEPT ![c] = "taken"]
          /\ UNCHANGED <<senderVars, decoded, channel, down>>
        BY <1>8 DEF Take
    <2>3. \A m \in Nodes : \A i \in 1..Len(channel[m]) : channel[m][i] \in Calls \ {c}
        BY <1>1, <2>2 DEF TypeOK, TransportInv, ChannelHolds
    <2>4. ChannelHolds'
        BY <1>1, <2>2, <2>3 DEF TransportInv, ChannelHolds, TypeOK
    <2>5. channel' \in [Nodes -> Seq(Calls)]
        BY <1>1, <2>2 DEF TypeOK
    <2>. QED
        BY <2>1, <2>2, <2>4, <2>5, TakenStep
<1>9. ASSUME NEW n \in Nodes, TakeRequest(n)
      PROVE  TransportInv'
    <2>. DEFINE c == Head(channel[n])
    <2>1. /\ channel[n] \in Seq(Calls) /\ channel[n] # <<>>
          /\ channel' = [channel EXCEPT ![n] = Tail(channel[n])]
          /\ server' = [server EXCEPT ![c] = "taken"] /\ Handles(n, c)
          /\ UNCHANGED <<senderVars, decoded, down>>
        BY <1>1, <1>9 DEF TypeOK, TakeRequest
    <2>2. c \in Calls /\ c = channel[n][1] /\ Len(channel[n]) \in Nat \ {0}
        BY <2>1
    <2>3. server[c] = "buffered" /\ To[c] = n
        BY <2>2 DEF TransportInv, ChannelHolds
    <2>4. channel' \in [Nodes -> Seq(Calls)]
        BY <1>1, <2>1 DEF TypeOK
    <2>5. ChannelHolds'
        <3>1. ASSUME NEW m \in Nodes \ {n}
              PROVE  /\ \A i \in 1..Len(channel'[m]) : server'[channel'[m][i]] = "buffered"
                     /\ \A i, j \in 1..Len(channel'[m]) :
                            channel'[m][i] = channel'[m][j] => i = j
                     /\ \A i \in 1..Len(channel'[m]) : To[channel'[m][i]] = m
            <4>1. channel'[m] = channel[m]
                BY <1>1, <2>1 DEF TypeOK
            <4>2. \A i \in 1..Len(channel[m]) : channel[m][i] \in Calls \ {c}
                BY <1>1, <2>3 DEF TypeOK, TransportInv, ChannelHolds
            <4>3. \A d \in Calls \ {c} : server'[d] = server[d]
                BY <1>1, <2>1 DEF TypeOK
            <4>. QED
                BY <4>1, <4>2, <4>3 DEF TransportInv, ChannelHolds
        <3>2. /\ channel'[n] = Tail(channel[n])
              /\ Len(channel'[n]) = Len(channel[n]) - 1
              /\ \A i \in 1..Len(channel'[n]) :
                    channel'[n][i] = channel[n][i + 1] /\ i + 1 \in 1..Len(channel[n])
            BY <1>1, <2>1, <2>2 DEF TypeOK
        <3>3. \A i \in 1..Len(channel'[n]) :
                 channel[n][i + 1] \in Calls \ {c} /\ server[channel[n][i + 1]] = "buffered"
                 /\ To[channel[n][i + 1]] = n
            <4>1. \A i \in 1..Len(channel'[n]) : i + 1 # 1 /\ 1 \in 1..Len(channel[n])
                BY <2>2, <3>2
            <4>. QED
                BY <2>1, <2>2, <3>2, <4>1 DEF TransportInv, ChannelHolds
        <3>4. \A d \in Calls \ {c} : server'[d] = server[d]
            BY <1>1, <2>1 DEF TypeOK
        <3>5. /\ \A i \in 1..Len(channel'[n]) : server'[channel'[n][i]] = "buffered"
              /\ \A i \in 1..Len(channel'[n]) : To[channel'[n][i]] = n
            BY <3>2, <3>3, <3>4
        <3>6. \A i, j \in 1..Len(channel'[n]) : channel'[n][i] = channel'[n][j] => i = j
            BY <3>2 DEF TransportInv, ChannelHolds
        <3>. QED
            BY <3>1, <3>5, <3>6 DEF ChannelHolds
    <2>. QED
        BY <2>1, <2>2, <2>3, <2>4, <2>5, TakenStep
<1>10. CASE UNCHANGED vars
    <2>1. TypeOK'
        BY <1>1, <1>10 DEF TypeOK, vars, senderVars, voteVars
    <2>. QED
        BY <1>1, <1>10, <2>1, MoveStep DEF vars, senderVars, SenderFirst
<1>. QED
    BY <1>2, <1>3, <1>4, <1>5, <1>6, <1>7, <1>8, <1>9, <1>10, SignStep DEF Next

\* The invariant holds in every behaviour.
LEMMA TransportInvariant == Spec => []TransportInv
BY TransportInit, TransportNext, PTL DEF Spec

\* Whatever the messages, nobody rejects one of an honest node but a view change with a
\* number that is no character, or one whose prepares have grown between Sign and Go.
THEOREM RejectedForCauseHolds == Spec => []RejectedForCause
<1>1. TransportInv => RejectedForCause
    BY DEF TransportInv
<1>. QED
    BY <1>1, TransportInvariant, PTL

-----------------------------------------------------------------------------
(* The refinement. *)

\* In the beginning nothing has been sent.
LEMMA RefinesInit == Init => D!DeliveryInit
BY DEF Init, D!DeliveryInit, Progress, Outcome

\* Steps that Delivery does not see.
LEMMA NotSeen ==
    ASSUME UNCHANGED down,
           \A c \in Calls : Progress(c)' = Progress(c) /\ Outcome(c)' = Outcome(c)
    PROVE  UNCHANGED D!network
BY DEF D!network

\* Steps that move one message on.
LEMMA MoveSeen ==
    ASSUME UNCHANGED down, NEW c \in Calls, NEW from, NEW to,
           Progress(c) = from, Progress(c)' = to,
           \A d \in Calls \ {c} : Progress(d)' = Progress(d),
           \A d \in Calls : Outcome(d)' = Outcome(d)
    PROVE  D!Moves(c, from, to)
BY DEF D!Moves

\* Steps that tell one sender something.
LEMMA ToldSeen ==
    ASSUME UNCHANGED down, NEW c \in Calls, NEW what,
           Outcome(c) = "none", Outcome(c)' = what,
           \A d \in Calls \ {c} : Outcome(d)' = Outcome(d),
           \A d \in Calls : Progress(d)' = Progress(d)
    PROVE  D!Tells(c, what)
BY DEF D!Tells

\* Every step is one of Delivery, or none.
LEMMA RefinesNext ==
    TransportInv /\ TransportInv' /\ [Next]_vars => [D!DeliveryNext]_(D!network)
<1>. SUFFICES ASSUME TransportInv, TransportInv', [Next]_vars
              PROVE  D!DeliveryNext \/ UNCHANGED D!network
    OBVIOUS
<1>1. TypeOK /\ TypeOK' /\ SenderFirst
    BY DEF TransportInv
<1>2. ASSUME NEW c \in Calls, Sign(c)
      PROVE  D!DeliveryNext
    <2>1. /\ sender[c] = "idle" /\ sender'[c] = "dialling"
          /\ server[c] = "none" /\ UNCHANGED <<server, down>>
          /\ \A d \in Calls \ {c} : sender'[d] = sender[d]
        BY <1>1, <1>2 DEF Sign, TypeOK, SenderFirst
    <2>2. /\ Progress(c) = "none" /\ Progress(c)' = "sent"
          /\ \A d \in Calls \ {c} : Progress(d)' = Progress(d)
          /\ \A d \in Calls : Outcome(d)' = Outcome(d)
        BY <2>1 DEF Progress, Outcome
    <2>3. D!Moves(c, "none", "sent")
        BY <2>1, <2>2, MoveSeen
    <2>. QED
        BY <2>3 DEF D!DeliveryNext, D!Send
<1>3. ASSUME NEW c \in Calls, Dial(c)
      PROVE  D!DeliveryNext \/ UNCHANGED D!network
    <2>1. /\ sender[c] = "dialling" /\ sender'[c] \in {"dialling", "encoding", "failed"}
          /\ server[c] = "none" /\ UNCHANGED <<server, down>>
          /\ \A d \in Calls \ {c} : sender'[d] = sender[d]
        BY <1>1, <1>3 DEF Dial, TypeOK, SenderFirst
    <2>2. /\ Progress(c) = "sent"
          /\ \A d \in Calls : Progress(d)' = Progress(d)
          /\ \A d \in Calls \ {c} : Outcome(d)' = Outcome(d)
          /\ Outcome(c) = "none" /\ Outcome(c)' \in {"none", "failed"}
        BY <2>1 DEF Progress, Outcome
    <2>3. CASE Outcome(c)' = "none"
        BY <2>1, <2>2, <2>3, NotSeen
    <2>4. CASE Outcome(c)' = "failed"
        <3>1. D!Tells(c, "failed")
            BY <2>1, <2>2, <2>4, ToldSeen
        <3>. QED
            BY <2>2, <3>1 DEF D!DeliveryNext, D!Fail
    <2>. QED
        BY <2>2, <2>3, <2>4
<1>4. ASSUME NEW c \in Calls, Call(c)
      PROVE  UNCHANGED D!network
    <2>1. /\ sender[c] = "encoding" /\ sender'[c] = "waiting"
          /\ server[c] = "none" /\ server'[c] = "called" /\ UNCHANGED down
          /\ \A d \in Calls \ {c} : sender'[d] = sender[d] /\ server'[d] = server[d]
        BY <1>1, <1>4 DEF Call, TypeOK, SenderFirst
    <2>2. \A d \in Calls : Progress(d)' = Progress(d) /\ Outcome(d)' = Outcome(d)
        BY <2>1 DEF Progress, Outcome
    <2>. QED
        BY <2>1, <2>2, NotSeen
<1>5. ASSUME NEW c \in Calls, Returns(c) \/ TimesOut(c)
      PROVE  D!DeliveryNext
    <2>1. /\ sender[c] = "waiting" /\ sender'[c] \in {"ok", "failed"}
          /\ sender'[c] = "ok" => Done(c)
          /\ UNCHANGED <<server, down>>
          /\ \A d \in Calls \ {c} : sender'[d] = sender[d]
        BY <1>1, <1>5 DEF Returns, TimesOut, TypeOK
    <2>2. /\ Progress(c) # "none"
          /\ \A d \in Calls : Progress(d)' = Progress(d)
          /\ \A d \in Calls \ {c} : Outcome(d)' = Outcome(d)
          /\ Outcome(c) = "none" /\ Outcome(c)' = sender'[c]
        BY <2>1 DEF Progress, Outcome
    <2>3. CASE sender'[c] = "ok"
        <3>1. server[c] = "taken" \/ (server[c] = "buffered" /\ Kind[c] = "ClientRequest")
            BY <1>1, <2>1, <2>3 DEF Done, TransportInv, BufferedRequest
        <3>2. \/ Progress(c) = "handled"
              \/ Kind[c] = "ClientRequest" /\ Progress(c) = "accepted"
            BY <3>1 DEF Progress
        <3>3. D!Tells(c, "ok")
            BY <2>1, <2>2, <2>3, ToldSeen
        <3>. QED
            BY <3>2, <3>3 DEF D!DeliveryNext, D!Succeed
    <2>4. CASE sender'[c] = "failed"
        <3>1. D!Tells(c, "failed")
            BY <2>1, <2>2, <2>4, ToldSeen
        <3>. QED
            BY <2>2, <3>1 DEF D!DeliveryNext, D!Fail
    <2>. QED
        BY <2>1, <2>3, <2>4
<1>6. ASSUME NEW c \in Calls, Arrives(c)
      PROVE  D!DeliveryNext \/ UNCHANGED D!network
    <2>1. /\ sender[c] # "idle" /\ server[c] = "called" /\ UNCHANGED <<sender, down>>
          /\ server'[c] = IF down[To[c]] THEN "refused" ELSE "blocked"
          /\ \A d \in Calls \ {c} : server'[d] = server[d]
        BY <1>1, <1>6 DEF Arrives, Refuses, TypeOK, SenderFirst, senderVars
    <2>2. /\ Progress(c) = "sent"
          /\ \A d \in Calls \ {c} : Progress(d)' = Progress(d)
          /\ \A d \in Calls : Outcome(d)' = Outcome(d)
        BY <2>1 DEF Progress, Outcome
    <2>3. CASE down[To[c]]
        <3>1. Progress(c)' = Progress(c)
            BY <2>1, <2>3 DEF Progress
        <3>. QED
            BY <2>1, <2>2, <3>1, NotSeen
    <2>4. CASE ~down[To[c]]
        <3>1. Progress(c)' = "accepted"
            BY <2>1, <2>4 DEF Progress
        <3>2. D!Moves(c, "sent", "accepted")
            BY <2>1, <2>2, <3>1, MoveSeen
        <3>. QED
            BY <2>4, <3>2 DEF D!DeliveryNext, D!Accept
    <2>. QED
        BY <2>3, <2>4
<1>7. ASSUME NEW c \in Calls, Buffer(c)
      PROVE  UNCHANGED D!network
    <2>1. /\ server[c] = "blocked" /\ server'[c] = "buffered" /\ UNCHANGED <<sender, down>>
          /\ \A d \in Calls \ {c} : server'[d] = server[d]
        BY <1>1, <1>7 DEF Buffer, TypeOK, senderVars
    <2>2. \A d \in Calls : Progress(d)' = Progress(d) /\ Outcome(d)' = Outcome(d)
        BY <2>1 DEF Progress, Outcome
    <2>. QED
        BY <2>1, <2>2, NotSeen
<1>8. ASSUME NEW c \in Calls, server[c] \in {"blocked", "buffered"},
              server' = [server EXCEPT ![c] = "taken"], UNCHANGED <<sender, down>>
      PROVE  D!DeliveryNext
    <2>1. /\ server'[c] = "taken"
          /\ \A d \in Calls \ {c} : server'[d] = server[d]
        BY <1>1, <1>8 DEF TypeOK
    <2>2. /\ Progress(c) = "accepted" /\ Progress(c)' = "handled"
          /\ \A d \in Calls \ {c} : Progress(d)' = Progress(d)
          /\ \A d \in Calls : Outcome(d)' = Outcome(d)
        BY <1>8, <2>1 DEF Progress, Outcome
    <2>3. D!Moves(c, "accepted", "handled")
        BY <1>8, <2>2, MoveSeen
    <2>. QED
        BY <2>3 DEF D!DeliveryNext, D!Handle
<1>9. ASSUME NEW c \in Calls, Take(c)
      PROVE  D!DeliveryNext
    BY <1>8, <1>9 DEF Take, senderVars
<1>10. ASSUME NEW n \in Nodes, TakeRequest(n)
      PROVE  D!DeliveryNext
    <2>1. Head(channel[n]) \in Calls /\ server[Head(channel[n])] = "buffered"
        <3>1. channel[n] \in Seq(Calls) /\ channel[n] # <<>>
            BY <1>1, <1>10 DEF TypeOK, TakeRequest
        <3>2. Head(channel[n]) = channel[n][1] /\ 1 \in 1..Len(channel[n])
            BY <3>1
        <3>. QED
            BY <3>1, <3>2 DEF TransportInv, ChannelHolds
    <2>. QED
        BY <1>8, <1>10, <2>1 DEF TakeRequest, senderVars
<1>11. ASSUME NEW n \in Nodes, SetDown(n)
      PROVE  D!DeliveryNext
    <2>1. /\ down' = [down EXCEPT ![n] = ~@]
          /\ UNCHANGED <<sender, server>>
        BY <1>11 DEF SetDown, senderVars
    <2>2. \A c \in Calls : Progress(c)' = Progress(c) /\ Outcome(c)' = Outcome(c)
        BY <2>1 DEF Progress, Outcome
    <2>. QED
        BY <2>1, <2>2 DEF D!DeliveryNext, D!SetDown
<1>12. CASE UNCHANGED <<sender, server, down>>
    <2>1. \A c \in Calls : Progress(c)' = Progress(c) /\ Outcome(c)' = Outcome(c)
        BY <1>12 DEF Progress, Outcome
    <2>. QED
        BY <1>12, <2>1, NotSeen
<1>13. UNCHANGED vars => UNCHANGED <<sender, server, down>>
    BY DEF vars, senderVars
<1>. QED
    BY <1>2, <1>3, <1>4, <1>5, <1>6, <1>7, <1>9, <1>10, <1>11, <1>12, <1>13 DEF Next

\* Whatever the nodes and the messages, the goroutines, dials, timeouts and channels
\* behind a broadcast are the network the PBFT modules are written for.
THEOREM RefinesDeliveryHolds == Spec => RefinesDelivery
<1>1. Init => D!DeliveryInit
    BY RefinesInit
<1>2. TransportInv /\ TransportInv' /\ [Next]_vars => [D!DeliveryNext]_(D!network)
    BY RefinesNext
<1>. QED
    BY <1>1, <1>2, TransportInvariant, PTL DEF Spec, RefinesDelivery, D!DeliverySpec

=============================================================================
