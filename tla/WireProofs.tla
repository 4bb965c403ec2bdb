------------------------------- MODULE WireProofs ------------------------------
(***************************************************************************)
(* Proofs about Wire: whatever list of accounts a client may send, one     *)
(* that the program accepts has each account in its role; the IDL's lists  *)
(* are accepted; names come back; what is read is what was written.        *)
(***************************************************************************)
EXTENDS Wire, TLAPS

-------------------------------------------------------------------------------
(***************************************************************************)
(* The tables.                                                             *)
(***************************************************************************)

\* Each of the seven contexts is a sequence.
LEMMA ContextIsSeq ==
  ASSUME NEW ix \in Instructions
  PROVE  /\ Len(Context[ix]) \in Nat \ {0}
         /\ DOMAIN Context[ix] = 1..Len(Context[ix])
  <1>1. CASE ix = "init_config"
    BY <1>1 DEF Context, InitConfig
  <1>2. CASE ix = "oracle_bind_pumpfun_launch"
    BY <1>2 DEF Context, OracleBindPumpfunLaunch
  <1>3. CASE ix = "mint_kol_nft"
    BY <1>3 DEF Context, MintKolNft
  <1>4. CASE ix = "take_throne"
    BY <1>4 DEF Context, TakeThrone
  <1>5. CASE ix = "settle_throne"
    BY <1>5 DEF Context, SettleThrone
  <1>6. CASE ix = "commit_distribution_root"
    BY <1>6 DEF Context, CommitDistributionRoot
  <1>7. CASE ix = "claim_holder_fees"
    BY <1>7 DEF Context, ClaimHolderFees
  <1>q. QED
    BY <1>1, <1>2, <1>3, <1>4, <1>5, <1>6, <1>7 DEF Instructions

\* A field is tied itself, or the address of a tied one is computed from it, or
\* its type leaves one account, or it is left open, or it is the only signer.
FieldPinned(ix, i) ==
  \/ Context[ix][i].tied
  \/ Context[ix][i].type = "Program"
  \/ \E j \in DOMAIN Context[ix] :
       Context[ix][j].tied /\ Context[ix][i].role \in Context[ix][j].from
  \/ <<ix, Context[ix][i].role>> \in LeftOpen
  \/ /\ i = 1
     /\ Context[ix][i].type = "Signer"
     /\ \A j \in DOMAIN Context[ix] :
          Context[ix][j].type \in {"Init", "InitSigned"} => Context[ix][j].role # "nft_mint"

USE DEF Field, Signs, Calls, Opens, OpensSigned, Reads, Moves, Takes, TakesMut

\* Every field of the seven structs is pinned down by something.
LEMMA AllPinned ==
  ASSUME NEW ix \in Instructions, NEW i \in DOMAIN Context[ix]
  PROVE  FieldPinned(ix, i)
  <1>1. CASE ix = "init_config"
    BY <1>1 DEF Context, InitConfig, FieldPinned
  <1>2. CASE ix = "oracle_bind_pumpfun_launch"
    BY <1>2 DEF Context, OracleBindPumpfunLaunch, FieldPinned, LeftOpen
  <1>3. CASE ix = "mint_kol_nft"
    BY <1>3 DEF Context, MintKolNft, FieldPinned, LeftOpen
  <1>4. CASE ix = "take_throne"
    BY <1>4 DEF Context, TakeThrone, FieldPinned, LeftOpen
  <1>5. CASE ix = "settle_throne"
    BY <1>5 DEF Context, SettleThrone, FieldPinned, LeftOpen
  <1>6. CASE ix = "commit_distribution_root"
    BY <1>6 DEF Context, CommitDistributionRoot, FieldPinned
  <1>7. CASE ix = "claim_holder_fees"
    BY <1>7 DEF Context, ClaimHolderFees, FieldPinned
  <1>q. QED
    BY <1>1, <1>2, <1>3, <1>4, <1>5, <1>6, <1>7 DEF Instructions

-------------------------------------------------------------------------------
(***************************************************************************)
(* The inductive invariant: the fields before `pos` have passed the stage  *)
(* that the call is in, and all fields have passed the stages before it.   *)
(***************************************************************************)
Fits(i)   == TypeFits(Struct[i], Sent(i))
Opened(i) == IsInit(Struct[i]) => Tied(i)
Placed(i) == ~IsInit(Struct[i]) => Tied(i)

Passed(s, i) ==
  CASE s = "take"  -> Fits(i)
    [] s = "open"  -> Opened(i)
    [] s = "check" -> Placed(i)

StagesBefore ==
  CASE stage \in {"start", "take"} -> {}
    [] stage = "open"              -> {"take"}
    [] stage = "check"             -> {"take", "open"}
    [] stage = "end"               -> {"take", "open", "check"}

CallInv ==
  /\ task.ix \in Instructions
  /\ pos \in Nat \ {0}
  /\ stage \in {"start", "take", "open", "check", "end"}
  /\ stage # "start" => Signers \subseteq CanSign
  /\ \A s \in StagesBefore, i \in DOMAIN Struct : Passed(s, i)
  /\ stage \in {"take", "open", "check"} => \A i \in 1..pos - 1 : Passed(stage, i)
  /\ verdict = "Ok" => stage = "end"

IInv == task.job = "call" => CallInv

\* A task that is a call has one of the seven instructions.
LEMMA CallsHaveContext ==
  ASSUME task \in CallTasks \cup ReadTasks \cup NameTasks, task.job = "call"
  PROVE  task.ix \in Instructions
  <1>1. task \notin ReadTasks /\ task \notin NameTasks
    BY DEF ReadTasks, NameTasks
  <1>2. task \in CallTasks
    BY <1>1
  <1>3. \/ \E c \in DOMAIN AccountList, ix \in Instructions :
             task = Call(c, ix, AccountList[c][ix], FALSE)
        \/ \E m \in Mistaken : task = Call("idl", m.ix, m.list, TRUE)
    BY <1>2 DEF CallTasks, ClientCalls
  <1> QED
    BY <1>3, MistakenAssumption DEF Call

\* The invariant holds before anything has been checked.
LEMMA InitEstablishes == Init => IInv
  <1> SUFFICES ASSUME Init, task.job = "call" PROVE CallInv
    BY DEF IInv
  <1>1. task.ix \in Instructions
    BY CallsHaveContext DEF Init
  <1>2. stage = "start" /\ pos = 1 /\ verdict = "None"
    BY DEF Init
  <1> QED
    BY <1>1, <1>2 DEF CallInv, StagesBefore

\* What a field has passed depends on the task alone.
LEMMA PassedStays ==
  ASSUME task' = task
  PROVE  /\ \A s, i : Passed(s, i)' <=> Passed(s, i)
         /\ Struct' = Struct /\ Signers' = Signers /\ CanSign' = CanSign
  BY DEF Passed, Fits, Opened, Placed, TypeFits, TypeOf, Tied, IsInit, Struct, Sent,
         Signers, CanSign, Payer, ToBeOpened

\* A stage that goes through the fields: with the field at hand, those passed are
\* one more, and after the last they are all.
LEMMA OneMore ==
  ASSUME CallInv, NEW s \in {"take", "open", "check"}, stage = s,
         NEW result, result = "Ok" => Passed(s, pos),
         NEW next, next = (CASE s = "take"  -> "open"
                             [] s = "open"  -> "check"
                             [] s = "check" -> "end"),
         Proceed(result, Len(Struct), next), verdict = "None", task' = task
  PROVE  CallInv'
  <1>1. /\ \A t, i : Passed(t, i)' <=> Passed(t, i)
        /\ Struct' = Struct /\ Signers' = Signers /\ CanSign' = CanSign
    BY PassedStays
  <1>2. Len(Struct) \in Nat \ {0} /\ DOMAIN Struct = 1..Len(Struct)
    BY ContextIsSeq DEF CallInv, Struct
  <1>3. task'.ix \in Instructions /\ Signers \subseteq CanSign /\ pos \in Nat \ {0}
    BY DEF CallInv
  <1>4. CASE result # "Ok"
    <2>1. verdict' = result /\ stage' = stage /\ pos' = pos
      BY <1>4 DEF Proceed
    <2>2. StagesBefore' = StagesBefore
      BY <2>1 DEF StagesBefore
    <2> QED
      BY <1>1, <1>3, <1>4, <2>1, <2>2 DEF CallInv
  <1>5. CASE result = "Ok" /\ pos < Len(Struct)
    <2>1. verdict' = verdict /\ stage' = stage /\ pos' = pos + 1
      BY <1>5 DEF Proceed
    <2>2. StagesBefore' = StagesBefore
      BY <2>1 DEF StagesBefore
    <2>3. \A i \in 1..pos' - 1 : Passed(s, i)
      <3> SUFFICES ASSUME NEW i \in 1..pos' - 1 PROVE Passed(s, i)
        OBVIOUS
      <3>1. i \in 1..pos - 1 \/ i = pos
        BY <1>3, <2>1
      <3> QED
        BY <1>5, <3>1 DEF CallInv
    <2> QED
      BY <1>1, <1>3, <2>1, <2>2, <2>3 DEF CallInv
  <1>6. CASE result = "Ok" /\ ~(pos < Len(Struct))
    <2>1. stage' = next /\ pos' = 1 /\ (verdict' = "Ok" => stage' = "end")
      BY <1>6 DEF Proceed
    <2>2. \A i \in DOMAIN Struct : Passed(s, i)
      <3> SUFFICES ASSUME NEW i \in DOMAIN Struct PROVE Passed(s, i)
        OBVIOUS
      <3>1. i \in 1..pos - 1 \/ i = pos
        BY <1>2, <1>3, <1>6
      <3> QED
        BY <1>6, <3>1 DEF CallInv
    <2>3. StagesBefore' = StagesBefore \cup {s} /\ stage' \in {"open", "check", "end"}
      BY <2>1 DEF StagesBefore
    <2>4. \A t \in StagesBefore', i \in DOMAIN Struct : Passed(t, i)
      BY <2>2, <2>3 DEF CallInv
    <2>5. \A i \in 1..pos' - 1 : Passed(stage', i)
      BY <2>1
    <2> QED
      BY <1>1, <1>3, <2>1, <2>3, <2>4, <2>5 DEF CallInv
  <1> QED
    BY <1>4, <1>5, <1>6

\* Every step of a call keeps the invariant, and the other tasks are not calls.
LEMMA NextKeeps == IInv /\ [Next]_vars => IInv'
  <1> SUFFICES ASSUME IInv, [Next]_vars, task'.job = "call" PROVE CallInv'
    BY DEF IInv
  <1>1. CASE UNCHANGED vars
    <2>1. task' = task /\ stage' = stage /\ pos' = pos /\ verdict' = verdict
      BY <1>1 DEF vars
    <2>2. CallInv /\ StagesBefore' = StagesBefore
      BY <2>1 DEF IInv, StagesBefore
    <2> QED
      BY <2>1, <2>2, PassedStays DEF CallInv
  <1>2. CASE Next
    <2>1. task' = task
      BY <1>2 DEF Next, Submit, TakeAccount, OpenAccount, CheckAccount, Fetch, Identify,
                  ReadField, Finish, PackName, UnpackName
    <2>2. CallInv
      BY <2>1 DEF IInv
    <2>3. Submit \/ TakeAccount \/ OpenAccount \/ CheckAccount
      BY <1>2, <2>1 DEF Next, Fetch, Identify, ReadField, Finish, PackName, UnpackName, At
    <2>4. CASE Submit
      <3>1. /\ stage = "start" /\ verdict = "None" /\ pos \in Nat \ {0}
            /\ Proceed(SubmitResult, 1, "take")
        BY <2>2, <2>4 DEF Submit, At, CallInv
      <3>2. CASE SubmitResult = "Ok"
        <4>1. Signers \subseteq CanSign
          BY <3>2 DEF SubmitResult
        <4>2. \/ stage' = "start" /\ pos' \in Nat \ {0} /\ verdict' = verdict
              \/ stage' = "take" /\ pos' = 1 /\ verdict' = verdict
          BY <3>1, <3>2 DEF Proceed
        <4>3. StagesBefore' = {}
          BY <4>2 DEF StagesBefore
        <4> QED
          BY <2>1, <2>2, <3>1, <4>1, <4>2, <4>3, PassedStays DEF CallInv
      <3>3. CASE SubmitResult # "Ok"
        <4>1. verdict' # "Ok" /\ stage' = stage /\ pos' = pos
          BY <3>1, <3>3 DEF Proceed
        <4>2. StagesBefore' = {}
          BY <3>1, <4>1 DEF StagesBefore
        <4> QED
          BY <2>1, <2>2, <3>1, <4>1, <4>2, PassedStays DEF CallInv
      <3> QED
        BY <3>2, <3>3
    <2>5. CASE TakeAccount
      <3>1. /\ stage = "take" /\ verdict = "None"
            /\ Proceed(TakeResult, Len(Struct), "open")
        BY <2>5 DEF TakeAccount, At
      <3>2. TakeResult = "Ok" => Passed("take", pos)
        BY DEF TakeResult, Passed, Fits, ThisField
      <3> QED
        BY <2>1, <2>2, <3>1, <3>2, OneMore
    <2>6. CASE OpenAccount
      <3>1. /\ stage = "open" /\ verdict = "None"
            /\ Proceed(OpenResult, Len(Struct), "check")
        BY <2>6 DEF OpenAccount, At
      <3>2. OpenResult = "Ok" => Passed("open", pos)
        BY DEF OpenResult, Passed, Opened, ThisField
      <3> QED
        BY <2>1, <2>2, <3>1, <3>2, OneMore
    <2>7. CASE CheckAccount
      <3>1. /\ stage = "check" /\ verdict = "None"
            /\ Proceed(CheckResult, Len(Struct), "end")
        BY <2>7 DEF CheckAccount, At
      <3>2. CheckResult = "Ok" => Passed("check", pos)
        BY DEF CheckResult, Passed, Placed, ThisField
      <3> QED
        BY <2>1, <2>2, <3>1, <3>2, OneMore
    <2> QED
      BY <2>3, <2>4, <2>5, <2>6, <2>7
  <1> QED
    BY <1>1, <1>2

\* With every field passed, each account is in its role: a tied field or a program
\* admits no other, and the rest are pinned by the fields computed from them.
LEMMA InvImplies == IInv => AcceptedAsMeant
  <1> SUFFICES ASSUME IInv, task.job = "call", verdict = "Ok", NEW i \in DOMAIN Struct,
                      <<task.ix, Struct[i].role>> \notin LeftOpen
               PROVE  Sent(i) = Struct[i].role
    BY DEF AcceptedAsMeant
  <1>1. CallInv /\ stage = "end"
    BY DEF IInv, CallInv
  <1>2. task.ix \in Instructions /\ Signers \subseteq CanSign
    BY <1>1 DEF CallInv
  <1>3. \A j \in DOMAIN Struct : Fits(j) /\ Tied(j)
    <2> SUFFICES ASSUME NEW j \in DOMAIN Struct PROVE Fits(j) /\ Tied(j)
      OBVIOUS
    <2>1. Passed("take", j) /\ Passed("open", j) /\ Passed("check", j)
      BY <1>1 DEF CallInv, StagesBefore
    <2> QED
      BY <2>1 DEF Passed, Opened, Placed
  <1>4. FieldPinned(task.ix, i)
    BY <1>2, AllPinned DEF Struct
  <1>5. CASE Struct[i].tied
    BY <1>3, <1>5 DEF Tied
  <1>6. CASE Struct[i].type = "Program"
    BY <1>3, <1>6 DEF Fits, TypeFits
  <1>7. CASE \E j \in DOMAIN Struct : Struct[j].tied /\ Struct[i].role \in Struct[j].from
    BY <1>3, <1>7 DEF Tied
  <1>8. CASE /\ i = 1 /\ Struct[i].type = "Signer"
             /\ \A j \in DOMAIN Struct :
                  Struct[j].type \in {"Init", "InitSigned"} => Struct[j].role # "nft_mint"
    <2>1. Sent(1) \in CanSign
      BY <1>2, <1>3, <1>8 DEF Fits, TypeFits
    <2>2. "nft_mint" \notin ToBeOpened
      BY <1>8, <1>2, ContextIsSeq DEF ToBeOpened, Range, Struct
    <2> QED
      BY <1>8, <2>1, <2>2 DEF CanSign, Payer
  <1> QED
    BY <1>4, <1>5, <1>6, <1>7, <1>8 DEF FieldPinned, Struct

\* Whatever lists the clients come to send, with however many mistakes in them: a
\* list the program accepts has each account in its role.
THEOREM WireAcceptedAsMeant == Spec => []AcceptedAsMeant
  <1>1. Init => IInv
    BY InitEstablishes
  <1>2. IInv /\ [Next]_vars => IInv'
    BY NextKeeps
  <1>3. IInv => AcceptedAsMeant
    BY InvImplies
  <1> QED
    BY <1>1, <1>2, <1>3, PTL DEF Spec

-------------------------------------------------------------------------------
(***************************************************************************)
(* Names.                                                                  *)
(***************************************************************************)

\* A text is a sequence of bytes.
LEMMA TextsAreSequences ==
  ASSUME NEW text \in Texts
  PROVE  /\ Len(text) \in Nat
         /\ text \in [1..Len(text) -> Letters \cup {Nul}]
  <1>1. PICK n \in 0..NameLen + 1 : text \in [1..n -> Letters \cup {Nul}]
    BY DEF Texts
  <1>2. n \in Nat
    BY <1>1, NameAssumption
  <1>3. Len(text) = n
    BY <1>1, <1>2
  <1> QED
    BY <1>1, <1>2, <1>3

\* The end of a text without zeroes can be read off its packed form.
LEMMA PackedEnd ==
  ASSUME NEW text \in Texts, Len(text) <= NameLen, Nul \notin Range(text)
  PROVE  /\ DOMAIN PackedName(text) = 1..NameLen
         /\ {i \in 1..NameLen : PackedName(text)[i] # Nul} = 1..Len(text)
         /\ {i \in 1..NameLen : PackedName(text)[i] = Nul} = Len(text) + 1..NameLen
  <1>1. Len(text) \in Nat /\ text \in [1..Len(text) -> Letters \cup {Nul}]
    BY TextsAreSequences
  <1>2. \A i \in 1..Len(text) : text[i] # Nul
    BY <1>1 DEF Range
  <1> QED
    BY <1>1, <1>2, NameAssumption DEF PackedName

\* The greatest and the least of an interval.
LEMMA Ends ==
  ASSUME NEW m \in Nat, NEW n \in Nat, m <= n
  PROVE  Max(m..n) = n /\ Min(m..n) = m
  <1>1. n \in m..n /\ \A y \in m..n : n >= y
    OBVIOUS
  <1>2. m \in m..n /\ \A y \in m..n : m =< y
    OBVIOUS
  <1> QED
    BY <1>1, <1>2 DEF Max, Min

\* Cut to the length it had, a packed text is the text.
LEMMA PackedPrefix ==
  ASSUME NEW text \in Texts, Len(text) <= NameLen
  PROVE  SubSeq(PackedName(text), 1, Len(text)) = text
  <1>1. Len(text) \in Nat /\ text \in [1..Len(text) -> Letters \cup {Nul}]
    BY TextsAreSequences
  <1>2. \A i \in 1..Len(text) : PackedName(text)[i] = text[i]
    BY <1>1, NameAssumption DEF PackedName
  <1>3. SubSeq(PackedName(text), 1, Len(text)) = [i \in 1..Len(text) |-> PackedName(text)[i]]
    BY <1>1, NameAssumption DEF PackedName
  <1> QED
    BY <1>1, <1>2, <1>3

\* Both ways of reading a name undo the packing.
LEMMA UnpackPacked ==
  ASSUME NEW text \in Texts, Len(text) <= NameLen, Nul \notin Range(text)
  PROVE  /\ TrimmedName(PackedName(text)) = text
         /\ CutName(PackedName(text)) = text
  <1> DEFINE bytes == PackedName(text)
             used == {i \in 1..NameLen : bytes[i] # Nul}
             zeroes == {i \in 1..NameLen : bytes[i] = Nul}
  <1>1. Len(text) \in Nat /\ NameLen \in Nat
    BY TextsAreSequences, NameAssumption
  <1>2. DOMAIN bytes = 1..NameLen /\ used = 1..Len(text) /\ zeroes = Len(text) + 1..NameLen
    BY PackedEnd DEF bytes, used, zeroes
  <1> HIDE DEF bytes, used, zeroes
  <1>3. (IF used = {} THEN 0 ELSE Max(used)) = Len(text)
    <2>1. CASE Len(text) = 0
      BY <1>1, <1>2, <2>1
    <2>2. CASE Len(text) # 0
      <3>1. used # {} /\ 1 <= Len(text)
        BY <1>1, <1>2, <2>2
      <3>2. Max(used) = Len(text)
        BY <1>1, <1>2, <3>1, Ends
      <3> QED
        BY <3>1, <3>2
    <2> QED
      BY <2>1, <2>2
  <1>4. (IF zeroes = {} THEN NameLen ELSE Min(zeroes) - 1) = Len(text)
    <2>1. CASE Len(text) = NameLen
      BY <1>1, <1>2, <2>1
    <2>2. CASE Len(text) # NameLen
      <3>1. zeroes # {} /\ Len(text) + 1 <= NameLen /\ Len(text) + 1 \in Nat
        BY <1>1, <1>2, <2>2
      <3>2. Min(zeroes) = Len(text) + 1
        BY <1>1, <1>2, <3>1, Ends
      <3> QED
        BY <1>1, <3>1, <3>2
    <2> QED
      BY <2>1, <2>2
  <1>5. SubSeq(bytes, 1, Len(text)) = text
    BY PackedPrefix DEF bytes
  <1> QED
    BY <1>2, <1>3, <1>4, <1>5 DEF TrimmedName, CutName, bytes, used, zeroes

\* What is known of a name on its way.
NameInv ==
  task.job = "name" =>
    /\ task.text \in Texts
    /\ pos = 1
    /\ stage \in {"start", "unpack", "end"}
    /\ stage # "start" => Len(task.text) <= NameLen
    /\ stage = "unpack" => got = PackedName(task.text)
    /\ stage = "end" => got \in {TrimmedName(PackedName(task.text)),
                                 CutName(PackedName(task.text))}
    /\ verdict = "Ok" => stage = "end"

\* A name starts as a text.
LEMMA NameInitEstablishes == Init => NameInv
  <1> SUFFICES ASSUME Init, task.job = "name" PROVE task.text \in Texts
    BY DEF Init, NameInv
  <1>1. task \notin ReadTasks
    BY DEF ReadTasks
  <1>2. task \notin CallTasks
    BY DEF CallTasks, ClientCalls, Call
  <1> QED
    BY <1>1, <1>2 DEF Init, NameTasks

\* Every step keeps it.
LEMMA NameNextKeeps == NameInv /\ [Next]_vars => NameInv'
  <1> SUFFICES ASSUME NameInv, [Next]_vars, task'.job = "name" PROVE NameInv'
    BY DEF NameInv
  <1>1. CASE UNCHANGED vars
    BY <1>1 DEF vars, NameInv, PackedName, TrimmedName, CutName
  <1>2. CASE PackName
    <2>1. stage = "start" /\ verdict = "None" /\ pos = 1 /\ task' = task
      BY <1>2 DEF PackName, At, NameInv
    <2>2. task.text \in Texts /\ Len(task.text) \in Nat
      BY <2>1, TextsAreSequences DEF NameInv
    <2>3. CASE Len(task.text) > NameLen
      BY <1>2, <2>1, <2>2, <2>3 DEF PackName, Proceed, NameInv
    <2>4. CASE Len(task.text) <= NameLen
      <3>1. ~(Len(task.text) > NameLen)
        BY <2>2, <2>4, NameAssumption
      <3>2. pos' = 1 /\ stage' = "unpack" /\ verdict' = verdict
        BY <1>2, <2>1, <3>1 DEF PackName, Proceed
      <3>3. got' = PackedName(task.text)
        BY <1>2, <3>1 DEF PackName
      <3>4. got' = PackedName(task'.text)
        BY <2>1, <3>3
      <3> QED
        BY <2>1, <2>2, <2>4, <3>2, <3>4 DEF NameInv
    <2> QED
      BY <2>2, <2>3, <2>4, NameAssumption
  <1>3. CASE UnpackName
    <2>1. stage = "unpack" /\ verdict = "None" /\ pos = 1 /\ task' = task
      BY <1>3 DEF UnpackName, At, NameInv
    <2>2. pos' = 1 /\ stage' = "end"
      BY <1>3, <2>1 DEF UnpackName, Proceed
    <2>3. got = PackedName(task.text)
      BY <2>1 DEF NameInv
    <2>4. got' \in {TrimmedName(PackedName(task.text)), CutName(PackedName(task.text))}
      BY <1>3, <2>3 DEF UnpackName
    <2>5. got' \in {TrimmedName(PackedName(task'.text)), CutName(PackedName(task'.text))}
      BY <2>1, <2>4
    <2> QED
      BY <2>1, <2>2, <2>5 DEF NameInv
  <1>4. CASE Next /\ ~PackName /\ ~UnpackName
    BY <1>4 DEF Next, Submit, TakeAccount, OpenAccount, CheckAccount, Fetch, Identify,
                ReadField, Finish, At
  <1> QED
    BY <1>1, <1>2, <1>3, <1>4 DEF Next

\* A name of any length that fits, without zero bytes, comes back whole from every
\* reader.
THEOREM WireNamesComeBack == Spec => []NamesComeBack
  <1>1. NameInv => NamesComeBack
    BY UnpackPacked DEF NameInv, NamesComeBack
  <1> QED
    BY <1>1, NameInitEstablishes, NameNextKeeps, PTL DEF Spec

-------------------------------------------------------------------------------
(***************************************************************************)
(* The IDL's lists.                                                        *)
(***************************************************************************)

\* An entry of a list names the account of the field with the same number, with
\* the rights it needs, and nobody signs but the payer and a new mint.
EntryMatches(struct, list, i) ==
  /\ list[i].account = struct[i].role
  /\ struct[i].mut => list[i].writable
  /\ struct[i].type \in {"Init", "InitSigned"} => struct[i].mut
  /\ struct[i].type \in {"Signer", "InitSigned"} => list[i].signer
  /\ list[i].signer =>
       i = 1 \/ (struct[i].type = "InitSigned" /\ struct[i].role = "nft_mint")
  /\ \/ struct[i].type \in {"Signer", "Program", "Unchecked", "Init", "InitSigned"}
     \/ /\ struct[i].role \in DOMAIN KnownAccounts
        /\ KnownAccounts[struct[i].role] = struct[i].type
        /\ \A j \in DOMAIN struct :
             struct[j].type \in {"Init", "InitSigned"} => struct[j].role # struct[i].role

Matches(struct, list) ==
  /\ DOMAIN list = DOMAIN struct /\ Len(list) = Len(struct)
  /\ \A i \in DOMAIN struct : EntryMatches(struct, list, i)

\* The IDL's seven lists go with the seven structs.
LEMMA IdlMatches ==
  ASSUME NEW ix \in Instructions
  PROVE  Matches(Context[ix], Idl[ix])
  <1> USE DEF Matches, EntryMatches, KnownAccounts, Sig, Wr, Ro, Meta
  <1>1. Matches(InitConfig, IdlInit)
    BY DEF InitConfig, IdlInit
  <1>2. Matches(OracleBindPumpfunLaunch, IdlBind)
    BY DEF OracleBindPumpfunLaunch, IdlBind
  <1>3. Matches(MintKolNft, IdlMint)
    BY DEF MintKolNft, IdlMint
  <1>4. Matches(TakeThrone, IdlTake)
    BY DEF TakeThrone, IdlTake
  <1>5. Matches(SettleThrone, IdlSettle)
    BY DEF SettleThrone, IdlSettle
  <1>6. Matches(CommitDistributionRoot, IdlCommit)
    BY DEF CommitDistributionRoot, IdlCommit
  <1>7. Matches(ClaimHolderFees, IdlClaim)
    BY DEF ClaimHolderFees, IdlClaim
  <1> HIDE DEF Matches
  <1> QED
    BY <1>1, <1>2, <1>3, <1>4, <1>5, <1>6, <1>7 DEF Context, Idl, Instructions

IdlTask == task.job = "call" /\ task.client = "idl" /\ ~task.slipped

\* Whatever part of an IDL's list the program is at, it finds nothing wrong with it.
LEMMA IdlPasses ==
  ASSUME task.ix \in Instructions, task.list = Idl[task.ix]
  PROVE  /\ SubmitResult = "Ok"
         /\ pos \in 1..Len(Struct) =>
              TakeResult = "Ok" /\ OpenResult = "Ok" /\ CheckResult = "Ok"
  <1>1. /\ Len(Struct) \in Nat \ {0} /\ DOMAIN Struct = 1..Len(Struct)
        /\ DOMAIN task.list = DOMAIN Struct /\ Len(task.list) = Len(Struct)
        /\ \A i \in DOMAIN Struct : EntryMatches(Struct, task.list, i)
    BY ContextIsSeq, IdlMatches DEF Struct, Matches
  <1>2. \A i \in DOMAIN Struct : Sent(i) = Struct[i].role
    BY <1>1 DEF EntryMatches, Sent
  <1>3. \A i \in DOMAIN Struct : IsInit(Struct[i]) => Struct[i].role \in ToBeOpened
    BY DEF IsInit, ToBeOpened, Range
  <1>4. SubmitResult = "Ok"
    <2>1. ASSUME NEW m \in Range(task.list), m.signer PROVE m.account \in CanSign
      <3>1. PICK i \in DOMAIN Struct : m = task.list[i]
        BY <1>1 DEF Range
      <3>2. m.account = Struct[i].role
        BY <1>2, <3>1 DEF Sent
      <3>3. i = 1 \/ (Struct[i].type = "InitSigned" /\ Struct[i].role = "nft_mint")
        BY <1>1, <2>1, <3>1 DEF EntryMatches
      <3> QED
        BY <1>3, <3>2, <3>3 DEF CanSign, Payer, IsInit
    <2> QED
      BY <2>1 DEF SubmitResult, Signers, CanSign
  <1>5. ASSUME pos \in 1..Len(Struct)
        PROVE  TakeResult = "Ok" /\ OpenResult = "Ok" /\ CheckResult = "Ok"
    <2> DEFINE field == Struct[pos]
               entry == task.list[pos]
    <2>1. /\ pos \in DOMAIN Struct /\ ~(pos > Len(task.list)) /\ entry \in Range(task.list)
          /\ Sent(pos) = field.role /\ entry.account = field.role
      BY <1>1, <1>2, <1>5 DEF Range, Sent
    <2>2. EntryMatches(Struct, task.list, pos)
      BY <1>1, <2>1
    <2>3. Tied(pos)
      BY <1>2, <2>1 DEF Tied
    <2>4. field.mut => Sent(pos) \in Writables
      BY <2>1, <2>2 DEF EntryMatches, Writables
    <2>5. field.type \in {"Signer", "InitSigned"} => Sent(pos) \in Signers
      BY <2>1, <2>2 DEF EntryMatches, Signers
    <2>6. IsInit(field) => TypeOf(Sent(pos)) = "Fresh" /\ field.mut
      <3>1. IsInit(field) => field.mut
        BY <2>2 DEF EntryMatches, IsInit
      <3> QED
        BY <1>3, <2>1, <3>1 DEF TypeOf
    <2>7. TypeFits(field, Sent(pos))
      <3>1. CASE field.type \in {"Signer", "Program", "Unchecked", "Init", "InitSigned"}
        BY <2>1, <2>5, <3>1 DEF TypeFits
      <3>2. CASE field.type \notin {"Signer", "Program", "Unchecked", "Init", "InitSigned"}
        <4>1. /\ field.role \in DOMAIN KnownAccounts /\ KnownAccounts[field.role] = field.type
              /\ field.role \notin ToBeOpened
          BY <2>2, <3>2 DEF EntryMatches, ToBeOpened, Range
        <4> QED
          BY <2>1, <3>2, <4>1 DEF TypeFits, TypeOf
      <3> QED
        BY <3>1, <3>2
    <2>8. TakeResult = "Ok"
      BY <2>1, <2>7 DEF TakeResult, ThisField
    <2>9. OpenResult = "Ok"
      BY <2>3, <2>4, <2>5, <2>6 DEF OpenResult, ThisField
    <2>10. CheckResult = "Ok"
      BY <2>3, <2>4 DEF CheckResult, ThisField
    <2> QED
      BY <2>8, <2>9, <2>10
  <1> QED
    BY <1>4, <1>5

\* A call with a list of the IDL goes through.
IdlInv ==
  /\ task.ix \in Instructions /\ task.list = Idl[task.ix]
  /\ stage \in {"start", "take", "open", "check", "end"}
  /\ stage \in {"take", "open", "check"} => pos \in 1..Len(Struct)
  /\ stage = "start" => pos = 1
  /\ verdict \in {"None", "Ok"}

DInv == IdlTask => IdlInv

\* The lists that no client has are not the IDL's own.
LEMMA IdlBegins == Init => DInv
  <1> SUFFICES ASSUME Init, IdlTask PROVE IdlInv
    BY DEF DInv
  <1>1. task \notin ReadTasks /\ task \notin NameTasks
    BY DEF IdlTask, ReadTasks, NameTasks
  <1>2. \/ \E c \in DOMAIN AccountList, ix \in Instructions :
             task = Call(c, ix, AccountList[c][ix], FALSE)
        \/ \E m \in Mistaken : task = Call("idl", m.ix, m.list, TRUE)
    BY <1>1 DEF Init, CallTasks, ClientCalls
  <1>3. PICK c \in DOMAIN AccountList, ix \in Instructions :
          task = Call(c, ix, AccountList[c][ix], FALSE)
    BY <1>2 DEF IdlTask, Call
  <1>4. task.ix = ix /\ task.list = AccountList[c][ix] /\ c = "idl"
    BY <1>3 DEF IdlTask, Call
  <1>5. task.list = Idl[ix]
    BY <1>4 DEF AccountList
  <1> QED
    BY <1>4, <1>5 DEF Init, IdlInv

\* A part of the call that is passed leads to the next.
LEMMA IdlProceeds ==
  ASSUME NEW n \in Nat \ {0}, NEW next, pos \in 1..n, Proceed("Ok", n, next)
  PROVE  \/ pos' \in 1..n /\ stage' = stage /\ verdict' = verdict
         \/ pos' = 1 /\ stage' = next /\ verdict' \in {"Ok", verdict}
  BY DEF Proceed

\* Every step of such a call keeps the invariant.
LEMMA IdlGoesOn == DInv /\ [Next]_vars => DInv'
  <1> SUFFICES ASSUME DInv, [Next]_vars, IdlTask' PROVE IdlInv'
    BY DEF DInv
  <1>1. CASE UNCHANGED vars
    BY <1>1 DEF vars, DInv, IdlTask, IdlInv, Struct
  <1>2. CASE Next
    <2>1. task' = task
      BY <1>2 DEF Next, Submit, TakeAccount, OpenAccount, CheckAccount, Fetch, Identify,
                  ReadField, Finish, PackName, UnpackName
    <2>2. IdlInv /\ Struct' = Struct
      BY <2>1 DEF DInv, IdlTask, Struct
    <2>3. Submit \/ TakeAccount \/ OpenAccount \/ CheckAccount
      BY <1>2, <2>1 DEF Next, Fetch, Identify, ReadField, Finish, PackName, UnpackName, At,
                        IdlTask
    <2>4. /\ task.ix \in Instructions /\ task.list = Idl[task.ix] /\ Len(Struct) \in Nat \ {0}
          /\ 1 \in 1..Len(Struct)
      BY <2>2, ContextIsSeq DEF IdlInv, Struct
    <2>5. /\ SubmitResult = "Ok"
          /\ pos \in 1..Len(Struct) =>
               TakeResult = "Ok" /\ OpenResult = "Ok" /\ CheckResult = "Ok"
      BY <2>4, IdlPasses
    <2>6. CASE Submit
      <3>1. stage = "start" /\ verdict = "None" /\ pos \in 1..1 /\ Proceed("Ok", 1, "take")
        BY <2>2, <2>5, <2>6 DEF Submit, At, IdlInv
      <3>2. \/ pos' \in 1..1 /\ stage' = stage /\ verdict' = verdict
            \/ pos' = 1 /\ stage' = "take" /\ verdict' \in {"Ok", verdict}
        BY <3>1, IdlProceeds
      <3> QED
        BY <2>1, <2>2, <2>4, <3>1, <3>2 DEF IdlInv
    <2>7. CASE TakeAccount
      <3>1. stage = "take" /\ verdict = "None" /\ pos \in 1..Len(Struct)
            /\ Proceed("Ok", Len(Struct), "open")
        BY <2>2, <2>5, <2>7 DEF TakeAccount, At, IdlInv
      <3>2. \/ pos' \in 1..Len(Struct) /\ stage' = stage /\ verdict' = verdict
            \/ pos' = 1 /\ stage' = "open" /\ verdict' \in {"Ok", verdict}
        BY <2>4, <3>1, IdlProceeds
      <3> QED
        BY <2>1, <2>2, <2>4, <3>1, <3>2 DEF IdlInv
    <2>8. CASE OpenAccount
      <3>1. stage = "open" /\ verdict = "None" /\ pos \in 1..Len(Struct)
            /\ Proceed("Ok", Len(Struct), "check")
        BY <2>2, <2>5, <2>8 DEF OpenAccount, At, IdlInv
      <3>2. \/ pos' \in 1..Len(Struct) /\ stage' = stage /\ verdict' = verdict
            \/ pos' = 1 /\ stage' = "check" /\ verdict' \in {"Ok", verdict}
        BY <2>4, <3>1, IdlProceeds
      <3> QED
        BY <2>1, <2>2, <2>4, <3>1, <3>2 DEF IdlInv
    <2>9. CASE CheckAccount
      <3>1. stage = "check" /\ verdict = "None" /\ pos \in 1..Len(Struct)
            /\ Proceed("Ok", Len(Struct), "end")
        BY <2>2, <2>5, <2>9 DEF CheckAccount, At, IdlInv
      <3>2. \/ pos' \in 1..Len(Struct) /\ stage' = stage /\ verdict' = verdict
            \/ pos' = 1 /\ stage' = "end" /\ verdict' \in {"Ok", verdict}
        BY <2>4, <3>1, IdlProceeds
      <3> QED
        BY <2>1, <2>2, <2>4, <3>1, <3>2 DEF IdlInv
    <2> QED
      BY <2>3, <2>6, <2>7, <2>8, <2>9
  <1> QED
    BY <1>1, <1>2

\* The IDL has kept up with the program: all its lists are accepted as they stand.
THEOREM WireIdlAccepted == Spec => []IdlAccepted
  <1>1. DInv => IdlAccepted
    BY DEF DInv, IdlInv, IdlTask, IdlAccepted
  <1> QED
    BY <1>1, IdlBegins, IdlGoesOn, PTL DEF Spec

-------------------------------------------------------------------------------
(***************************************************************************)
(* Reading an account: the layouts.                                        *)
(***************************************************************************)
USE DEF Key, U64, U32, Byte, Padding

\* `at` has where each of the fields starts.
AreStarts(at, fields) ==
  at = [i \in 1..Len(fields) |-> IF i = 1 THEN 0 ELSE at[i - 1] + fields[i - 1].width]

\* Every field of the six accounts begins where the one before it ends.
LEMMA StartsUnfold ==
  ASSUME NEW kind \in Kinds
  PROVE  AreStarts(Starts(Written[kind]), Written[kind])
  <1>1. \E at : AreStarts(at, Written[kind])
    <2>1. CASE kind = "Config"
      <3>1. AreStarts(<<0, 32, 64, 68, 69>>, ConfigState)
        BY DEF AreStarts, ConfigState
      <3> QED
        BY <2>1, <3>1 DEF Written
    <2>2. CASE kind = "Pet"
      <3>1. AreStarts(<<0, 32, 64, 72, 73>>, PetState)
        BY DEF AreStarts, PetState
      <3> QED
        BY <2>2, <3>1 DEF Written
    <2>3. CASE kind = "Launch"
      <3>1. AreStarts(<<0, 32, 64, 72, 80, 88, 96, 104, 105, 106>>, LaunchState)
        BY DEF AreStarts, LaunchState
      <3> QED
        BY <2>3, <3>1 DEF Written
    <2>4. CASE kind = "KingOfHill"
      <3>1. AreStarts(<<0, 32, 64, 96, 128, 136, 144, 148, 149, 150, 158, 159>>, KingState)
        BY DEF AreStarts, KingState
      <3> QED
        BY <2>4, <3>1 DEF Written
    <2>5. CASE kind = "Distribution"
      <3>1. AreStarts(<<0, 8, 40, 48, 56, 57>>, DistributionState)
        BY DEF AreStarts, DistributionState
      <3> QED
        BY <2>5, <3>1 DEF Written
    <2>6. CASE kind = "HolderClaim"
      <3>1. AreStarts(<<0, 32, 40, 48, 56, 57>>, HolderClaimState)
        BY DEF AreStarts, HolderClaimState
      <3> QED
        BY <2>6, <3>1 DEF Written
    <2> QED
      BY <2>1, <2>2, <2>3, <2>4, <2>5, <2>6 DEF Kinds
  <1>2. Starts(Written[kind]) = CHOOSE at : AreStarts(at, Written[kind])
    BY DEF Starts, AreStarts
  <1> QED
    BY <1>1, <1>2

\* The six accounts have room for their fields.
LEMMA FieldsFit ==
  ASSUME NEW kind \in Kinds, NEW i \in DOMAIN Written[kind]
  PROVE  /\ Starts(Written[kind])[i] \in Nat /\ Written[kind][i].width \in Nat
         /\ Starts(Written[kind])[i] + Written[kind][i].width <= Space[kind]
  <1> DEFINE at == Starts(Written[kind])
  <1>1. AreStarts(at, Written[kind])
    BY StartsUnfold
  <1> HIDE DEF at
  <1>2. CASE kind = "Config"
    <2>1. AreStarts(at, ConfigState)
      BY <1>1, <1>2 DEF Written
    <2>2. at[1] = 0 /\ at[2] = 32 /\ at[3] = 64 /\ at[4] = 68 /\ at[5] = 69
      BY <2>1 DEF AreStarts, ConfigState
    <2> QED
      BY <1>2, <2>2 DEF Written, ConfigState, Space, at
  <1>3. CASE kind = "Pet"
    <2>1. AreStarts(at, PetState)
      BY <1>1, <1>3 DEF Written
    <2>2. at[1] = 0 /\ at[2] = 32 /\ at[3] = 64 /\ at[4] = 72 /\ at[5] = 73
      BY <2>1 DEF AreStarts, PetState
    <2> QED
      BY <1>3, <2>2 DEF Written, PetState, Space, at
  <1>4. CASE kind = "Launch"
    <2>1. AreStarts(at, LaunchState)
      BY <1>1, <1>4 DEF Written
    <2>2. /\ at[1] = 0 /\ at[2] = 32 /\ at[3] = 64 /\ at[4] = 72 /\ at[5] = 80
          /\ at[6] = 88 /\ at[7] = 96 /\ at[8] = 104 /\ at[9] = 105 /\ at[10] = 106
      BY <2>1 DEF AreStarts, LaunchState
    <2> QED
      BY <1>4, <2>2 DEF Written, LaunchState, Space, at
  <1>5. CASE kind = "KingOfHill"
    <2>1. AreStarts(at, KingState)
      BY <1>1, <1>5 DEF Written
    <2>2. /\ at[1] = 0 /\ at[2] = 32 /\ at[3] = 64 /\ at[4] = 96 /\ at[5] = 128 /\ at[6] = 136
          /\ at[7] = 144 /\ at[8] = 148 /\ at[9] = 149 /\ at[10] = 150 /\ at[11] = 158
          /\ at[12] = 159
      BY <2>1 DEF AreStarts, KingState
    <2> QED
      BY <1>5, <2>2 DEF Written, KingState, Space, at
  <1>6. CASE kind = "Distribution"
    <2>1. AreStarts(at, DistributionState)
      BY <1>1, <1>6 DEF Written
    <2>2. at[1] = 0 /\ at[2] = 8 /\ at[3] = 40 /\ at[4] = 48 /\ at[5] = 56 /\ at[6] = 57
      BY <2>1 DEF AreStarts, DistributionState
    <2> QED
      BY <1>6, <2>2 DEF Written, DistributionState, Space, at
  <1>7. CASE kind = "HolderClaim"
    <2>1. AreStarts(at, HolderClaimState)
      BY <1>1, <1>7 DEF Written
    <2>2. at[1] = 0 /\ at[2] = 32 /\ at[3] = 40 /\ at[4] = 48 /\ at[5] = 56 /\ at[6] = 57
      BY <2>1 DEF AreStarts, HolderClaimState
    <2> QED
      BY <1>7, <2>2 DEF Written, HolderClaimState, Space, at
  <1> QED
    BY <1>2, <1>3, <1>4, <1>5, <1>6, <1>7 DEF Kinds

\* Fields read are all of those written, up to the padding.
ReadsAll(fields, written) ==
  /\ Len(fields) \in Nat \ {0} /\ Len(written) = Len(fields) + 1
  /\ DOMAIN written = 1..Len(written)
  /\ \A i \in 1..Len(fields) : fields[i] = written[i]
  /\ written[Len(written)].name = "_reserved"

\* Both clients read all the program writes, of each of the six accounts.
LEMMA ReadersReadAll ==
  ASSUME NEW kind \in Kinds
  PROVE  ReadsAll(CliRead[kind], Written[kind]) /\ ReadsAll(SdkRead[kind], Written[kind])
  <1> USE DEF ReadsAll, CliRead, SdkRead, Written
  <1>1. CASE kind = "Config"
    BY <1>1 DEF ConfigState
  <1>2. CASE kind = "Pet"
    BY <1>2 DEF PetState
  <1>3. CASE kind = "Launch"
    BY <1>3 DEF LaunchState
  <1>4. CASE kind = "KingOfHill"
    BY <1>4 DEF KingState
  <1>5. CASE kind = "Distribution"
    BY <1>5 DEF DistributionState
  <1>6. CASE kind = "HolderClaim"
    BY <1>6 DEF HolderClaimState
  <1> QED
    BY <1>1, <1>2, <1>3, <1>4, <1>5, <1>6 DEF Kinds

-------------------------------------------------------------------------------
(***************************************************************************)
(* Reading an account: the invariant.  Past the discriminator the reader   *)
(* knows what it reads, and has taken the fields before `pos` from where   *)
(* the program put them.                                                   *)
(***************************************************************************)
FieldAt(kind, i) ==
  [name |-> Written[kind][i].name, from |-> Starts(Written[kind])[i],
   width |-> Written[kind][i].width]

FirstFields(n) == [i \in 1..n |-> FieldAt(task.stored, i)]

RightKind == task.stored \in Kinds /\ task.asked \in {task.stored, "Any"}

ReadInv ==
  /\ task.client \in {"cli", "sdk"} /\ task.stored \in Stored
  /\ stage \in {"start", "identify", "fields", "rest", "end"}
  /\ stage \in {"start", "identify"} => pos = 1 /\ got = <<>>
  /\ stage = "identify" => task.stored # "Missing"
  /\ stage \in {"fields", "rest", "end"} => RightKind
  /\ stage = "fields" => pos \in 1..Len(Fields) /\ got = FirstFields(pos - 1)
  /\ stage \in {"rest", "end"} => pos = 1 /\ got = FirstFields(Len(Fields))
  /\ RightKind /\ stage \in {"start", "identify", "fields"} => verdict = "None"
  /\ stage = "rest" => verdict = "None" \/ task.client = "cli"
  /\ stage = "end" => verdict = "Ok"

RInv == task.job = "read" => ReadInv

\* What is read in one task after the right discriminator.
LEMMA ReadersTarget ==
  ASSUME RightKind, task.client \in {"cli", "sdk"}
  PROVE  /\ Target = task.stored /\ ReadsAll(Fields, Written[task.stored])
         /\ DOMAIN Written[task.stored] = 1..(Len(Fields) + 1)
         /\ Len(Fields) \in Nat \ {0}
  <1>1. Target = task.stored /\ task.stored \in Kinds
    BY DEF Target, RightKind
  <1>2. ReadsAll(Fields, Written[task.stored])
    BY <1>1, ReadersReadAll DEF Fields
  <1> QED
    BY <1>1, <1>2 DEF ReadsAll

\* The next field is taken from where it stands.
LEMMA NextField ==
  ASSUME RightKind, task.client \in {"cli", "sdk"}, NEW p \in 1..Len(Fields), pos = p,
         got = FirstFields(p - 1)
  PROVE  /\ FieldResult = "Ok"
         /\ Append(got, [name |-> Fields[pos].name, from |-> Offset,
                         width |-> Fields[pos].width]) = FirstFields(p)
  <1> DEFINE kind == task.stored
             at == Starts(Written[kind])
             n == Len(Fields)
  <1>1. kind \in Kinds /\ n \in Nat /\ ReadsAll(Fields, Written[kind])
        /\ DOMAIN Written[kind] = 1..(n + 1) /\ Len(Written[kind]) = n + 1
    BY ReadersTarget DEF RightKind, ReadsAll
  <1>2. Fields[p] = Written[kind][p] /\ p \in 1..(n + 1)
    BY <1>1 DEF ReadsAll
  <1>3. AreStarts(at, Written[kind])
    BY <1>1, StartsUnfold
  <1>4. Offset = at[p]
    <2>1. CASE p = 1
      <3>1. got = <<>>
        BY <2>1 DEF FirstFields
      <3>2. at[1] = 0
        BY <1>1, <1>3 DEF AreStarts
      <3> QED
        BY <2>1, <3>1, <3>2 DEF Offset
    <2>2. CASE p # 1
      <3>1. p - 1 \in 1..n /\ p - 1 \in Nat
        BY <1>1, <2>2
      <3>2. got # <<>> /\ Len(got) = p - 1 /\ Last(got) = FieldAt(kind, p - 1)
        BY <3>1 DEF FirstFields, Last
      <3>3. Offset = at[p - 1] + Written[kind][p - 1].width
        BY <3>2 DEF Offset, FieldAt
      <3>4. at[p] = at[p - 1] + Written[kind][p - 1].width
        BY <1>1, <1>2, <1>3, <2>2 DEF AreStarts
      <3> QED
        BY <3>3, <3>4
    <2> QED
      BY <2>1, <2>2
  <1>5. FieldResult = "Ok"
    <2>1. at[p] \in Nat /\ Written[kind][p].width \in Nat /\ Space[kind] \in Nat
          /\ at[p] + Written[kind][p].width <= Space[kind]
      <3>1. Space[kind] \in Nat
        BY <1>1 DEF Space, Kinds
      <3> QED
        BY <1>1, <1>2, <3>1, FieldsFit
    <2>2. Offset + Fields[pos].width = at[p] + Written[kind][p].width
      BY <1>2, <1>4
    <2> HIDE DEF at
    <2> QED
      BY <2>1, <2>2 DEF FieldResult
  <1>6. Append(got, FieldAt(kind, p)) = FirstFields(p)
    <2>1. p \in Nat /\ p - 1 \in Nat
      BY <1>1
    <2>2. got = [i \in 1..(p - 1) |-> FieldAt(kind, i)]
      BY DEF FirstFields
    <2>3. Len(got) = p - 1 /\ got \in Seq({FieldAt(kind, i) : i \in 1..p})
      BY <2>1, <2>2
    <2> QED
      BY <2>1, <2>2, <2>3 DEF FirstFields
  <1> QED
    BY <1>2, <1>4, <1>5, <1>6 DEF FieldAt

\* A read begins with nothing.
LEMMA ReadBegins == Init => RInv
  <1> SUFFICES ASSUME Init, task.job = "read" PROVE ReadInv
    BY DEF RInv
  <1>1. task \in ReadTasks
    BY DEF Init, CallTasks, ClientCalls, Call, NameTasks
  <1>2. task.client \in {"cli", "sdk"} /\ task.stored \in Stored
    BY <1>1 DEF ReadTasks
  <1> QED
    BY <1>2 DEF Init, ReadInv

\* Every step of a read keeps the invariant, and the other tasks are not reads.
LEMMA ReadGoesOn == RInv /\ [Next]_vars => RInv'
  <1> SUFFICES ASSUME RInv, [Next]_vars, task'.job = "read" PROVE ReadInv'
    BY DEF RInv
  <1>1. CASE UNCHANGED vars
    BY <1>1 DEF vars, RInv, ReadInv, RightKind, Fields, Target, FirstFields
  <1>2. CASE Next
    <2>1. task' = task
      BY <1>2 DEF Next, Submit, TakeAccount, OpenAccount, CheckAccount, Fetch, Identify,
                  ReadField, Finish, PackName, UnpackName
    <2>2. ReadInv
      BY <2>1 DEF RInv
    <2>3. Fetch \/ Identify \/ ReadField \/ Finish
      BY <1>2, <2>1 DEF Next, Submit, TakeAccount, OpenAccount, CheckAccount, PackName,
                        UnpackName, At
    <2>4. /\ RightKind' = RightKind /\ Fields' = Fields /\ \A n : FirstFields(n)' = FirstFields(n)
          /\ task.client \in {"cli", "sdk"} /\ task.stored \in Stored
      BY <2>1, <2>2 DEF RightKind, Fields, Target, FirstFields, ReadInv
    <2>5. CASE Fetch
      <3>1. /\ stage = "start" /\ verdict = "None" /\ pos = 1 /\ got = <<>> /\ got' = got
            /\ Proceed(FetchResult, 1, "identify")
        BY <2>2, <2>5 DEF Fetch, At, ReadInv
      <3>2. /\ RightKind => FetchResult = "Ok"
            /\ FetchResult = "Ok" => task.stored # "Missing"
        BY DEF RightKind, Kinds, FetchResult
      <3>3. \/ FetchResult # "Ok" /\ verdict' = FetchResult /\ stage' = stage /\ pos' = pos
            \/ FetchResult = "Ok" /\ verdict' = verdict /\ stage' = "identify" /\ pos' = 1
        BY <3>1 DEF Proceed
      <3> QED
        BY <2>1, <2>4, <3>1, <3>2, <3>3 DEF ReadInv
    <2>6. CASE Identify
      <3>1. /\ stage = "identify" /\ verdict = "None" /\ pos = 1 /\ got = <<>> /\ got' = got
            /\ Proceed(DiscriminatorResult, 1, "fields")
        BY <2>2, <2>6 DEF Identify, At, ReadInv
      <3>2. RightKind => DiscriminatorResult = "Ok"
        BY DEF RightKind, Kinds, DiscriminatorResult
      <3>3. \/ DiscriminatorResult # "Ok" /\ verdict' = DiscriminatorResult /\ stage' = stage
               /\ pos' = pos
            \/ DiscriminatorResult = "Ok" /\ verdict' = verdict /\ stage' = "fields" /\ pos' = 1
        BY <3>1 DEF Proceed
      <3>4. DiscriminatorResult = "Ok" => RightKind
        BY <2>2, <2>4, <3>1 DEF ReadInv, DiscriminatorResult, RightKind, Stored
      <3>5. RightKind => 1 \in 1..Len(Fields) /\ got = FirstFields(1 - 1)
        <4>1. RightKind => Len(Fields) \in Nat \ {0}
          BY <2>4, ReadersTarget
        <4> QED
          BY <3>1, <4>1 DEF FirstFields
      <3> QED
        BY <2>1, <2>2, <2>4, <3>1, <3>2, <3>3, <3>4, <3>5 DEF ReadInv
    <2>7. CASE ReadField
      <3>1. stage = "fields" /\ verdict = "None"
        BY <2>7 DEF ReadField, At
      <3>2. /\ RightKind /\ pos \in 1..Len(Fields) /\ got = FirstFields(pos - 1)
        BY <2>2, <3>1 DEF ReadInv
      <3>3. FieldResult = "Ok" /\ got' = FirstFields(pos)
        BY <2>4, <2>7, <3>2, NextField DEF ReadField
      <3>4. /\ Len(Fields) \in Nat
            /\ \/ pos < Len(Fields) /\ pos' = pos + 1 /\ stage' = stage /\ verdict' = verdict
               \/ ~(pos < Len(Fields)) /\ pos' = 1 /\ stage' = "rest" /\ verdict' = verdict
        BY <2>4, <2>7, <3>2, <3>3, ReadersTarget DEF ReadField, Proceed
      <3>5. CASE pos < Len(Fields)
        <4>1. pos' \in 1..Len(Fields) /\ pos' - 1 = pos
          BY <3>2, <3>4, <3>5
        <4> QED
          BY <2>1, <2>4, <3>1, <3>2, <3>3, <3>4, <3>5, <4>1 DEF ReadInv
      <3>6. CASE ~(pos < Len(Fields))
        <4>1. pos = Len(Fields)
          BY <3>2, <3>4, <3>6
        <4> QED
          BY <2>1, <2>4, <3>1, <3>2, <3>3, <3>4, <3>6, <4>1 DEF ReadInv
      <3> QED
        BY <3>5, <3>6
    <2>8. CASE Finish
      <3>1. /\ stage = "rest" /\ verdict = "None" /\ pos = 1 /\ got' = got
            /\ RightKind /\ got = FirstFields(Len(Fields)) /\ Proceed(EndResult, 1, "end")
        BY <2>2, <2>8 DEF Finish, At, ReadInv
      <3>2. \/ EndResult # "Ok" /\ verdict' = EndResult /\ stage' = stage /\ pos' = pos
            \/ EndResult = "Ok" /\ verdict' = "Ok" /\ stage' = "end" /\ pos' = 1
        BY <3>1 DEF Proceed
      <3>3. EndResult # "Ok" => task.client = "cli"
        BY DEF EndResult
      <3> QED
        BY <2>1, <2>4, <3>1, <3>2, <3>3 DEF ReadInv
    <2> QED
      BY <2>3, <2>5, <2>6, <2>7, <2>8
  <1> QED
    BY <1>1, <1>2

\* The fields taken are fields of the account.
LEMMA FirstFieldsAre ==
  ASSUME RightKind, task.client \in {"cli", "sdk"}, NEW n \in 0..Len(Fields)
  PROVE  /\ Range(FirstFields(n)) = {FieldAt(task.stored, i) : i \in 1..n}
         /\ FieldsAt(task.stored) = {FieldAt(task.stored, i) : i \in 1..(Len(Fields) + 1)}
         /\ n \in Nat /\ n <= Len(Fields) /\ Len(Fields) \in Nat
  <1>1. DOMAIN Written[task.stored] = 1..(Len(Fields) + 1) /\ Len(Fields) \in Nat
    BY ReadersTarget
  <1>2. FieldsAt(task.stored) = {FieldAt(task.stored, i) : i \in 1..(Len(Fields) + 1)}
    BY <1>1 DEF FieldsAt, FieldAt
  <1>3. Range(FirstFields(n)) = {FieldAt(task.stored, i) : i \in 1..n}
    BY DEF Range, FirstFields
  <1> QED
    BY <1>1, <1>2, <1>3

\* Neither client ever takes one field, or one kind of account, for another.
THEOREM WireReadAsWritten == Spec => []ReadAsWritten
  <1>1. RInv => ReadAsWritten
    <2> SUFFICES ASSUME RInv, task.job = "read", stage \in {"fields", "rest", "end"}
                 PROVE  Range(got) \subseteq FieldsAt(task.stored)
      BY DEF ReadAsWritten
    <2>1. ReadInv /\ RightKind /\ task.client \in {"cli", "sdk"}
      BY DEF RInv, ReadInv
    <2>2. PICK n \in 0..Len(Fields) : got = FirstFields(n)
      <3>1. Len(Fields) \in Nat
        BY <2>1, ReadersTarget
      <3> QED
        BY <2>1, <3>1 DEF ReadInv
    <2> QED
      BY <2>1, <2>2, FirstFieldsAre
  <1> QED
    BY <1>1, ReadBegins, ReadGoesOn, PTL DEF Spec

\* Only the CLI refuses an account of the right kind, and only for the padding.
THEOREM WireRefusesOnlyPadding == Spec => []RefusesOnlyPadding
  <1>1. RInv => RefusesOnlyPadding
    <2> SUFFICES ASSUME RInv, task.job = "read", RightKind, verdict \notin {"None", "Ok"}
                 PROVE  /\ task.client = "cli"
                        /\ \A f \in FieldsAt(task.stored) \ Range(got) : f.name = "_reserved"
      BY DEF RefusesOnlyPadding, RightKind
    <2>1. ReadInv /\ task.client = "cli" /\ got = FirstFields(Len(Fields))
      BY DEF RInv, ReadInv
    <2>2. Len(Fields) \in Nat /\ Len(Fields) \in 0..Len(Fields)
          /\ Written[task.stored][Len(Fields) + 1].name = "_reserved"
      BY <2>1, ReadersTarget DEF ReadsAll
    <2>3. ASSUME NEW f \in FieldsAt(task.stored) \ Range(got)
          PROVE  f.name = "_reserved"
      <3>1. PICK i \in 1..(Len(Fields) + 1) : f = FieldAt(task.stored, i)
        BY <2>1, <2>2, FirstFieldsAre
      <3>2. i \notin 1..Len(Fields)
        BY <2>1, <2>2, <2>3, <3>1, FirstFieldsAre
      <3>3. i = Len(Fields) + 1
        BY <2>2, <3>1, <3>2
      <3> QED
        BY <2>2, <3>1, <3>3 DEF FieldAt
    <2> QED
      BY <2>1, <2>3
  <1> QED
    BY <1>1, ReadBegins, ReadGoesOn, PTL DEF Spec
===============================================================================
