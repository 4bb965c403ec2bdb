--------------------------------- MODULE Wire ---------------------------------
(***************************************************************************)
(* The boundary between the clients and the on-chain program: what becomes *)
(* of an instruction's account list when Anchor matches it, entry by       *)
(* entry, with the program's accounts struct; of an account's data when    *)
(* the CLI (`inspect`, `take-throne`, `settle`) or the SDK (`fetch*`,      *)
(* `decode*`) reads it, field by field; and of a KOL name packed into its  *)
(* fixed-width field by one side and unpacked by another.                  *)
(*                                                                         *)
(* A behaviour is one such task.  The lists are those the clients have     *)
(* and, since nothing but care keeps such a list right, others that a      *)
(* mistake makes of them.                                                  *)
(***************************************************************************)
EXTENDS Interface, FiniteSets, SequencesExt

CONSTANTS
  NameLen,   \* KOL_NAME_LEN, the bytes of a packed name
  Letters,   \* bytes a name is made of
  Nul,       \* the zero byte
  Mistaken   \* account lists that no client has, with their instructions

Entry == [account : STRING, signer : BOOLEAN, writable : BOOLEAN]

ASSUME MistakenAssumption ==
  \A m \in Mistaken : m.ix \in Instructions /\ m.list \in Seq(Entry)

ASSUME NameAssumption ==
  /\ NameLen \in Nat \ {0}
  /\ Nul \notin Letters

VARIABLES
  task,      \* what is being done
  stage,     \* which part of it
  pos,       \* the entry or field it is at
  got,       \* what the reader has so far
  verdict    \* "None" until the task has ended

vars == <<task, stage, pos, got, verdict>>

-------------------------------------------------------------------------------
(***************************************************************************)
(* The tasks.                                                              *)
(***************************************************************************)
Call(client, ix, list, slipped) ==
  [job |-> "call", client |-> client, ix |-> ix, list |-> list, slipped |-> slipped]

ClientCalls ==
  UNION {{Call(c, ix, AccountList[c][ix], FALSE) : ix \in Instructions} :
           c \in DOMAIN AccountList}

CallTasks == ClientCalls \cup {Call("idl", m.ix, m.list, TRUE) : m \in Mistaken}

\* What is at an address: an account of the program's, nothing, or an account
\* without data that belongs to somebody else.
Stored == Kinds \cup {"Missing", "Foreign"}

\* The CLI derives the address from the kind it wants; the SDK also takes a
\* buffer from anywhere, and finds out what it is when it is not told ("Any").
ReadTasks ==
  {t \in [job : {"read"}, client : {"cli"}, asked : Kinds, stored : Stored] :
     t.stored \in Kinds => t.stored = t.asked}
  \cup [job : {"read"}, client : {"sdk"}, asked : Kinds \cup {"Any"}, stored : Stored]

Texts == UNION {[1..n -> Letters \cup {Nul}] : n \in 0..(NameLen + 1)}

NameTasks ==
  [job : {"name"}, client : {"program", "cli", "sdk"}, text : Texts]

Init ==
  /\ task \in CallTasks \cup ReadTasks \cup NameTasks
  /\ stage = "start"
  /\ pos = 1
  /\ got = <<>>
  /\ verdict = "None"

\* The task has come to `result`: an error ends it, "Ok" lets it go on to the
\* next of `n` entries, and after the last to the next stage.
Proceed(result, n, next) ==
  IF result # "Ok" THEN verdict' = result /\ UNCHANGED <<stage, pos>>
  ELSE IF pos < n THEN pos' = pos + 1 /\ UNCHANGED <<stage, verdict>>
  ELSE /\ pos' = 1
       /\ stage' = next
       /\ verdict' = IF next = "end" THEN "Ok" ELSE verdict

At(job, s) == task.job = job /\ stage = s /\ verdict = "None"

-------------------------------------------------------------------------------
(***************************************************************************)
(* Anchor.  It first takes one entry per field, in the struct's order, and *)
(* checks what the field's type asks for; then it opens the `init` fields; *)
(* then it checks the constraints of the others.  Entries beyond the last  *)
(* field are left alone.                                                   *)
(***************************************************************************)
Struct == Context[task.ix]
ThisField == Struct[pos]
Sent(i) == task.list[i].account

\* Every struct begins with the wallet that pays and signs.
Payer == Struct[1].role

\* What the instruction is about to open does not exist yet.
ToBeOpened == {f.role : f \in {x \in Range(Struct) : x.type \in {"Init", "InitSigned"}}}

\* The keys a client holds: its own wallet and the NFT mint it generates.
CanSign == {Payer} \cup (ToBeOpened \cap {"nft_mint"})

Signers == {Payer} \cup {m.account : m \in {x \in Range(task.list) : x.signer}}
Writables == {Payer} \cup {m.account : m \in {x \in Range(task.list) : x.writable}}

KnownAccounts ==
  [config |-> "Config", pet |-> "Pet", launch |-> "Launch", king |-> "KingOfHill",
   distribution |-> "Distribution", holder_claim |-> "HolderClaim",
   pump_mint |-> "Mint", nft_mint |-> "Mint", escrow_vault |-> "TokenAccount",
   challenger_pump_ata |-> "TokenAccount", challenger_nft_ata |-> "TokenAccount",
   champion_pump_ata |-> "TokenAccount", champion_nft_ata |-> "TokenAccount"]

TypeOf(a) ==
  IF a \in ToBeOpened THEN "Fresh"
  ELSE IF a \in DOMAIN KnownAccounts THEN KnownAccounts[a]
  ELSE "Other"

TypeFits(f, a) ==
  CASE f.type = "Signer" -> a \in Signers
    [] f.type = "Program" -> a = f.role
    [] f.type \in {"Unchecked", "Init", "InitSigned"} -> TRUE
    [] OTHER -> TypeOf(a) = f.type

Tied_AddressOnly(i) == Struct[i].tied => Sent(i) = Struct[i].role

\* The address is the one that follows from the accounts it is computed from.
Tied(i) ==
  Struct[i].tied =>
    /\ Sent(i) = Struct[i].role
    /\ \A j \in DOMAIN Struct : Struct[j].role \in Struct[i].from => Sent(j) = Struct[j].role

IsInit(f) == f.type \in {"Init", "InitSigned"}

SubmitResult == IF Signers \subseteq CanSign THEN "Ok" ELSE "MissingSignature"

TakeResult ==
  IF pos > Len(task.list) THEN "AccountNotEnoughKeys"
  ELSE IF ~TypeFits(ThisField, Sent(pos)) THEN "WrongAccountType"
  ELSE "Ok"

OpenResult ==
  IF ~IsInit(ThisField) THEN "Ok"
  ELSE IF ~Tied(pos) THEN "ConstraintSeeds"
  ELSE IF TypeOf(Sent(pos)) # "Fresh" THEN "AccountInUse"
  ELSE IF Sent(pos) \notin Writables THEN "ConstraintMut"
  ELSE IF ThisField.type = "InitSigned" /\ Sent(pos) \notin Signers THEN "MissingSignature"
  ELSE "Ok"

CheckResult ==
  IF IsInit(ThisField) THEN "Ok"
  ELSE IF ThisField.mut /\ Sent(pos) \notin Writables THEN "ConstraintMut"
  ELSE IF ~Tied(pos) THEN "ConstraintSeeds"
  ELSE "Ok"

Submit == At("call", "start") /\ Proceed(SubmitResult, 1, "take") /\ UNCHANGED <<task, got>>

TakeAccount ==
  At("call", "take") /\ Proceed(TakeResult, Len(Struct), "open") /\ UNCHANGED <<task, got>>

OpenAccount ==
  At("call", "open") /\ Proceed(OpenResult, Len(Struct), "check") /\ UNCHANGED <<task, got>>

CheckAccount ==
  At("call", "check") /\ Proceed(CheckResult, Len(Struct), "end") /\ UNCHANGED <<task, got>>

-------------------------------------------------------------------------------
(***************************************************************************)
(* Reading an account.                                                     *)
(***************************************************************************)

\* An empty result of the SDK's fetch is not an error, but ends the read too.
FetchResult ==
  IF task.stored = "Missing"
    THEN IF task.client = "cli" THEN "AccountNotFound" ELSE "Null"
  ELSE IF task.client = "cli" /\ task.stored = "Foreign" THEN "AccountOwnerMismatch"
  ELSE "Ok"

DiscriminatorResult ==
  IF task.stored = "Foreign" THEN "TooSmall"
  ELSE IF task.asked \notin {task.stored, "Any"} THEN "DiscriminatorMismatch"
  ELSE "Ok"

\* decodeColsAccount picks the decoder by the discriminator it finds.
Target == IF task.asked = "Any" THEN task.stored ELSE task.asked

Fields == IF task.client = "cli" THEN CliRead[Target] ELSE SdkRead[Target]

Offset == IF got = <<>> THEN 0 ELSE Last(got).from + Last(got).width

FieldResult == IF Offset + Fields[pos].width > Space[task.stored] THEN "OutOfBounds" ELSE "Ok"

EndResult_EveryReader == IF Offset < Space[task.stored] THEN "NotAllBytesRead" ELSE "Ok"

\* try_from_slice wants every byte to be used; the SDK's reader does not ask.
EndResult ==
  IF task.client = "cli" /\ Offset < Space[task.stored] THEN "NotAllBytesRead" ELSE "Ok"

Fetch ==
  At("read", "start") /\ Proceed(FetchResult, 1, "identify") /\ UNCHANGED <<task, got>>

Identify ==
  /\ At("read", "identify")
  /\ Proceed(DiscriminatorResult, 1, "fields")
  /\ UNCHANGED <<task, got>>

ReadField ==
  /\ At("read", "fields")
  /\ Proceed(FieldResult, Len(Fields), "rest")
  /\ got' = IF FieldResult = "Ok"
              THEN Append(got, [name |-> Fields[pos].name, from |-> Offset,
                                width |-> Fields[pos].width])
              ELSE got
  /\ UNCHANGED task

Finish == At("read", "rest") /\ Proceed(EndResult, 1, "end") /\ UNCHANGED <<task, got>>

-------------------------------------------------------------------------------
(***************************************************************************)
(* A KOL name: bytes, padded with zeroes to a fixed width.                 *)
(***************************************************************************)
PackedName(text) == [i \in 1..NameLen |-> IF i <= Len(text) THEN text[i] ELSE Nul]

TrimmedName_OneShort(bytes) ==
  LET used == {i \in DOMAIN bytes : bytes[i] # Nul}
      end == IF used = {} THEN 0 ELSE Max(used)
  IN  SubSeq(bytes, 1, IF end = NameLen THEN end - 1 ELSE end)

\* The program and the SDK drop the zeroes at the end.
TrimmedName(bytes) ==
  LET used == {i \in DOMAIN bytes : bytes[i] # Nul}
  IN  SubSeq(bytes, 1, IF used = {} THEN 0 ELSE Max(used))

\* The CLI stops at the first zero.
CutName(bytes) ==
  LET zeroes == {i \in DOMAIN bytes : bytes[i] = Nul}
  IN  SubSeq(bytes, 1, IF zeroes = {} THEN NameLen ELSE Min(zeroes) - 1)

PackName ==
  /\ At("name", "start")
  /\ Proceed(IF Len(task.text) > NameLen THEN "NameTooLong" ELSE "Ok", 1, "unpack")
  /\ got' = IF Len(task.text) > NameLen THEN got ELSE PackedName(task.text)
  /\ UNCHANGED task

UnpackName ==
  /\ At("name", "unpack")
  /\ Proceed("Ok", 1, "end")
  /\ got' = IF task.client = "cli" THEN CutName(got) ELSE TrimmedName(got)
  /\ UNCHANGED task

Next ==
  \/ Submit \/ TakeAccount \/ OpenAccount \/ CheckAccount
  \/ Fetch \/ Identify \/ ReadField \/ Finish
  \/ PackName \/ UnpackName

Spec == Init /\ [][Next]_vars

-------------------------------------------------------------------------------
(***************************************************************************)
(* What the two sides may rely on.                                         *)
(***************************************************************************)

\* The fields whose account the struct leaves open: the oracle vouches for the
\* coin, the metadata program checks its own address, take_throne's handler
\* checks the previous champion's account, settle_throne does not use the mint.
LeftOpen ==
  {<<"oracle_bind_pumpfun_launch", "pump_mint">>, <<"mint_kol_nft", "metadata">>,
   <<"take_throne", "champion_nft_ata">>, <<"settle_throne", "nft_mint">>}

\* A list with a mistake in it never has the program act on the wrong account:
\* whatever one entry swapped, left out or replaced leads to, an accepted list
\* has each account in its role, except where the program leaves the role open.
AcceptedAsMeant ==
  task.job = "call" /\ verdict = "Ok" =>
    \A i \in DOMAIN Struct :
      Sent(i) = Struct[i].role \/ <<task.ix, Struct[i].role>> \in LeftOpen

\* The IDL has kept up with the program: its lists are accepted as they stand,
\* for all seven instructions.
IdlAccepted ==
  task.job = "call" /\ task.client = "idl" /\ ~task.slipped =>
    verdict \in {"None", "Ok"}

\* Where the program puts each field: after the bytes of those before it.
Starts(fields) ==
  LET at[i \in 1..Len(fields)] == IF i = 1 THEN 0 ELSE at[i - 1] + fields[i - 1].width
  IN  at

FieldsAt(kind) ==
  {[name |-> Written[kind][i].name, from |-> Starts(Written[kind])[i],
    width |-> Written[kind][i].width] : i \in DOMAIN Written[kind]}

\* A client never takes one field, or one kind of account, for another: what it
\* has read at any time stands in the account under the same name, in the same
\* bytes.
ReadAsWritten ==
  task.job = "read" /\ stage \in {"fields", "rest", "end"} =>
    Range(got) \subseteq FieldsAt(task.stored)

\* An account of the right kind is refused by no reader, except that the CLI
\* stumbles over what follows the last field it knows, which is only padding.
RefusesOnlyPadding ==
  task.job = "read" /\ task.stored \in Kinds /\ task.asked \in {task.stored, "Any"}
    /\ verdict \notin {"None", "Ok"} =>
      /\ task.client = "cli"
      /\ \A f \in FieldsAt(task.stored) \ Range(got) : f.name = "_reserved"

\* A name without zero bytes comes back whole from every reader, also when it
\* fills the field to the last byte.
NamesComeBack ==
  task.job = "name" /\ verdict = "Ok" /\ Nul \notin Range(task.text) => got = task.text
===============================================================================
