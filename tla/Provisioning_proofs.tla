------------------------- MODULE Provisioning_proofs -------------------------
(***************************************************************************)
(* Proofs about provisioning, for any templates, ids, slugs, addresses and *)
(* runs in flight, killed or interleaved at any statement.                 *)
(***************************************************************************)
EXTENDS Provisioning, RoleSeed_proofs

Single(S) == \E x : S = {x}

\* Runs by what they need to have found or been given.
Creating == {"org", "templates", "links", "found"}
Commanding == {"find", "user", "save", "address", "member", "late", "lateseat", "wipe",
               "wiperows", "wipejoins", "wiperoles", "wipeorg", "wipedone", "wipeuser",
               "wipemembers", "wipesave"}
Joining == {"check", "default", "insert", "role", "seat"}
HasUser == Joining \cup {"address", "member", "late", "lateseat", "wipemembers", "wipesave"}
HasOrg == Joining \cup {"templates", "links", "found", "user", "save", "address", "member", "late",
                        "lateseat", "wiperows", "wipejoins", "wiperoles", "wipeorg", "wipedone"}

RunShape(r) ==
    /\ run[r].pc \in Creating => Single(run[r].slug)
    /\ run[r].job = "command" => Single(run[r].slug) /\ Single(run[r].mail)
    /\ run[r].pc \in Commanding => run[r].job = "command"
    /\ run[r].pc \in HasUser => Single(run[r].user)
    /\ run[r].pc \in HasOrg => Single(run[r].org)
    /\ run[r].pc \in {"links", "found"} => run[r].shape = Codes
    /\ run[r].pc \in {"wiperoles", "wipeorg", "wipedone"} => run[r].gone \subseteq Users \X run[r].org

Inserted == {"templates", "links", "found"}
Entering == {"role", "seat"}

\* What a run's own transaction has made sure of, and the others keep so.
RunWorld(r) ==
    /\ run[r].pc \in Inserted =>
         \A o \in Orgs : slug[o] # run[r].slug /\ (o \in run[r].org => slug[o] = {})
    /\ run[r].pc = "wipedone" =>
         /\ run[r].org \cap kept = {}
         /\ \A m \in members : m[2] \in run[r].org => m \in run[r].gone
    /\ run[r].pc \in Entering =>
         /\ run[r].user \X run[r].org \cap members = {}
         /\ run[r].first => \A m \in main : m[1] \notin run[r].user

\* No two transactions insert rows that a unique index would refuse.
Apart(p, r) ==
    /\ run[p].pc \in Inserted /\ run[r].pc \in Inserted =>
         run[p].slug # run[r].slug /\ run[p].org \cap run[r].org = {}
    /\ run[p].pc \in Entering /\ run[r].pc \in Entering =>
         /\ run[p].user \X run[p].org # run[r].user \X run[r].org
         /\ ~(run[p].user = run[r].user /\ run[p].first /\ run[r].first)

\* Slugs and addresses name one row each; what is not there has no roles.
TablesShape ==
    /\ \A o \in Orgs : slug[o] = {} \/ Single(slug[o])
    /\ \A o \in Orgs, p \in Orgs : slug[o] = slug[p] /\ slug[o] # {} => o = p
    /\ \A o \in Orgs : slug[o] = {} => roles[o] = {}
    /\ \A u \in Users : mail[u] = {} \/ Single(mail[u])
    /\ \A u \in Users, w \in Users : mail[u] = mail[w] /\ mail[u] # {} => u = w

TablesTyped ==
    /\ SeedTypeOK
    /\ slug \in [Orgs -> SUBSET Slugs]
    /\ roles \in [Orgs -> SUBSET Codes]
    /\ grants \in [Orgs -> SUBSET (Codes \X Caps)]
    /\ \A o \in Orgs : grants[o] \subseteq roles[o] \X Caps
    /\ kept \subseteq OrgRows
    /\ mail \in [Users -> SUBSET Emails]
    /\ verified \subseteq People
    /\ cited \subseteq People
    /\ members \subseteq People \X OrgRows
    /\ main \subseteq members
    /\ owners \subseteq members

RunsTyped == run \in [Runs -> RunRecords]

RunsGood ==
    /\ \A r \in Runs : RunShape(r) /\ RunWorld(r)
    /\ \A p \in Runs, r \in Runs : p # r => Apart(p, r)

ProvInv == TablesTyped /\ TablesShape /\ RunsTyped /\ RunsGood

\* What the roles of tenants hold is in the catalog.
GrantsStand == \A o \in Orgs : grants[o] \subseteq roles[o] \X catalog

LEMMA TypeSplit == ProvTypeOK <=> TablesTyped /\ GrantsStand /\ RunsTyped
BY DEF ProvTypeOK, TablesTyped, GrantsStand, RunsTyped, SeedTypeOK

-----------------------------------------------------------------------------
(* How a run's record changes, by its fields.                              *)
\* The fields that other runs look at, and the record's own.
Keeps(p) ==
    /\ run'[p].job = run[p].job /\ run'[p].slug = run[p].slug /\ run'[p].mail = run[p].mail
    /\ run'[p].org = run[p].org /\ run'[p].user = run[p].user /\ run'[p].first = run[p].first
    /\ run'[p].shape = run[p].shape /\ run'[p].gone = run[p].gone

\* What is history, and the answer: a step of a run in flight leaves it alone.
Remembers(p) ==
    /\ run'[p].answer = run[p].answer /\ run'[p].reset = run[p].reset
    /\ run'[p].alone = run[p].alone /\ run'[p].calm = run[p].calm
    /\ run'[p].severed => run[p].severed

Same(p) == run'[p].pc = run[p].pc /\ Keeps(p)

OthersSame(r) == \A p \in Runs \ {r} : Same(p)

LEMMA FieldsTyped ==
    ASSUME NEW x \in RunRecords
    PROVE  /\ x.pc \in Steps /\ x.job \in Jobs /\ x.slug \in SUBSET Slugs /\ x.mail \in SUBSET Emails
           /\ x.org \in SUBSET Orgs /\ x.user \in SUBSET Users /\ x.first \in BOOLEAN
           /\ x.shape \in SUBSET Codes /\ x.copy \in SUBSET (Codes \X Caps)
           /\ x.severed \in BOOLEAN
           /\ x.gone \in SUBSET (Users \X Orgs) /\ x.answer \in Answers
BY DEF RunRecords

LEMMA IdleTyped ==
    /\ Idle \in RunRecords
    /\ \A a \in Answers : [Idle EXCEPT !.answer = a] \in RunRecords
BY DEF Idle, RunRecords, Steps, Jobs, Answers

LEMMA RunsAreRecords == RunsTyped => \A r \in Runs : run[r] \in RunRecords
BY DEF RunsTyped

LEMMA Replaced ==
    ASSUME RunsTyped, NEW r \in Runs, NEW x \in RunRecords, run' = [run EXCEPT ![r] = x]
    PROVE  RunsTyped' /\ run'[r] = x /\ OthersSame(r)
BY DEF RunsTyped, OthersSame, Same, Keeps

LEMMA GotoMoves ==
    ASSUME RunsTyped, NEW r \in Runs, NEW step \in Steps, Goto(r, step)
    PROVE  RunsTyped' /\ OthersSame(r) /\ run'[r].pc = step /\ Keeps(r)
           /\ Remembers(r)
<1>. DEFINE x == [run[r] EXCEPT !.pc = step]
<1>1. run[r] \in RunRecords
  BY RunsAreRecords
<1>2. x \in RunRecords /\ x.pc = step
  BY <1>1 DEF RunRecords
<1>3. run' = [run EXCEPT ![r] = x]
  BY DEF Goto, RunsTyped
<1>4. /\ x.job = run[r].job /\ x.slug = run[r].slug /\ x.mail = run[r].mail
      /\ x.org = run[r].org /\ x.user = run[r].user /\ x.first = run[r].first
      /\ x.shape = run[r].shape /\ x.gone = run[r].gone
      /\ x.answer = run[r].answer /\ x.reset = run[r].reset
      /\ x.alone = run[r].alone /\ x.calm = run[r].calm
      /\ x.severed => run[r].severed
  BY <1>1 DEF RunRecords
<1>. HIDE DEF x
<1>. QED
  BY <1>2, <1>3, <1>4, Replaced DEF Keeps, Remembers

\* A run that is over shares nothing with anybody.
Over(r) == run'[r].pc = "idle" /\ run'[r].job # "command"

LEMMA EndMoves ==
    ASSUME RunsTyped, NEW r \in Runs, NEW a \in Answers, End(r, a)
    PROVE  RunsTyped' /\ OthersSame(r) /\ Over(r) /\ run'[r].answer = a
<1>. DEFINE x == [Idle EXCEPT !.answer = a]
<1>1. x \in RunRecords
  BY IdleTyped
<1>2. x.pc = "idle" /\ x.job = "create" /\ x.answer = a
  BY DEF Idle
<1>3. run' = [run EXCEPT ![r] = x]
  BY DEF End
<1>. HIDE DEF x
<1>. QED
  BY <1>1, <1>2, <1>3, Replaced DEF Over

LEMMA CrashMoves ==
    ASSUME RunsTyped, NEW r \in Runs, Crash(r)
    PROVE  RunsTyped' /\ OthersSame(r) /\ Over(r)
BY EndMoves DEF Crash, Answers

LEMMA BeginMoves ==
    ASSUME RunsTyped, NEW r \in Runs, NEW x \in RunRecords, Begin(r, x)
    PROVE  /\ RunsTyped' /\ OthersSame(r)
           /\ run'[r].pc = x.pc /\ run'[r].job = x.job /\ run'[r].slug = x.slug
           /\ run'[r].mail = x.mail /\ run'[r].org = x.org /\ run'[r].user = x.user
           /\ run'[r].answer = x.answer /\ run'[r].reset = x.reset /\ run'[r].calm = x.calm
           /\ run'[r].severed = x.severed
           /\ run'[r].alone = (InFlight = {})
<1>1. \A q \in Runs : run[q] \in RunRecords
  BY RunsAreRecords
<1>2. [x EXCEPT !.alone = InFlight = {}] \in RunRecords
  BY DEF RunRecords
<1>3. \A q \in Runs : [run[q] EXCEPT !.alone = FALSE] \in RunRecords
  BY <1>1 DEF RunRecords
<1>4. RunsTyped'
  <2>. HIDE DEF RunRecords
  <2>. QED
    BY <1>1, <1>2, <1>3 DEF Begin, RunsTyped
<1>5. ASSUME NEW p \in Runs \ {r} PROVE Same(p)
  <2>1. run'[p] = run[p] \/ run'[p] = [run[p] EXCEPT !.alone = FALSE]
    BY <1>5 DEF Begin
  <2>. QED
    BY <1>1, <2>1 DEF RunRecords, Same, Keeps
<1>6. run'[r] = [x EXCEPT !.alone = InFlight = {}]
  BY DEF Begin
<1>. QED
  BY <1>4, <1>5, <1>6 DEF OthersSame, RunRecords

\* Staff at work: who is in flight is alone no longer, and may lose a copy.
Overtaken(p, lost) ==
    \E b \in BOOLEAN :
        /\ b <=> run[p].severed \/ \E q \in run[p].copy : q[2] \in lost
        /\ run'[p] = [run[p] EXCEPT !.alone = FALSE, !.severed = b]

LEMMA NotAloneSees ==
    ASSUME RunsTyped, NEW lost, NotAlone(lost), NEW p \in Runs
    PROVE  /\ p \notin InFlight => run'[p] = run[p]
           /\ p \in InFlight => Overtaken(p, lost)
<1>. DEFINE b == run[p].severed \/ \E q \in run[p].copy : q[2] \in lost
<1>1. run[p] \in RunRecords
  BY RunsAreRecords
<1>2. b \in BOOLEAN
  BY <1>1, FieldsTyped
<1>3. p \in InFlight => run'[p] = [run[p] EXCEPT !.alone = FALSE, !.severed = b]
  BY DEF NotAlone
<1>4. p \notin InFlight => run'[p] = run[p]
  BY DEF NotAlone
<1>5. b <=> run[p].severed \/ \E q \in run[p].copy : q[2] \in lost
  OBVIOUS
<1>. HIDE DEF b
<1>. QED
  BY <1>2, <1>3, <1>4, <1>5 DEF Overtaken

LEMMA NotAloneMoves ==
    ASSUME RunsTyped, NEW lost, NotAlone(lost)
    PROVE  RunsTyped' /\ \A p \in Runs : Same(p)
<1>1. \A q \in Runs : run[q] \in RunRecords
  BY RunsAreRecords
<1>2. ASSUME NEW p \in Runs PROVE run'[p] \in RunRecords /\ Same(p)
  <2>1. run'[p] = run[p] \/ \E b \in BOOLEAN : run'[p] = [run[p] EXCEPT !.alone = FALSE, !.severed = b]
    BY NotAloneSees DEF Overtaken
  <2>. QED
    BY <1>1, <2>1 DEF RunRecords, Same, Keeps
<1>3. \E f : run' = [q \in Runs |-> f[q]]
  <2>. DEFINE f == run'
  <2>1. run' = [q \in Runs |-> f[q]]
    BY DEF NotAlone
  <2>. HIDE DEF f
  <2>. QED
    BY <2>1
<1>4. RunsTyped'
  BY <1>2, <1>3 DEF RunsTyped
<1>. QED
  BY <1>2, <1>4

LEMMA WipedMoves ==
    ASSUME RunsTyped, NEW r \in Runs, NEW step \in Steps, Wiped(r, step)
    PROVE  /\ RunsTyped' /\ OthersSame(r)
           /\ run'[r].pc = step /\ run'[r].job = run[r].job /\ run'[r].slug = run[r].slug
           /\ run'[r].mail = run[r].mail /\ Remembers(r)
<1>1. \A q \in Runs : run[q] \in RunRecords
  BY RunsAreRecords
<1>2. [run[r] EXCEPT !.pc = step, !.org = {}, !.user = {}, !.gone = {}] \in RunRecords
  BY <1>1 DEF RunRecords
<1>3. \A q \in Runs : [run[q] EXCEPT !.calm = FALSE] \in RunRecords
  BY <1>1 DEF RunRecords
<1>4. RunsTyped'
  <2>. HIDE DEF RunRecords
  <2>. QED
    BY <1>1, <1>2, <1>3 DEF Wiped, RunsTyped
<1>5. ASSUME NEW p \in Runs \ {r} PROVE Same(p)
  <2>1. run'[p] = run[p] \/ run'[p] = [run[p] EXCEPT !.calm = FALSE]
    BY <1>5 DEF Wiped
  <2>. QED
    BY <1>1, <2>1 DEF RunRecords, Same, Keeps
<1>6. run'[r] = [run[r] EXCEPT !.pc = step, !.org = {}, !.user = {}, !.gone = {}]
  BY DEF Wiped
<1>. QED
  BY <1>1, <1>4, <1>5, <1>6 DEF OthersSame, RunRecords, Remembers

-----------------------------------------------------------------------------
(* What stands when a run does not move, or its tables do not.             *)
LEMMA ShapeStands ==
    ASSUME NEW p \in Runs, RunShape(p), Same(p)
    PROVE  RunShape(p)'
BY DEF RunShape, Same, Keeps

LEMMA WorldStands ==
    ASSUME NEW p \in Runs, RunWorld(p), Same(p), UNCHANGED <<slug, kept, members, main>>
    PROVE  RunWorld(p)'
BY DEF RunWorld, Same, Keeps

LEMMA ApartStands ==
    ASSUME NEW p \in Runs, NEW q \in Runs, Apart(p, q), Same(p), Same(q)
    PROVE  Apart(p, q)'
BY DEF Apart, Same, Keeps

\* A run that holds no inserted row constrains nobody.
Plain(r) == run'[r].pc \notin Inserted \cup Entering \cup {"wipedone"}

LEMMA PlainIsApart ==
    ASSUME NEW r \in Runs, Plain(r)
    PROVE  RunWorld(r)' /\ \A p \in Runs : Apart(p, r)' /\ Apart(r, p)'
BY DEF Plain, RunWorld, Apart

(* The runs are good after a step of r if the others stand and r is good.  *)
LEMMA RunsMove ==
    ASSUME RunsGood, NEW r \in Runs, OthersSame(r), RunShape(r)', RunWorld(r)',
           \A p \in Runs \ {r} : RunWorld(p)',
           \A p \in Runs \ {r} : Apart(p, r)' /\ Apart(r, p)'
    PROVE  RunsGood'
<1>1. \A p \in Runs \ {r} : RunShape(p)'
  BY ShapeStands DEF RunsGood, OthersSame
<1>2. \A p \in Runs \ {r}, q \in Runs \ {r} : p # q => Apart(p, q)'
  BY ApartStands DEF RunsGood, OthersSame
<1>. QED
  BY <1>1, <1>2 DEF RunsGood

LEMMA PlainMove ==
    ASSUME RunsGood, NEW r \in Runs, OthersSame(r), RunShape(r)', Plain(r),
           UNCHANGED <<slug, kept, members, main>>
    PROVE  RunsGood'
<1>1. \A p \in Runs \ {r} : RunWorld(p)'
  BY WorldStands DEF RunsGood, OthersSame
<1>. QED
  BY <1>1, PlainIsApart, RunsMove

LEMMA OverIsShaped ==
    ASSUME NEW r \in Runs, Over(r)
    PROVE  RunShape(r)' /\ Plain(r)
BY DEF Over, RunShape, Plain, Creating, Commanding, Joining, HasUser, HasOrg, Inserted, Entering

-----------------------------------------------------------------------------
(* The same for the steps that fill one more field.                        *)
LEMMA OrgMoves ==
    ASSUME RunsTyped, NEW r \in Runs, NEW step \in Steps, NEW S \in SUBSET Orgs,
           run' = [run EXCEPT ![r].pc = step, ![r].org = S]
    PROVE  /\ RunsTyped' /\ OthersSame(r) /\ run'[r].pc = step /\ run'[r].org = S
           /\ run'[r].job = run[r].job /\ run'[r].slug = run[r].slug /\ run'[r].mail = run[r].mail
           /\ run'[r].user = run[r].user /\ run'[r].first = run[r].first
           /\ run'[r].shape = run[r].shape /\ run'[r].gone = run[r].gone
           /\ Remembers(r)
<1>. DEFINE x == [run[r] EXCEPT !.pc = step, !.org = S]
<1>1. run[r] \in RunRecords
  BY RunsAreRecords
<1>2. x \in RunRecords
  BY <1>1 DEF RunRecords
<1>3. run' = [run EXCEPT ![r] = x]
  BY DEF RunsTyped
<1>4. /\ x.pc = step /\ x.org = S
      /\ x.job = run[r].job /\ x.slug = run[r].slug /\ x.mail = run[r].mail
      /\ x.user = run[r].user /\ x.first = run[r].first
      /\ x.shape = run[r].shape /\ x.gone = run[r].gone
      /\ x.answer = run[r].answer /\ x.reset = run[r].reset
      /\ x.alone = run[r].alone /\ x.calm = run[r].calm
      /\ x.severed => run[r].severed
  BY <1>1 DEF RunRecords
<1>. HIDE DEF x
<1>. QED
  BY <1>2, <1>3, <1>4, Replaced DEF Remembers

LEMMA UserMoves ==
    ASSUME RunsTyped, NEW r \in Runs, NEW step \in Steps, NEW S \in SUBSET Users,
           run' = [run EXCEPT ![r].pc = step, ![r].user = S]
    PROVE  /\ RunsTyped' /\ OthersSame(r) /\ run'[r].pc = step /\ run'[r].user = S
           /\ run'[r].job = run[r].job /\ run'[r].slug = run[r].slug /\ run'[r].mail = run[r].mail
           /\ run'[r].org = run[r].org /\ run'[r].first = run[r].first
           /\ run'[r].shape = run[r].shape /\ run'[r].gone = run[r].gone
           /\ Remembers(r)
<1>. DEFINE x == [run[r] EXCEPT !.pc = step, !.user = S]
<1>1. run[r] \in RunRecords
  BY RunsAreRecords
<1>2. x \in RunRecords
  BY <1>1 DEF RunRecords
<1>3. run' = [run EXCEPT ![r] = x]
  BY DEF RunsTyped
<1>4. /\ x.pc = step /\ x.user = S
      /\ x.job = run[r].job /\ x.slug = run[r].slug /\ x.mail = run[r].mail
      /\ x.org = run[r].org /\ x.first = run[r].first
      /\ x.shape = run[r].shape /\ x.gone = run[r].gone
      /\ x.answer = run[r].answer /\ x.reset = run[r].reset
      /\ x.alone = run[r].alone /\ x.calm = run[r].calm
      /\ x.severed => run[r].severed
  BY <1>1 DEF RunRecords
<1>. HIDE DEF x
<1>. QED
  BY <1>2, <1>3, <1>4, Replaced DEF Remembers

LEMMA FirstMoves ==
    ASSUME RunsTyped, NEW r \in Runs, NEW step \in Steps, NEW S \in BOOLEAN,
           run' = [run EXCEPT ![r].pc = step, ![r].first = S]
    PROVE  /\ RunsTyped' /\ OthersSame(r) /\ run'[r].pc = step /\ run'[r].first = S
           /\ run'[r].job = run[r].job /\ run'[r].slug = run[r].slug /\ run'[r].mail = run[r].mail
           /\ run'[r].org = run[r].org /\ run'[r].user = run[r].user
           /\ run'[r].shape = run[r].shape /\ run'[r].gone = run[r].gone
           /\ Remembers(r)
<1>. DEFINE x == [run[r] EXCEPT !.pc = step, !.first = S]
<1>1. run[r] \in RunRecords
  BY RunsAreRecords
<1>2. x \in RunRecords
  BY <1>1 DEF RunRecords
<1>3. run' = [run EXCEPT ![r] = x]
  BY DEF RunsTyped
<1>4. /\ x.pc = step /\ x.first = S
      /\ x.job = run[r].job /\ x.slug = run[r].slug /\ x.mail = run[r].mail
      /\ x.org = run[r].org /\ x.user = run[r].user
      /\ x.shape = run[r].shape /\ x.gone = run[r].gone
      /\ x.answer = run[r].answer /\ x.reset = run[r].reset
      /\ x.alone = run[r].alone /\ x.calm = run[r].calm
      /\ x.severed => run[r].severed
  BY <1>1 DEF RunRecords
<1>. HIDE DEF x
<1>. QED
  BY <1>2, <1>3, <1>4, Replaced DEF Remembers

LEMMA ShapeMoves ==
    ASSUME RunsTyped, NEW r \in Runs, NEW step \in Steps, NEW S \in SUBSET Codes,
           run' = [run EXCEPT ![r].pc = step, ![r].shape = S]
    PROVE  /\ RunsTyped' /\ OthersSame(r) /\ run'[r].pc = step /\ run'[r].shape = S
           /\ run'[r].job = run[r].job /\ run'[r].slug = run[r].slug /\ run'[r].mail = run[r].mail
           /\ run'[r].org = run[r].org /\ run'[r].user = run[r].user
           /\ run'[r].first = run[r].first /\ run'[r].gone = run[r].gone
           /\ Remembers(r)
<1>. DEFINE x == [run[r] EXCEPT !.pc = step, !.shape = S]
<1>1. run[r] \in RunRecords
  BY RunsAreRecords
<1>2. x \in RunRecords
  BY <1>1 DEF RunRecords
<1>3. run' = [run EXCEPT ![r] = x]
  BY DEF RunsTyped
<1>4. /\ x.pc = step /\ x.shape = S
      /\ x.job = run[r].job /\ x.slug = run[r].slug /\ x.mail = run[r].mail
      /\ x.org = run[r].org /\ x.user = run[r].user
      /\ x.first = run[r].first /\ x.gone = run[r].gone
      /\ x.answer = run[r].answer /\ x.reset = run[r].reset
      /\ x.alone = run[r].alone /\ x.calm = run[r].calm
      /\ x.severed => run[r].severed
  BY <1>1 DEF RunRecords
<1>. HIDE DEF x
<1>. QED
  BY <1>2, <1>3, <1>4, Replaced DEF Remembers

LEMMA CopyMoves ==
    ASSUME RunsTyped, NEW r \in Runs, NEW step \in Steps, NEW S \in SUBSET (Codes \X Caps),
           run' = [run EXCEPT ![r].pc = step, ![r].copy = S, ![r].severed = FALSE]
    PROVE  /\ RunsTyped' /\ OthersSame(r) /\ run'[r].pc = step
           /\ run'[r].job = run[r].job /\ run'[r].slug = run[r].slug /\ run'[r].mail = run[r].mail
           /\ run'[r].org = run[r].org /\ run'[r].user = run[r].user
           /\ run'[r].first = run[r].first /\ run'[r].shape = run[r].shape /\ run'[r].gone = run[r].gone
           /\ Remembers(r)
<1>. DEFINE x == [run[r] EXCEPT !.pc = step, !.copy = S, !.severed = FALSE]
<1>1. run[r] \in RunRecords
  BY RunsAreRecords
<1>2. x \in RunRecords
  BY <1>1 DEF RunRecords
<1>3. run' = [run EXCEPT ![r] = x]
  BY DEF RunsTyped
<1>4. /\ x.pc = step
      /\ x.job = run[r].job /\ x.slug = run[r].slug /\ x.mail = run[r].mail
      /\ x.org = run[r].org /\ x.user = run[r].user
      /\ x.first = run[r].first /\ x.shape = run[r].shape /\ x.gone = run[r].gone
      /\ x.answer = run[r].answer /\ x.reset = run[r].reset
      /\ x.alone = run[r].alone /\ x.calm = run[r].calm
      /\ x.severed => run[r].severed
  BY <1>1 DEF RunRecords
<1>. HIDE DEF x
<1>. QED
  BY <1>2, <1>3, <1>4, Replaced DEF Remembers

LEMMA GoneMoves ==
    ASSUME RunsTyped, NEW r \in Runs, NEW step \in Steps, NEW S \in SUBSET (Users \X Orgs),
           run' = [run EXCEPT ![r].pc = step, ![r].gone = S]
    PROVE  /\ RunsTyped' /\ OthersSame(r) /\ run'[r].pc = step /\ run'[r].gone = S
           /\ run'[r].job = run[r].job /\ run'[r].slug = run[r].slug /\ run'[r].mail = run[r].mail
           /\ run'[r].org = run[r].org /\ run'[r].user = run[r].user
           /\ run'[r].first = run[r].first /\ run'[r].shape = run[r].shape
           /\ Remembers(r)
<1>. DEFINE x == [run[r] EXCEPT !.pc = step, !.gone = S]
<1>1. run[r] \in RunRecords
  BY RunsAreRecords
<1>2. x \in RunRecords
  BY <1>1 DEF RunRecords
<1>3. run' = [run EXCEPT ![r] = x]
  BY DEF RunsTyped
<1>4. /\ x.pc = step /\ x.gone = S
      /\ x.job = run[r].job /\ x.slug = run[r].slug /\ x.mail = run[r].mail
      /\ x.org = run[r].org /\ x.user = run[r].user
      /\ x.first = run[r].first /\ x.shape = run[r].shape
      /\ x.answer = run[r].answer /\ x.reset = run[r].reset
      /\ x.alone = run[r].alone /\ x.calm = run[r].calm
      /\ x.severed => run[r].severed
  BY <1>1 DEF RunRecords
<1>. HIDE DEF x
<1>. QED
  BY <1>2, <1>3, <1>4, Replaced DEF Remembers

-----------------------------------------------------------------------------
(* Steps that leave the tables alone.  Each step keeps the invariant and   *)
(* is a step of Tenants, or none there.                                    *)
Quiet == UNCHANGED <<seedVars, orgVars, userVars, memberVars>>

Kept == ProvInv' /\ [T!TenantsNext]_T!tenantVars

LEMMA QuietTables ==
    ASSUME TablesTyped, TablesShape, Quiet
    PROVE  TablesTyped' /\ TablesShape' /\ UNCHANGED T!tenantVars
BY DEF TablesTyped, TablesShape, Quiet, seedVars, orgVars, userVars, memberVars, SeedTypeOK,
       OrgRows, People, T!tenantVars

LEMMA QuietMove ==
    ASSUME ProvInv, NEW r \in Runs, RunsTyped', OthersSame(r), RunShape(r)', Plain(r), Quiet
    PROVE  Kept
<1>1. UNCHANGED <<slug, kept, members, main>>
  BY DEF Quiet, orgVars, memberVars
<1>2. RunsGood'
  BY <1>1, PlainMove DEF ProvInv
<1>. QED
  BY <1>2, QuietTables DEF Kept, ProvInv

LEMMA QuietEnd ==
    ASSUME ProvInv, NEW r \in Runs, NEW a \in Answers, End(r, a), Quiet
    PROVE  Kept
BY EndMoves, OverIsShaped, QuietMove DEF ProvInv

LEMMA QuietCrash ==
    ASSUME ProvInv, NEW r \in Runs, Crash(r), Quiet
    PROVE  Kept
BY CrashMoves, OverIsShaped, QuietMove DEF ProvInv


LEMMA QuietHold ==
    ASSUME ProvInv, NEW r \in Runs, RunsTyped', OthersSame(r), RunShape(r)', RunWorld(r)',
           \A p \in Runs \ {r} : Apart(p, r)' /\ Apart(r, p)', Quiet
    PROVE  Kept
<1>1. UNCHANGED <<slug, kept, members, main>>
  BY DEF Quiet, orgVars, memberVars
<1>2. \A p \in Runs \ {r} : RunWorld(p)'
  BY <1>1, WorldStands DEF ProvInv, RunsGood, OthersSame
<1>3. RunsGood'
  BY <1>2, RunsMove DEF ProvInv
<1>. QED
  BY <1>3, QuietTables DEF Kept, ProvInv

LEMMA QuietOn ==
    ASSUME ProvInv, NEW r \in Runs, RunsTyped', OthersSame(r), RunShape(r)', Quiet,
           \/ run[r].pc \in Inserted /\ run'[r].pc \in Inserted
           \/ run[r].pc \in Entering /\ run'[r].pc \in Entering,
           run'[r].slug = run[r].slug, run'[r].org = run[r].org, run'[r].user = run[r].user,
           run'[r].first = run[r].first
    PROVE  Kept
<1>1. Inserted \cap Entering = {} /\ "wipedone" \notin Inserted \cup Entering
  BY DEF Inserted, Entering
<1>2. RunWorld(r) /\ \A p \in Runs \ {r} : Apart(p, r) /\ Apart(r, p) /\ Same(p)
  BY DEF ProvInv, RunsGood, OthersSame
<1>3. UNCHANGED <<slug, kept, members, main>>
  BY DEF Quiet, orgVars, memberVars
<1>4. RunWorld(r)'
  BY <1>1, <1>2, <1>3 DEF RunWorld
<1>5. \A p \in Runs \ {r} : Apart(p, r)' /\ Apart(r, p)'
  BY <1>1, <1>2 DEF Apart, Same, Keeps
<1>. QED
  BY <1>4, <1>5, QuietHold

-----------------------------------------------------------------------------
(* create_organization *)
LEMMA ShapeOf ==
    ASSUME ProvInv, NEW r \in Runs
    PROVE  RunShape(r) /\ RunWorld(r) /\ run[r] \in RunRecords
BY RunsAreRecords DEF ProvInv, RunsGood

LEMMA CallCreateKeeps ==
    ASSUME ProvInv, NEW r \in Runs, NEW s \in Slugs, CallCreate(r, s)
    PROVE  Kept
<1>. DEFINE x == [Idle EXCEPT !.pc = "org", !.job = "create", !.slug = {s}]
<1>1. x \in RunRecords /\ x.pc = "org" /\ x.job = "create" /\ x.slug = {s}
  BY DEF Idle, RunRecords, Steps, Jobs, Answers
<1>2. Begin(r, x) /\ Quiet
  BY DEF CallCreate, Quiet
<1>. HIDE DEF x
<1>3. /\ RunsTyped' /\ OthersSame(r) /\ run'[r].pc = "org" /\ run'[r].job = "create"
      /\ run'[r].slug = {s}
  BY <1>1, <1>2, BeginMoves DEF ProvInv
<1>4. RunShape(r)' /\ Plain(r)
  BY <1>3 DEF RunShape, Plain, Single, Creating, Commanding, Joining, HasUser, HasOrg, Inserted,
              Entering
<1>. QED
  BY <1>2, <1>3, <1>4, QuietMove

LEMMA InsertOrgKeeps ==
    ASSUME ProvInv, NEW r \in Runs, InsertOrg(r)
    PROVE  Kept
<1>1. Quiet
  BY DEF InsertOrg, Quiet
<1>2. CASE Crash(r)
  BY <1>1, <1>2, QuietCrash
<1>3. ASSUME ~SlugTaken(r), NEW o \in FreshOrgs,
             run' = [run EXCEPT ![r].pc = "templates", ![r].org = {o}]
      PROVE  Kept
  <2>1. o \in Orgs /\ slug[o] = {} /\ {o} \in SUBSET Orgs /\ "templates" \in Steps
    BY DEF FreshOrgs, OrgRows, Steps
  <2>2. /\ RunsTyped' /\ OthersSame(r) /\ run'[r].pc = "templates" /\ run'[r].org = {o}
        /\ run'[r].job = run[r].job /\ run'[r].slug = run[r].slug /\ run'[r].mail = run[r].mail
    BY <1>3, <2>1, OrgMoves DEF ProvInv
  <2>3. RunShape(r) /\ run[r].pc = "org"
    BY ShapeOf DEF InsertOrg
  <2>4. RunShape(r)'
    BY <2>2, <2>3 DEF RunShape, Single, Creating, Commanding, Joining, HasUser, HasOrg
  <2>5. RunWorld(r)'
    BY <1>1, <1>3, <2>1, <2>2 DEF RunWorld, SlugTaken, Quiet, orgVars, Inserted, Entering
  <2>6. ASSUME NEW p \in Runs \ {r} PROVE Apart(p, r)' /\ Apart(r, p)'
    <3>1. Same(p)
      BY <2>2 DEF OthersSame
    <3>2. run[p].pc \in Inserted => run[p].slug # run[r].slug /\ o \notin run[p].org
      BY <1>3 DEF InsertOrg, SlugPending, Inserting, Inserted, FreshOrgs, InFlight
    <3>. QED
      BY <2>2, <3>1, <3>2 DEF Apart, Same, Keeps, Inserted, Entering
  <2>. QED
    BY <1>1, <2>2, <2>4, <2>5, <2>6, QuietHold
<1>. QED
  BY <1>2, <1>3 DEF InsertOrg

LEMMA ReadTemplatesKeeps ==
    ASSUME ProvInv, NEW r \in Runs, ReadTemplates(r)
    PROVE  Kept
<1>1. Quiet
  BY DEF ReadTemplates, Quiet
<1>2. CASE Crash(r)
  BY <1>1, <1>2, QuietCrash
<1>3. CASE AllTemplates /\ run' = [run EXCEPT ![r].pc = "links", ![r].shape = templates]
  <2>1. templates \in SUBSET Codes /\ "links" \in Steps /\ templates = Codes
    BY <1>3 DEF ProvInv, TablesTyped, SeedTypeOK, Steps, AllTemplates
  <2>2. /\ RunsTyped' /\ OthersSame(r) /\ run'[r].pc = "links" /\ run'[r].shape = Codes
        /\ run'[r].job = run[r].job /\ run'[r].slug = run[r].slug /\ run'[r].mail = run[r].mail
        /\ run'[r].org = run[r].org /\ run'[r].user = run[r].user /\ run'[r].first = run[r].first
    BY <1>3, <2>1, ShapeMoves DEF ProvInv
  <2>3. RunShape(r) /\ run[r].pc = "templates"
    BY ShapeOf DEF ReadTemplates
  <2>4. RunShape(r)'
    BY <2>2, <2>3 DEF RunShape, Creating, Commanding, Joining, HasUser, HasOrg
  <2>. QED
    BY <1>1, <2>2, <2>3, <2>4, QuietOn DEF Inserted
<1>. QED
  BY <1>2, <1>3 DEF ReadTemplates

LEMMA ReadLinksKeeps ==
    ASSUME ProvInv, NEW r \in Runs, ReadLinks(r)
    PROVE  Kept
<1>. DEFINE S == {p \in holds : p[1] \in run[r].shape}
<1>1. Quiet /\ run' = [run EXCEPT ![r].pc = "found", ![r].copy = S, ![r].severed = FALSE]
  BY DEF ReadLinks, Quiet
<1>2. S \in SUBSET (Codes \X Caps) /\ "found" \in Steps
  BY DEF ProvInv, TablesTyped, SeedTypeOK, Steps
<1>. HIDE DEF S
<1>3. /\ RunsTyped' /\ OthersSame(r) /\ run'[r].pc = "found" /\ run'[r].shape = run[r].shape
      /\ run'[r].job = run[r].job /\ run'[r].slug = run[r].slug /\ run'[r].mail = run[r].mail
      /\ run'[r].org = run[r].org /\ run'[r].user = run[r].user /\ run'[r].first = run[r].first
  BY <1>1, <1>2, CopyMoves DEF ProvInv
<1>4. RunShape(r) /\ run[r].pc = "links"
  BY ShapeOf DEF ReadLinks
<1>5. RunShape(r)'
  BY <1>3, <1>4 DEF RunShape, Creating, Commanding, Joining, HasUser, HasOrg
<1>. QED
  BY <1>1, <1>3, <1>4, <1>5, QuietOn DEF Inserted

LEMMA CommitOrgKeeps ==
    ASSUME ProvInv, NEW r \in Runs, CommitOrg(r)
    PROVE  Kept
<1>1. /\ RunShape(r) /\ RunWorld(r) /\ run[r] \in RunRecords /\ run[r].pc = "found"
      /\ UNCHANGED <<seedVars, kept, userVars, memberVars>>
  BY ShapeOf DEF CommitOrg
<1>2. PICK o : run[r].org = {o}
  BY <1>1 DEF RunShape, Single, HasOrg
<1>3. PICK s : run[r].slug = {s}
  BY <1>1 DEF RunShape, Single, Creating
<1>4. o \in Orgs /\ s \in Slugs /\ run[r].shape = Codes /\ run[r].copy \in SUBSET (Codes \X Caps)
  BY <1>1, <1>2, <1>3, FieldsTyped DEF RunShape
<1>5. slug[o] = {} /\ \A q \in Orgs : slug[q] # {s}
  BY <1>1, <1>2, <1>3, <1>4 DEF RunWorld, Inserted
<1>6. TablesTyped /\ TablesShape
  BY DEF ProvInv
<1>. SUFFICES ASSUME ~run[r].severed PROVE Kept
  <2>1. CASE run[r].severed
    <3>1. Crash(r) /\ Quiet
      BY <1>1, <2>1 DEF CommitOrg, Quiet, orgVars
    <3>. QED
      BY <3>1, QuietCrash
  <2>. QED
    BY <2>1
<1>7. /\ slug' = [slug EXCEPT ![o] = {s}]
      /\ roles' = [roles EXCEPT ![o] = Codes]
      /\ grants' = [grants EXCEPT ![o] = run[r].copy]
  BY <1>2, <1>3, <1>4, <1>6 DEF CommitOrg, TablesTyped
<1>8. \A q \in Orgs : s \notin slug[q]
  BY <1>5, <1>6 DEF TablesShape, Single
<1>9. TablesTyped'
  <2>1. OrgRows \subseteq OrgRows' /\ People' = People
    BY <1>1, <1>6, <1>7 DEF OrgRows, People, userVars, TablesTyped
  <2>2. \A q \in Orgs : grants'[q] \subseteq roles'[q] \X Caps
    BY <1>4, <1>6, <1>7 DEF TablesTyped
  <2>. QED
    BY <1>1, <1>4, <1>6, <1>7, <2>1, <2>2
    DEF TablesTyped, seedVars, userVars, memberVars, SeedTypeOK
<1>10. TablesShape'
  BY <1>1, <1>5, <1>6, <1>7 DEF TablesShape, TablesTyped, userVars, Single
<1>11. T!Found(o, s)
  BY <1>1, <1>5, <1>7, <1>8 DEF T!Found, userVars, memberVars
<1>12. RunsTyped' /\ OthersSame(r) /\ RunShape(r)' /\ Plain(r)
  <2>1. CASE run[r].job = "command" /\ Goto(r, "user")
    <3>1. RunsTyped' /\ OthersSame(r) /\ run'[r].pc = "user" /\ Keeps(r)
      BY <2>1, GotoMoves DEF ProvInv, Steps
    <3>. QED
      BY <1>1, <2>1, <3>1 DEF Keeps, RunShape, Plain, Creating, Commanding, Joining, HasUser, HasOrg,
                             Inserted, Entering
  <2>2. CASE End(r, "done")
    BY <2>2, EndMoves, OverIsShaped DEF ProvInv, Answers
  <2>. QED
    BY <2>1, <2>2 DEF CommitOrg, AfterCreate
<1>13. ASSUME NEW p \in Runs \ {r} PROVE RunWorld(p)'
  <2>1. RunWorld(p) /\ RunShape(p) /\ Same(p) /\ Apart(p, r)
    BY <1>12 DEF ProvInv, RunsGood, OthersSame
  <2>2. run[p].pc \in Inserted => run[p].slug # {s} /\ o \notin run[p].org
    BY <1>1, <1>2, <1>3, <2>1 DEF Apart, Inserted
  <2>. QED
    BY <1>1, <1>4, <1>6, <1>7, <2>1, <2>2
    DEF RunWorld, Same, Keeps, TablesTyped, memberVars
<1>14. RunsGood'
  BY <1>12, <1>13, PlainIsApart, RunsMove DEF ProvInv
<1>. QED
  BY <1>4, <1>9, <1>10, <1>11, <1>12, <1>14 DEF Kept, ProvInv, T!TenantsNext

-----------------------------------------------------------------------------
(* assign_owner_membership *)
LEMMA CallAssignKeeps ==
    ASSUME ProvInv, NEW r \in Runs, NEW u \in People, NEW o \in OrgRows, CallAssign(r, u, o)
    PROVE  Kept
<1>. DEFINE x == [Idle EXCEPT !.pc = "check", !.job = "assign", !.org = {o}, !.user = {u}]
<1>1. /\ x \in RunRecords /\ x.pc = "check" /\ x.job = "assign" /\ x.org = {o} /\ x.user = {u}
  BY DEF Idle, RunRecords, Steps, Jobs, Answers, People, OrgRows
<1>2. Begin(r, x) /\ Quiet
  BY DEF CallAssign, Quiet
<1>. HIDE DEF x
<1>3. /\ RunsTyped' /\ OthersSame(r) /\ run'[r].pc = "check" /\ run'[r].job = "assign"
      /\ run'[r].org = {o} /\ run'[r].user = {u}
  BY <1>1, <1>2, BeginMoves DEF ProvInv
<1>4. RunShape(r)' /\ Plain(r)
  BY <1>3 DEF RunShape, Plain, Single, Creating, Commanding, Joining, HasUser, HasOrg, Inserted,
              Entering
<1>. QED
  BY <1>2, <1>3, <1>4, QuietMove

\* A step that only moves on, to one that holds nothing.
LEMMA QuietGoto ==
    ASSUME ProvInv, NEW r \in Runs, NEW step \in Steps, Goto(r, step), Quiet,
           step \notin Inserted \cup Entering \cup {"wipedone"},
           step \in Creating => run[r].pc \in Creating \/ run[r].job = "command",
           step \in Commanding => run[r].job = "command",
           step \in HasUser => run[r].pc \in HasUser,
           step \in HasOrg => run[r].pc \in HasOrg,
           step # "wiperoles", step = "wipeorg" => run[r].pc = "wiperoles"
    PROVE  Kept
<1>1. RunsTyped' /\ OthersSame(r) /\ run'[r].pc = step /\ Keeps(r)
  BY GotoMoves DEF ProvInv
<1>2. RunShape(r)
  BY ShapeOf
<1>3. RunShape(r)' /\ Plain(r)
  BY <1>1, <1>2 DEF RunShape, Keeps, Plain, Inserted
<1>. QED
  BY <1>1, <1>3, QuietMove

LEMMA CheckKeeps ==
    ASSUME ProvInv, NEW r \in Runs, Check(r)
    PROVE  Kept
<1>1. Quiet /\ run[r].pc = "check"
  BY DEF Check, Quiet
<1>2. CASE Crash(r)
  BY <1>1, <1>2, QuietCrash
<1>3. CASE Goto(r, "default")
  BY <1>1, <1>3, QuietGoto
  DEF Steps, Creating, Commanding, Joining, HasUser, HasOrg, Inserted, Entering
<1>. QED
  BY <1>2, <1>3 DEF Check

LEMMA ReadDefaultKeeps ==
    ASSUME ProvInv, NEW r \in Runs, ReadDefault(r)
    PROVE  Kept
<1>. DEFINE S == (DefaultOf(r) = {})
<1>1. Quiet /\ run[r].pc = "default" /\ run' = [run EXCEPT ![r].pc = "insert", ![r].first = S]
  BY DEF ReadDefault, Quiet
<1>2. S \in BOOLEAN /\ "insert" \in Steps
  BY DEF Steps
<1>. HIDE DEF S
<1>3. /\ RunsTyped' /\ OthersSame(r) /\ run'[r].pc = "insert"
      /\ run'[r].job = run[r].job /\ run'[r].slug = run[r].slug /\ run'[r].mail = run[r].mail
      /\ run'[r].org = run[r].org /\ run'[r].user = run[r].user
  BY <1>1, <1>2, FirstMoves DEF ProvInv
<1>4. RunShape(r)
  BY ShapeOf
<1>5. RunShape(r)' /\ Plain(r)
  BY <1>1, <1>3, <1>4 DEF RunShape, Plain, Creating, Commanding, Joining, HasUser, HasOrg, Inserted,
                          Entering
<1>. QED
  BY <1>1, <1>3, <1>5, QuietMove

LEMMA InsertMemberKeeps ==
    ASSUME ProvInv, NEW r \in Runs, InsertMember(r)
    PROVE  Kept
<1>1. Quiet /\ run[r].pc = "insert"
  BY DEF InsertMember, Quiet
<1>2. CASE Crash(r)
  BY <1>1, <1>2, QuietCrash
<1>3. CASE ~MemberTaken(r) /\ Goto(r, "role")
  <2>1. RunsTyped' /\ OthersSame(r) /\ run'[r].pc = "role" /\ Keeps(r)
    BY <1>3, GotoMoves DEF ProvInv, Steps
  <2>2. RunShape(r)
    BY ShapeOf
  <2>3. RunShape(r)'
    BY <1>1, <2>1, <2>2 DEF RunShape, Keeps, Creating, Commanding, Joining, HasUser, HasOrg
  <2>4. PICK u, o : run[r].user = {u} /\ run[r].org = {o}
    BY <1>1, <2>2 DEF RunShape, Joining, HasUser, HasOrg, Single
  <2>5. RunWorld(r)'
    <3>1. UNCHANGED <<members, main>>
      BY <1>1 DEF Quiet, memberVars
    <3>2. run[r].user \X run[r].org \cap members = {}
      BY <1>3, <2>4 DEF MemberTaken, Membership
    <3>3. run[r].first => \A m \in main : m[1] \notin run[r].user
      BY <1>3 DEF MemberTaken, DefaultOf
    <3>. QED
      BY <2>1, <3>1, <3>2, <3>3 DEF RunWorld, Keeps, Inserted, Entering
  <2>6. ASSUME NEW p \in Runs \ {r} PROVE Apart(p, r)' /\ Apart(r, p)'
    <3>1. Same(p)
      BY <2>1 DEF OthersSame
    <3>2. run[p].pc \in Entering =>
            /\ run[p].user \X run[p].org # run[r].user \X run[r].org
            /\ ~(run[p].user = run[r].user /\ run[p].first /\ run[r].first)
      BY DEF InsertMember, MemberPending, Membership, Entering
    <3>. QED
      BY <2>1, <3>1, <3>2 DEF Apart, Same, Keeps, Inserted, Entering
  <2>. QED
    BY <1>1, <2>1, <2>3, <2>5, <2>6, QuietHold
<1>. QED
  BY <1>2, <1>3 DEF InsertMember

LEMMA FindOwnerRoleKeeps ==
    ASSUME ProvInv, NEW r \in Runs, FindOwnerRole(r)
    PROVE  Kept
<1>1. Quiet /\ run[r].pc = "role"
  BY DEF FindOwnerRole, Quiet
<1>2. CASE Crash(r)
  BY <1>1, <1>2, QuietCrash
<1>3. CASE Goto(r, "seat")
  <2>1. RunsTyped' /\ OthersSame(r) /\ run'[r].pc = "seat" /\ Keeps(r)
    BY <1>3, GotoMoves DEF ProvInv, Steps
  <2>2. RunShape(r)
    BY ShapeOf
  <2>3. RunShape(r)'
    BY <1>1, <2>1, <2>2 DEF RunShape, Keeps, Creating, Commanding, Joining, HasUser, HasOrg
  <2>. QED
    BY <1>1, <2>1, <2>3, QuietOn DEF Keeps, Entering
<1>. QED
  BY <1>2, <1>3 DEF FindOwnerRole

\* A role, and so an organization: what is not there has none.
LEMMA OwnedIsThere ==
    ASSUME TablesShape, NEW o \in Orgs, Owner \in roles[o]
    PROVE  o \in OrgRows
BY DEF TablesShape, OrgRows

LEMMA CommitMemberKeeps ==
    ASSUME ProvInv, NEW r \in Runs, CommitMember(r)
    PROVE  Kept
<1>1. /\ RunShape(r) /\ RunWorld(r) /\ run[r] \in RunRecords /\ run[r].pc = "seat"
      /\ UNCHANGED <<seedVars, orgVars, userVars>>
  BY ShapeOf DEF CommitMember
<1>2. CASE Crash(r) /\ UNCHANGED memberVars
  BY <1>1, <1>2, QuietCrash DEF Quiet
<1>3. ASSUME run[r].user \subseteq People, HasOwnerRole(r),
             members' = members \cup Membership(r),
             main' = main \cup (IF run[r].first THEN Membership(r) ELSE {}),
             owners' = owners \cup Membership(r), End(r, "done")
      PROVE  Kept
  <2>1. PICK u, o : run[r].user = {u} /\ run[r].org = {o}
    BY <1>1 DEF RunShape, Joining, HasUser, HasOrg, Single
  <2>2. o \in Orgs /\ u \in Users /\ u \in People
    BY <1>1, <1>3, <2>1, FieldsTyped DEF People
  <2>3. o \in OrgRows /\ TablesTyped /\ TablesShape
    BY <1>3, <2>1, <2>2, OwnedIsThere DEF HasOwnerRole, ProvInv
  <2>4. Membership(r) = {<<u, o>>}
    BY <2>1 DEF Membership
  <2>5. <<u, o>> \notin members /\ (run[r].first => \A m \in main : m[1] # u)
    BY <1>1, <2>1 DEF RunWorld, Entering
  <2>6. TablesTyped'
    <3>1. OrgRows' = OrgRows /\ People' = People
      BY <1>1 DEF OrgRows, People, orgVars, userVars
    <3>2. /\ members' \subseteq People \X OrgRows
          /\ main' \subseteq members' /\ owners' \subseteq members'
      BY <1>3, <2>2, <2>3, <2>4 DEF TablesTyped
    <3>. QED
      BY <1>1, <2>3, <3>1, <3>2 DEF TablesTyped, seedVars, orgVars, userVars, SeedTypeOK
  <2>7. TablesShape'
    BY <1>1, <2>3 DEF TablesShape, orgVars, userVars
  <2>8. T!Enlist(u, o)
    <3>1. mail[u] # {} /\ slug[o] # {}
      BY <2>2, <2>3 DEF People, OrgRows
    <3>2. \/ main' = main
          \/ (\A m \in main : m[1] # u) /\ main' = main \cup {<<u, o>>}
      BY <1>3, <2>4, <2>5
    <3>. QED
      BY <1>1, <1>3, <2>4, <2>5, <3>1, <3>2 DEF T!Enlist, orgVars, userVars
  <2>9. RunsTyped' /\ OthersSame(r) /\ RunShape(r)' /\ Plain(r)
    BY <1>3, EndMoves, OverIsShaped DEF ProvInv, Answers
  <2>10. ASSUME NEW p \in Runs \ {r} PROVE RunWorld(p)'
    <3>1. RunWorld(p) /\ RunShape(p) /\ Same(p) /\ Apart(p, r)
      BY <2>9 DEF ProvInv, RunsGood, OthersSame
    <3>2. run[p].pc = "wipedone" => o \notin run[p].org
      BY <2>1 DEF CommitMember, RoleLocks, RolesGone
    <3>3. CASE run[p].pc \in Entering
      <4>1. PICK w, q : run[p].user = {w} /\ run[p].org = {q}
        BY <3>1, <3>3 DEF RunShape, Entering, Joining, HasUser, HasOrg, Single
      <4>2. <<w, q>> # <<u, o>> /\ ~(w = u /\ run[p].first /\ run[r].first)
        BY <1>1, <2>1, <3>1, <3>3, <4>1 DEF Apart, Entering
      <4>3. <<w, q>> \notin members' /\ (run[p].first => \A m \in main' : m[1] # w)
        BY <1>3, <2>4, <3>1, <3>3, <4>1, <4>2 DEF RunWorld
      <4>. QED
        BY <3>1, <3>3, <4>1, <4>3 DEF RunWorld, Same, Keeps, Entering, Inserted
    <3>4. CASE run[p].pc \notin Entering
      BY <1>1, <1>3, <2>4, <3>1, <3>2, <3>4 DEF RunWorld, Same, Keeps, orgVars
    <3>. QED
      BY <3>3, <3>4
  <2>11. RunsGood'
    BY <2>9, <2>10, PlainIsApart, RunsMove DEF ProvInv
  <2>. QED
    BY <2>2, <2>6, <2>7, <2>8, <2>9, <2>11 DEF Kept, ProvInv, T!TenantsNext
<1>. QED
  BY <1>2, <1>3 DEF CommitMember

-----------------------------------------------------------------------------
(* seed_dev_tenant *)
LEMMA CallCommandKeeps ==
    ASSUME ProvInv, NEW r \in Runs, NEW s \in Slugs, NEW e \in Emails, NEW reset \in BOOLEAN,
           CallCommand(r, s, e, reset)
    PROVE  Kept
<1>1. Quiet
  BY DEF CallCommand, Quiet
<1>2. ASSUME NEW step \in {"wipe", "find"},
             Begin(r, [Idle EXCEPT !.pc = step, !.job = "command", !.slug = {s}, !.mail = {e},
                                   !.reset = reset])
      PROVE  Kept
  <2>. DEFINE x == [Idle EXCEPT !.pc = step, !.job = "command", !.slug = {s}, !.mail = {e},
                                !.reset = reset]
  <2>1. /\ x \in RunRecords /\ x.pc = step /\ x.job = "command" /\ x.slug = {s} /\ x.mail = {e}
    BY DEF Idle, RunRecords, Steps, Jobs, Answers
  <2>2. Begin(r, x)
    BY <1>2
  <2>. HIDE DEF x
  <2>3. /\ RunsTyped' /\ OthersSame(r) /\ run'[r].pc = step /\ run'[r].job = "command"
        /\ run'[r].slug = {s} /\ run'[r].mail = {e}
    BY <2>1, <2>2, BeginMoves DEF ProvInv
  <2>4. RunShape(r)' /\ Plain(r)
    BY <2>3 DEF RunShape, Plain, Single, Creating, Commanding, Joining, HasUser, HasOrg, Inserted,
                Entering
  <2>. QED
    BY <1>1, <2>3, <2>4, QuietMove
<1>3. CASE Begin(r, [Idle EXCEPT !.answer = "refused"])
  <2>. DEFINE x == [Idle EXCEPT !.answer = "refused"]
  <2>1. x \in RunRecords
    BY IdleTyped DEF Answers
  <2>2. x.pc = "idle" /\ x.job = "create" /\ Begin(r, x)
    BY <1>3 DEF Idle
  <2>. HIDE DEF x
  <2>3. RunsTyped' /\ OthersSame(r) /\ Over(r)
    BY <2>1, <2>2, BeginMoves DEF ProvInv, Over
  <2>. QED
    BY <1>1, <2>3, OverIsShaped, QuietMove
<1>4. CASE AllTemplates /\ reset
  BY <1>2, <1>4 DEF CallCommand
<1>5. CASE AllTemplates /\ ~reset
  BY <1>2, <1>5 DEF CallCommand
<1>6. CASE ~AllTemplates
  BY <1>3, <1>6 DEF CallCommand
<1>. QED
  BY <1>4, <1>5, <1>6

\* The rows that a slug or an address names: none, or one.
LEMMA ByKeyIsOne ==
    ASSUME ProvInv, NEW r \in Runs, run[r].job = "command"
    PROVE  /\ BySlug(r) \in SUBSET Orgs /\ (BySlug(r) # {} => Single(BySlug(r)))
           /\ ByMail(r) \in SUBSET Users /\ (ByMail(r) # {} => Single(ByMail(r)))
<1>1. RunShape(r) /\ TablesShape
  BY ShapeOf DEF ProvInv
<1>2. PICK s, e : run[r].slug = {s} /\ run[r].mail = {e}
  BY <1>1 DEF RunShape, Single
<1>3. \A o \in BySlug(r), p \in BySlug(r) : o = p
  BY <1>1, <1>2 DEF BySlug, TablesShape
<1>4. \A u \in ByMail(r), w \in ByMail(r) : u = w
  BY <1>1, <1>2 DEF ByMail, TablesShape
<1>5. ASSUME BySlug(r) # {} PROVE Single(BySlug(r))
  <2>1. PICK o : o \in BySlug(r)
    BY <1>5
  <2>2. BySlug(r) = {o}
    BY <1>3, <2>1
  <2>. QED
    BY <2>2 DEF Single
<1>6. ASSUME ByMail(r) # {} PROVE Single(ByMail(r))
  <2>1. PICK u : u \in ByMail(r)
    BY <1>6
  <2>2. ByMail(r) = {u}
    BY <1>4, <2>1
  <2>. QED
    BY <2>2 DEF Single
<1>. QED
  BY <1>5, <1>6 DEF BySlug, ByMail

LEMMA FindOrgKeeps ==
    ASSUME ProvInv, NEW r \in Runs, FindOrg(r)
    PROVE  Kept
<1>1. Quiet /\ run[r].pc = "find" /\ RunShape(r)
  BY ShapeOf DEF FindOrg, Quiet
<1>2. run[r].job = "command"
  BY <1>1 DEF RunShape, Commanding
<1>3. CASE Goto(r, "org")
  BY <1>1, <1>2, <1>3, QuietGoto
  DEF Steps, Creating, Commanding, Joining, HasUser, HasOrg, Inserted, Entering
<1>4. CASE BySlug(r) # {} /\ run' = [run EXCEPT ![r].pc = "user", ![r].org = BySlug(r)]
  <2>1. BySlug(r) \in SUBSET Orgs /\ Single(BySlug(r)) /\ "user" \in Steps
    BY <1>2, <1>4, ByKeyIsOne DEF Steps
  <2>2. /\ RunsTyped' /\ OthersSame(r) /\ run'[r].pc = "user" /\ run'[r].org = BySlug(r)
        /\ run'[r].job = run[r].job /\ run'[r].slug = run[r].slug /\ run'[r].mail = run[r].mail
    BY <1>4, <2>1, OrgMoves DEF ProvInv
  <2>3. Single(run'[r].org)
    BY <2>1, <2>2
  <2>4. RunShape(r)' /\ Plain(r)
    BY <1>1, <1>2, <2>2, <2>3
    DEF RunShape, Plain, Creating, Commanding, Joining, HasUser, HasOrg, Inserted, Entering
  <2>. QED
    BY <1>1, <2>2, <2>4, QuietMove
<1>. QED
  BY <1>3, <1>4 DEF FindOrg

LEMMA FindUserKeeps ==
    ASSUME ProvInv, NEW r \in Runs, FindUser(r)
    PROVE  Kept
<1>1. Quiet /\ run[r].pc = "user" /\ RunShape(r)
  BY ShapeOf DEF FindUser, Quiet
<1>2. run[r].job = "command"
  BY <1>1 DEF RunShape, Commanding
<1>3. CASE Goto(r, "save")
  BY <1>1, <1>2, <1>3, QuietGoto
  DEF Steps, Creating, Commanding, Joining, HasUser, HasOrg, Inserted, Entering
<1>4. CASE ByMail(r) # {} /\ run' = [run EXCEPT ![r].pc = "address", ![r].user = ByMail(r)]
  <2>1. ByMail(r) \in SUBSET Users /\ Single(ByMail(r)) /\ "address" \in Steps
    BY <1>2, <1>4, ByKeyIsOne DEF Steps
  <2>2. /\ RunsTyped' /\ OthersSame(r) /\ run'[r].pc = "address" /\ run'[r].user = ByMail(r)
        /\ run'[r].job = run[r].job /\ run'[r].slug = run[r].slug /\ run'[r].mail = run[r].mail
        /\ run'[r].org = run[r].org
    BY <1>4, <2>1, UserMoves DEF ProvInv
  <2>3. Single(run'[r].user) /\ Single(run'[r].org)
    BY <1>1, <2>1, <2>2 DEF RunShape, HasOrg
  <2>4. RunShape(r)' /\ Plain(r)
    BY <1>1, <1>2, <2>2, <2>3
    DEF RunShape, Plain, Creating, Commanding, Joining, HasUser, HasOrg, Inserted, Entering
  <2>. QED
    BY <1>1, <2>2, <2>4, QuietMove
<1>. QED
  BY <1>3, <1>4 DEF FindUser

LEMMA SaveUserKeeps ==
    ASSUME ProvInv, NEW r \in Runs, SaveUser(r)
    PROVE  Kept
<1>1. /\ run[r].pc = "save" /\ RunShape(r) /\ run[r] \in RunRecords
      /\ UNCHANGED <<seedVars, orgVars, verified, cited, memberVars>>
  BY ShapeOf DEF SaveUser
<1>2. run[r].job = "command"
  BY <1>1 DEF RunShape, Commanding
<1>3. CASE Crash(r) /\ UNCHANGED mail
  BY <1>1, <1>3, QuietCrash DEF Quiet, userVars
<1>4. ASSUME ~MailTaken(r), NEW u \in FreshUsers, mail' = [mail EXCEPT ![u] = run[r].mail],
             run' = [run EXCEPT ![r].pc = "address", ![r].user = {u}]
      PROVE  Kept
  <2>1. PICK e : run[r].mail = {e}
    BY <1>1, <1>2 DEF RunShape, Single
  <2>2. u \in Users /\ mail[u] = {} /\ e \in Emails /\ {u} \in SUBSET Users /\ "address" \in Steps
    BY <1>1, <2>1, FieldsTyped DEF FreshUsers, People, Steps
  <2>3. TablesTyped /\ TablesShape
    BY DEF ProvInv
  <2>4. \A w \in Users : mail[w] # {e} /\ e \notin mail[w]
    BY <1>4, <2>1, <2>3 DEF MailTaken, TablesShape, Single
  <2>5. TablesTyped'
    <3>1. People \subseteq People' /\ OrgRows' = OrgRows
      BY <1>1, <1>4, <2>1, <2>3 DEF People, OrgRows, orgVars, TablesTyped
    <3>. QED
      BY <1>1, <1>4, <2>1, <2>2, <2>3, <3>1
      DEF TablesTyped, seedVars, orgVars, memberVars, SeedTypeOK
  <2>6. TablesShape'
    BY <1>1, <1>4, <2>1, <2>3, <2>4 DEF TablesShape, TablesTyped, orgVars, Single
  <2>7. T!Join(u, e)
    BY <1>1, <1>4, <2>1, <2>2, <2>4 DEF T!Join, orgVars, memberVars
  <2>8. /\ RunsTyped' /\ OthersSame(r) /\ run'[r].pc = "address" /\ run'[r].user = {u}
        /\ run'[r].job = run[r].job /\ run'[r].slug = run[r].slug /\ run'[r].mail = run[r].mail
        /\ run'[r].org = run[r].org
    BY <1>4, <2>2, UserMoves DEF ProvInv
  <2>9. Single(run'[r].user) /\ Single(run'[r].org)
    BY <1>1, <2>8 DEF RunShape, HasOrg, Single
  <2>10. RunShape(r)' /\ Plain(r)
    BY <1>1, <1>2, <2>8, <2>9
    DEF RunShape, Plain, Creating, Commanding, Joining, HasUser, HasOrg, Inserted, Entering
  <2>11. RunsGood'
    BY <1>1, <2>8, <2>10, PlainMove DEF ProvInv, orgVars, memberVars
  <2>. QED
    BY <2>2, <2>5, <2>6, <2>7, <2>8, <2>11 DEF Kept, ProvInv, T!TenantsNext
<1>. QED
  BY <1>3, <1>4 DEF SaveUser

LEMMA AddressKeeps ==
    ASSUME ProvInv, NEW r \in Runs, Address(r)
    PROVE  Kept
<1>1. /\ run[r].pc = "address" /\ RunShape(r)
      /\ UNCHANGED <<seedVars, orgVars, mail, cited, memberVars>>
  BY ShapeOf DEF Address
<1>2. CASE Crash(r) /\ UNCHANGED verified
  BY <1>1, <1>2, QuietCrash DEF Quiet, userVars
<1>3. CASE run[r].user \subseteq People /\ verified' = verified \cup run[r].user /\ Goto(r, "member")
  <2>1. RunsTyped' /\ OthersSame(r) /\ run'[r].pc = "member" /\ Keeps(r)
    BY <1>3, GotoMoves DEF ProvInv, Steps
  <2>2. RunShape(r)' /\ Plain(r)
    BY <1>1, <2>1
    DEF RunShape, Keeps, Plain, Creating, Commanding, Joining, HasUser, HasOrg, Inserted, Entering
  <2>3. RunsGood'
    BY <1>1, <2>1, <2>2, PlainMove DEF ProvInv, orgVars, memberVars
  <2>4. TablesTyped'
    <3>1. People' = People /\ OrgRows' = OrgRows
      BY <1>1 DEF People, OrgRows, orgVars
    <3>. QED
      BY <1>1, <1>3, <3>1 DEF ProvInv, TablesTyped, seedVars, orgVars, memberVars, SeedTypeOK
  <2>5. TablesShape' /\ UNCHANGED T!tenantVars
    BY <1>1 DEF ProvInv, TablesShape, orgVars, memberVars, T!tenantVars
  <2>. QED
    BY <2>1, <2>3, <2>4, <2>5 DEF Kept, ProvInv
<1>. QED
  BY <1>2, <1>3 DEF Address

LEMMA FindMemberKeeps ==
    ASSUME ProvInv, NEW r \in Runs, FindMember(r)
    PROVE  Kept
<1>1. Quiet /\ run[r].pc = "member" /\ RunShape(r)
  BY ShapeOf DEF FindMember, Quiet
<1>2. run[r].job = "command"
  BY <1>1 DEF RunShape, Commanding
<1>3. CASE Goto(r, "late")
  BY <1>1, <1>2, <1>3, QuietGoto
  DEF Steps, Creating, Commanding, Joining, HasUser, HasOrg, Inserted, Entering
<1>4. CASE Goto(r, "check")
  BY <1>1, <1>2, <1>4, QuietGoto
  DEF Steps, Creating, Commanding, Joining, HasUser, HasOrg, Inserted, Entering
<1>. QED
  BY <1>3, <1>4 DEF FindMember

LEMMA FindLateKeeps ==
    ASSUME ProvInv, NEW r \in Runs, FindLate(r)
    PROVE  Kept
<1>1. Quiet /\ run[r].pc = "late" /\ RunShape(r)
  BY ShapeOf DEF FindLate, Quiet
<1>2. run[r].job = "command"
  BY <1>1 DEF RunShape, Commanding
<1>3. CASE Crash(r)
  BY <1>1, <1>3, QuietCrash
<1>4. CASE End(r, "done")
  BY <1>1, <1>4, QuietEnd DEF Answers
<1>5. CASE Goto(r, "lateseat")
  BY <1>1, <1>2, <1>5, QuietGoto
  DEF Steps, Creating, Commanding, Joining, HasUser, HasOrg, Inserted, Entering
<1>. QED
  BY <1>3, <1>4, <1>5 DEF FindLate

LEMMA CommitLateKeeps ==
    ASSUME ProvInv, NEW r \in Runs, CommitLate(r)
    PROVE  Kept
<1>1. /\ run[r].pc = "lateseat" /\ RunShape(r) /\ run[r] \in RunRecords
      /\ UNCHANGED <<seedVars, orgVars, userVars, members, main>>
  BY ShapeOf DEF CommitLate
<1>2. CASE Crash(r) /\ UNCHANGED owners
  BY <1>1, <1>2, QuietCrash DEF Quiet, memberVars
<1>3. CASE /\ Membership(r) \subseteq members \ owners
           /\ owners' = owners \cup Membership(r) /\ End(r, "done")
  <2>1. PICK u, o : run[r].user = {u} /\ run[r].org = {o}
    BY <1>1 DEF RunShape, HasUser, HasOrg, Single
  <2>2. o \in Orgs /\ u \in Users
    BY <1>1, <2>1, FieldsTyped
  <2>3. Membership(r) = {<<u, o>>} /\ <<u, o>> \in members
    BY <1>3, <2>1 DEF Membership
  <2>4. T!Promote(<<u, o>>)
    BY <1>1, <1>3, <2>3 DEF T!Promote, orgVars, userVars
  <2>5. RunsTyped' /\ OthersSame(r) /\ RunShape(r)' /\ Plain(r)
    BY <1>3, EndMoves, OverIsShaped DEF ProvInv, Answers
  <2>6. RunsGood'
    BY <1>1, <2>5, PlainMove DEF ProvInv, orgVars
  <2>7. TablesTyped'
    <3>1. People' = People /\ OrgRows' = OrgRows
      BY <1>1 DEF People, OrgRows, orgVars, userVars
    <3>. QED
      BY <1>1, <1>3, <2>3, <3>1 DEF ProvInv, TablesTyped, seedVars, orgVars, userVars, SeedTypeOK
  <2>8. TablesShape'
    BY <1>1 DEF ProvInv, TablesShape, orgVars, userVars
  <2>9. <<u, o>> \in Users \X Orgs
    BY <2>2
  <2>. QED
    BY <2>4, <2>5, <2>6, <2>7, <2>8, <2>9 DEF Kept, ProvInv, T!TenantsNext
<1>. QED
  BY <1>2, <1>3 DEF CommitLate

-----------------------------------------------------------------------------
(* --reset *)
LEMMA WipeFindKeeps ==
    ASSUME ProvInv, NEW r \in Runs, WipeFind(r)
    PROVE  Kept
<1>1. Quiet /\ run[r].pc = "wipe" /\ RunShape(r)
  BY ShapeOf DEF WipeFind, Quiet
<1>2. run[r].job = "command"
  BY <1>1 DEF RunShape, Commanding
<1>3. CASE Goto(r, "wipeuser")
  BY <1>1, <1>2, <1>3, QuietGoto
  DEF Steps, Creating, Commanding, Joining, HasUser, HasOrg, Inserted, Entering
<1>4. CASE BySlug(r) # {} /\ run' = [run EXCEPT ![r].pc = "wiperows", ![r].org = BySlug(r)]
  <2>1. BySlug(r) \in SUBSET Orgs /\ Single(BySlug(r)) /\ "wiperows" \in Steps
    BY <1>2, <1>4, ByKeyIsOne DEF Steps
  <2>2. /\ RunsTyped' /\ OthersSame(r) /\ run'[r].pc = "wiperows" /\ run'[r].org = BySlug(r)
        /\ run'[r].job = run[r].job /\ run'[r].slug = run[r].slug /\ run'[r].mail = run[r].mail
    BY <1>4, <2>1, OrgMoves DEF ProvInv
  <2>3. Single(run'[r].org)
    BY <2>1, <2>2
  <2>4. RunShape(r)' /\ Plain(r)
    BY <1>1, <1>2, <2>2, <2>3
    DEF RunShape, Plain, Creating, Commanding, Joining, HasUser, HasOrg, Inserted, Entering
  <2>. QED
    BY <1>1, <2>2, <2>4, QuietMove
<1>. QED
  BY <1>3, <1>4 DEF WipeFind

LEMMA WipeAssignmentsKeeps ==
    ASSUME ProvInv, NEW r \in Runs, WipeAssignments(r)
    PROVE  Kept
<1>1. Quiet /\ run[r].pc = "wiperows" /\ RunShape(r) /\ Goto(r, "wipejoins")
  BY ShapeOf DEF WipeAssignments, Quiet
<1>2. run[r].job = "command"
  BY <1>1 DEF RunShape, Commanding
<1>. QED
  BY <1>1, <1>2, QuietGoto
  DEF Steps, Creating, Commanding, Joining, HasUser, HasOrg, Inserted, Entering

LEMMA WipeMembershipsKeeps ==
    ASSUME ProvInv, NEW r \in Runs, WipeMemberships(r)
    PROVE  Kept
<1>. DEFINE S == {m \in members : m[2] \in run[r].org}
<1>1. Quiet /\ run[r].pc = "wipejoins" /\ RunShape(r)
  BY ShapeOf DEF WipeMemberships, Quiet
<1>2. CASE Crash(r)
  BY <1>1, <1>2, QuietCrash
<1>3. CASE run' = [run EXCEPT ![r].pc = "wiperoles", ![r].gone = S]
  <2>1. S \in SUBSET (Users \X Orgs) /\ S \subseteq Users \X run[r].org /\ "wiperoles" \in Steps
    BY DEF ProvInv, TablesTyped, People, OrgRows, Steps
  <2>. HIDE DEF S
  <2>2. /\ RunsTyped' /\ OthersSame(r) /\ run'[r].pc = "wiperoles" /\ run'[r].gone = S
        /\ run'[r].job = run[r].job /\ run'[r].slug = run[r].slug /\ run'[r].mail = run[r].mail
        /\ run'[r].org = run[r].org
    BY <1>3, <2>1, GoneMoves DEF ProvInv
  <2>3. RunShape(r)' /\ Plain(r)
    BY <1>1, <2>1, <2>2
    DEF RunShape, Plain, Creating, Commanding, Joining, HasUser, HasOrg, Inserted, Entering
  <2>. QED
    BY <1>1, <2>2, <2>3, QuietMove
<1>. QED
  BY <1>2, <1>3 DEF WipeMemberships

LEMMA WipeRolesKeeps ==
    ASSUME ProvInv, NEW r \in Runs, WipeRoles(r)
    PROVE  Kept
<1>1. Quiet /\ run[r].pc = "wiperoles" /\ RunShape(r)
  BY ShapeOf DEF WipeRoles, Quiet
<1>2. run[r].job = "command"
  BY <1>1 DEF RunShape, Commanding
<1>3. CASE Crash(r)
  BY <1>1, <1>3, QuietCrash
<1>4. CASE Goto(r, "wipeorg")
  BY <1>1, <1>2, <1>4, QuietGoto
  DEF Steps, Creating, Commanding, Joining, HasUser, HasOrg, Inserted, Entering
<1>. QED
  BY <1>3, <1>4 DEF WipeRoles

LEMMA WipeOrgKeeps ==
    ASSUME ProvInv, NEW r \in Runs, WipeOrg(r)
    PROVE  Kept
<1>1. Quiet /\ run[r].pc = "wipeorg" /\ RunShape(r)
  BY ShapeOf DEF WipeOrg, Quiet
<1>2. CASE Crash(r)
  BY <1>1, <1>2, QuietCrash
<1>3. CASE Unprotected(r) /\ Goto(r, "wipedone")
  <2>1. RunsTyped' /\ OthersSame(r) /\ run'[r].pc = "wipedone" /\ Keeps(r)
    BY <1>3, GotoMoves DEF ProvInv, Steps
  <2>2. RunShape(r)'
    BY <1>1, <2>1 DEF RunShape, Keeps, Creating, Commanding, Joining, HasUser, HasOrg
  <2>3. RunWorld(r)'
    BY <1>1, <1>3, <2>1
    DEF RunWorld, Keeps, Unprotected, Quiet, orgVars, memberVars, Inserted, Entering
  <2>4. \A p \in Runs \ {r} : Apart(p, r)' /\ Apart(r, p)'
    BY <2>1 DEF Apart, Inserted, Entering
  <2>. QED
    BY <1>1, <2>1, <2>2, <2>3, <2>4, QuietHold
<1>. QED
  BY <1>2, <1>3 DEF WipeOrg

LEMMA WipeCommitKeeps ==
    ASSUME ProvInv, NEW r \in Runs, WipeCommit(r)
    PROVE  Kept
<1>1. /\ RunShape(r) /\ RunWorld(r) /\ run[r] \in RunRecords /\ run[r].pc = "wipedone"
      /\ UNCHANGED <<seedVars, kept, userVars>> /\ Wiped(r, "wipeuser")
  BY ShapeOf DEF WipeCommit
<1>2. PICK o : run[r].org = {o}
  BY <1>1 DEF RunShape, Single, HasOrg
<1>3. o \in Orgs /\ TablesTyped /\ TablesShape
  BY <1>1, <1>2, FieldsTyped DEF ProvInv
<1>4. /\ slug' = [slug EXCEPT ![o] = {}]
      /\ roles' = [roles EXCEPT ![o] = {}]
      /\ grants' = [grants EXCEPT ![o] = {}]
  BY <1>2, <1>3 DEF WipeCommit, TablesTyped
<1>5. /\ \A m \in run[r].gone : m[2] = o
      /\ \A m \in members : m[2] = o => m \in run[r].gone
      /\ o \notin kept
  BY <1>1, <1>2 DEF RunShape, RunWorld, Inserted, Entering
<1>6. /\ members' = {m \in members : m[2] # o}
      /\ main' = {m \in main : m[2] # o}
      /\ owners' = {m \in owners : m[2] # o}
  BY <1>3, <1>5 DEF WipeCommit, TablesTyped
<1>7. TablesTyped'
  <2>1. OrgRows' = OrgRows \ {o} /\ People' = People
    BY <1>1, <1>3, <1>4 DEF OrgRows, People, userVars, TablesTyped
  <2>2. kept' \subseteq OrgRows' /\ members' \subseteq People \X (OrgRows \ {o})
    BY <1>1, <1>3, <1>5, <1>6, <2>1 DEF TablesTyped
  <2>3. main' \subseteq members' /\ owners' \subseteq members'
    BY <1>3, <1>6 DEF TablesTyped
  <2>4. \A q \in Orgs : grants'[q] \subseteq roles'[q] \X Caps
    BY <1>3, <1>4 DEF TablesTyped
  <2>. QED
    BY <1>1, <1>3, <1>4, <2>1, <2>2, <2>3, <2>4 DEF TablesTyped, seedVars, userVars, SeedTypeOK
<1>8. TablesShape'
  BY <1>1, <1>3, <1>4 DEF TablesShape, TablesTyped, userVars
<1>9. [T!TenantsNext]_T!tenantVars
  <2>1. CASE slug[o] # {}
    <3>1. T!Dissolve(o)
      BY <1>1, <1>4, <1>6, <2>1 DEF T!Dissolve, userVars
    <3>. QED
      BY <1>3, <3>1 DEF T!TenantsNext
  <2>2. CASE slug[o] = {}
    <3>1. slug' = slug /\ roles' = roles
      BY <1>3, <1>4, <2>2 DEF TablesShape, TablesTyped
    <3>2. \A m \in members : m[2] # o
      BY <1>3, <2>2 DEF TablesTyped, OrgRows
    <3>3. members' = members /\ main' = main /\ owners' = owners
      BY <1>3, <1>6, <3>2 DEF TablesTyped
    <3>. QED
      BY <1>1, <3>1, <3>3 DEF T!tenantVars, userVars
  <2>. QED
    BY <2>1, <2>2
<1>10. /\ RunsTyped' /\ OthersSame(r)
       /\ run'[r].pc = "wipeuser" /\ run'[r].job = run[r].job /\ run'[r].slug = run[r].slug
       /\ run'[r].mail = run[r].mail
  BY <1>1, WipedMoves DEF ProvInv, Steps
<1>11. RunShape(r)' /\ Plain(r)
  BY <1>1, <1>10
  DEF RunShape, Plain, Creating, Commanding, Joining, HasUser, HasOrg, Inserted, Entering
<1>12. ASSUME NEW p \in Runs \ {r} PROVE RunWorld(p)'
  <2>1. RunWorld(p) /\ RunShape(p) /\ Same(p)
    BY <1>10 DEF ProvInv, RunsGood, OthersSame
  <2>2. run[p].pc \in Inserted => run[p].slug # {}
    BY <2>1 DEF RunShape, Creating, Inserted, Single
  <2>3. \A q \in Orgs : slug'[q] = {} \/ slug'[q] = slug[q]
    BY <1>3, <1>4 DEF TablesTyped
  <2>4. members' \subseteq members /\ main' \subseteq main /\ kept' = kept
    BY <1>1, <1>6
  <2>. QED
    BY <2>1, <2>2, <2>3, <2>4 DEF RunWorld, Same, Keeps
<1>13. RunsGood'
  BY <1>10, <1>11, <1>12, PlainIsApart, RunsMove DEF ProvInv
<1>. QED
  BY <1>7, <1>8, <1>9, <1>10, <1>13 DEF Kept, ProvInv

LEMMA WipeUserKeeps ==
    ASSUME ProvInv, NEW r \in Runs, WipeUser(r)
    PROVE  Kept
<1>1. Quiet /\ run[r].pc = "wipeuser" /\ RunShape(r)
  BY ShapeOf DEF WipeUser, Quiet
<1>2. run[r].job = "command"
  BY <1>1 DEF RunShape, Commanding
<1>3. CASE Goto(r, "find")
  BY <1>1, <1>2, <1>3, QuietGoto
  DEF Steps, Creating, Commanding, Joining, HasUser, HasOrg, Inserted, Entering
<1>4. CASE ByMail(r) # {} /\ run' = [run EXCEPT ![r].pc = "wipemembers", ![r].user = ByMail(r)]
  <2>1. ByMail(r) \in SUBSET Users /\ Single(ByMail(r)) /\ "wipemembers" \in Steps
    BY <1>2, <1>4, ByKeyIsOne DEF Steps
  <2>2. /\ RunsTyped' /\ OthersSame(r) /\ run'[r].pc = "wipemembers" /\ run'[r].user = ByMail(r)
        /\ run'[r].job = run[r].job /\ run'[r].slug = run[r].slug /\ run'[r].mail = run[r].mail
    BY <1>4, <2>1, UserMoves DEF ProvInv
  <2>3. Single(run'[r].user)
    BY <2>1, <2>2
  <2>4. RunShape(r)' /\ Plain(r)
    BY <1>1, <1>2, <2>2, <2>3
    DEF RunShape, Plain, Creating, Commanding, Joining, HasUser, HasOrg, Inserted, Entering
  <2>. QED
    BY <1>1, <2>2, <2>4, QuietMove
<1>. QED
  BY <1>3, <1>4 DEF WipeUser, Goto

LEMMA WipeMembersKeeps ==
    ASSUME ProvInv, NEW r \in Runs, WipeMembers(r)
    PROVE  Kept
<1>1. Quiet /\ run[r].pc = "wipemembers" /\ RunShape(r)
  BY ShapeOf DEF WipeMembers, Quiet
<1>2. run[r].job = "command"
  BY <1>1 DEF RunShape, Commanding
<1>3. CASE run' = [run EXCEPT ![r].pc = "find", ![r].user = {}]
  <2>1. {} \in SUBSET Users /\ "find" \in Steps
    BY DEF Steps
  <2>2. /\ RunsTyped' /\ OthersSame(r) /\ run'[r].pc = "find"
        /\ run'[r].job = run[r].job /\ run'[r].slug = run[r].slug /\ run'[r].mail = run[r].mail
    BY <1>3, <2>1, UserMoves DEF ProvInv
  <2>3. RunShape(r)' /\ Plain(r)
    BY <1>1, <1>2, <2>2
    DEF RunShape, Plain, Creating, Commanding, Joining, HasUser, HasOrg, Inserted, Entering
  <2>. QED
    BY <1>1, <2>2, <2>3, QuietMove
<1>4. CASE Goto(r, "wipesave")
  BY <1>1, <1>2, <1>4, QuietGoto
  DEF Steps, Creating, Commanding, Joining, HasUser, HasOrg, Inserted, Entering
<1>. QED
  BY <1>3, <1>4 DEF WipeMembers

LEMMA DeleteUserKeeps ==
    ASSUME ProvInv, NEW r \in Runs, DeleteUser(r)
    PROVE  Kept
<1>1. /\ run[r].pc = "wipesave" /\ RunShape(r) /\ run[r] \in RunRecords
      /\ UNCHANGED <<seedVars, orgVars, memberVars>>
  BY ShapeOf DEF DeleteUser
<1>2. run[r].job = "command"
  BY <1>1 DEF RunShape, Commanding
<1>3. CASE Crash(r) /\ UNCHANGED userVars
  BY <1>1, <1>3, QuietCrash DEF Quiet
<1>4. ASSUME ~Joined(r), run[r].user \cap cited = {}, UNCHANGED cited,
             mail' = [u \in Users |-> IF u \in run[r].user THEN {} ELSE mail[u]],
             verified' = verified \ run[r].user, Wiped(r, "find")
      PROVE  Kept
  <2>1. PICK u : run[r].user = {u}
    BY <1>1 DEF RunShape, HasUser, Single
  <2>2. u \in Users /\ TablesTyped /\ TablesShape
    BY <1>1, <2>1, FieldsTyped DEF ProvInv
  <2>3. mail' = [mail EXCEPT ![u] = {}] /\ \A m \in members : m[1] # u
    BY <1>4, <2>1, <2>2 DEF Joined, TablesTyped
  <2>4. TablesTyped'
    <3>1. People' = People \ {u} /\ OrgRows' = OrgRows
      BY <1>1, <2>2, <2>3 DEF People, OrgRows, orgVars, TablesTyped
    <3>2. members \subseteq (People \ {u}) \X OrgRows
      BY <2>2, <2>3 DEF TablesTyped
    <3>. QED
      BY <1>1, <1>4, <2>1, <2>2, <2>3, <3>1, <3>2
      DEF TablesTyped, seedVars, orgVars, memberVars, SeedTypeOK
  <2>5. TablesShape'
    BY <1>1, <2>2, <2>3 DEF TablesShape, TablesTyped, orgVars
  <2>6. T!Leave(u)
    BY <1>1, <2>3 DEF T!Leave, orgVars, memberVars
  <2>7. /\ RunsTyped' /\ OthersSame(r)
        /\ run'[r].pc = "find" /\ run'[r].job = run[r].job /\ run'[r].slug = run[r].slug
        /\ run'[r].mail = run[r].mail
    BY <1>4, WipedMoves DEF ProvInv, Steps
  <2>8. RunShape(r)' /\ Plain(r)
    BY <1>1, <1>2, <2>7
    DEF RunShape, Plain, Creating, Commanding, Joining, HasUser, HasOrg, Inserted, Entering
  <2>9. RunsGood'
    BY <1>1, <2>7, <2>8, PlainMove DEF ProvInv, orgVars, memberVars
  <2>. QED
    BY <2>2, <2>4, <2>5, <2>6, <2>7, <2>9 DEF Kept, ProvInv, T!TenantsNext
<1>. QED
  BY <1>3, <1>4 DEF DeleteUser

-----------------------------------------------------------------------------
(* Crashes, and the others. *)
LEMMA RunFailsKeeps ==
    ASSUME ProvInv, NEW r \in Runs, RunFails(r)
    PROVE  Kept
BY QuietEnd DEF RunFails, Quiet, Answers

LEMMA SeedOrStaffKeeps ==
    ASSUME ProvInv, SeedOrStaff
    PROVE  Kept
<1>1. UNCHANGED <<orgVars, userVars, memberVars>> /\ TablesTyped /\ TablesShape
  BY DEF SeedOrStaff, ProvInv
<1>2. SeedTypeOK'
  BY <1>1, SeededHolds, StaffTyped DEF SeedOrStaff, TablesTyped
<1>3. TablesTyped' /\ TablesShape' /\ UNCHANGED T!tenantVars
  BY <1>1, <1>2 DEF TablesTyped, TablesShape, orgVars, userVars, memberVars, OrgRows, People,
                    T!tenantVars
<1>4. RunsTyped' /\ \A p \in Runs : Same(p)
  BY NotAloneMoves DEF SeedOrStaff, ProvInv
<1>5. UNCHANGED <<slug, kept, members, main>>
  BY <1>1 DEF orgVars, memberVars
<1>6. RunsGood'
  BY <1>4, <1>5, ShapeStands, WorldStands, ApartStands DEF ProvInv, RunsGood
<1>. QED
  BY <1>3, <1>4, <1>6 DEF Kept, ProvInv

LEMMA KeepKeeps ==
    ASSUME ProvInv, NEW o \in Orgs, Keep(o)
    PROVE  Kept
<1>1. /\ UNCHANGED <<seedVars, slug, roles, grants, userVars, memberVars>>
      /\ kept' = kept \cup {o} /\ o \in OrgRows /\ TablesTyped /\ TablesShape
  BY DEF Keep, ProvInv
<1>2. TablesTyped' /\ TablesShape' /\ UNCHANGED T!tenantVars
  BY <1>1 DEF TablesTyped, TablesShape, seedVars, userVars, memberVars, OrgRows, People, SeedTypeOK,
              T!tenantVars
<1>3. RunsTyped' /\ \A p \in Runs : Same(p)
  BY NotAloneMoves DEF Keep, ProvInv
<1>4. ASSUME NEW p \in Runs PROVE RunWorld(p)'
  <2>1. RunWorld(p) /\ Same(p)
    BY <1>3 DEF ProvInv, RunsGood
  <2>2. run[p].pc = "wipedone" => o \notin run[p].org
    BY DEF Keep, OrgLocks, OrgGone
  <2>. QED
    BY <1>1, <2>1, <2>2 DEF RunWorld, Same, Keeps, memberVars
<1>5. RunsGood'
  BY <1>3, <1>4, ShapeStands, ApartStands DEF ProvInv, RunsGood
<1>. QED
  BY <1>2, <1>3, <1>5 DEF Kept, ProvInv

LEMMA CiteKeeps ==
    ASSUME ProvInv, NEW u \in Users, Cite(u)
    PROVE  Kept
<1>1. /\ UNCHANGED <<seedVars, orgVars, mail, verified, memberVars>>
      /\ cited' = cited \cup {u} /\ u \in People /\ TablesTyped /\ TablesShape
  BY DEF Cite, ProvInv
<1>2. TablesTyped' /\ TablesShape' /\ UNCHANGED T!tenantVars
  BY <1>1 DEF TablesTyped, TablesShape, seedVars, orgVars, memberVars, OrgRows, People, SeedTypeOK,
              T!tenantVars
<1>3. RunsTyped' /\ \A p \in Runs : Same(p)
  BY NotAloneMoves DEF Cite, ProvInv
<1>4. UNCHANGED <<slug, kept, members, main>>
  BY <1>1 DEF orgVars, memberVars
<1>5. RunsGood'
  BY <1>3, <1>4, ShapeStands, WorldStands, ApartStands DEF ProvInv, RunsGood
<1>. QED
  BY <1>2, <1>3, <1>5 DEF Kept, ProvInv

LEMMA AddMemberKeeps ==
    ASSUME ProvInv, NEW u \in Users, NEW o \in Orgs, AddMember(u, o)
    PROVE  Kept
<1>1. /\ UNCHANGED <<seedVars, orgVars, userVars, main, owners>>
      /\ members' = members \cup {<<u, o>>} /\ <<u, o>> \notin members
      /\ o \in OrgRows /\ u \in People /\ TablesTyped /\ TablesShape
  BY DEF AddMember, ProvInv
<1>2. TablesTyped' /\ TablesShape'
  <2>1. OrgRows' = OrgRows /\ People' = People
    BY <1>1 DEF OrgRows, People, orgVars, userVars
  <2>2. members' \subseteq People \X OrgRows /\ main' \subseteq members' /\ owners' \subseteq members'
    BY <1>1 DEF TablesTyped
  <2>. QED
    BY <1>1, <2>1, <2>2 DEF TablesTyped, TablesShape, seedVars, orgVars, userVars, SeedTypeOK
<1>3. T!Enlist(u, o)
  BY <1>1 DEF T!Enlist, orgVars, userVars, OrgRows, People
<1>4. RunsTyped' /\ \A p \in Runs : Same(p)
  BY NotAloneMoves DEF AddMember, ProvInv
<1>5. ASSUME NEW p \in Runs PROVE RunWorld(p)'
  <2>1. RunWorld(p) /\ RunShape(p) /\ Same(p)
    BY <1>4 DEF ProvInv, RunsGood
  <2>2. run[p].pc = "wipedone" => o \notin run[p].org
    BY DEF AddMember, OrgLocks, OrgGone
  <2>3. CASE run[p].pc \in Entering
    <3>1. PICK w, q : run[p].user = {w} /\ run[p].org = {q}
      BY <2>1, <2>3 DEF RunShape, Entering, Joining, HasUser, HasOrg, Single
    <3>2. <<w, q>> # <<u, o>>
      BY <2>3, <3>1 DEF AddMember, Membership, Entering
    <3>3. run[p].user \X run[p].org \cap members' = {}
      BY <1>1, <2>1, <2>3, <3>1, <3>2 DEF RunWorld
    <3>. QED
      BY <1>1, <2>1, <2>3, <3>3 DEF RunWorld, Same, Keeps, Entering, Inserted
  <2>4. CASE run[p].pc \notin Entering
    BY <1>1, <2>1, <2>2, <2>4 DEF RunWorld, Same, Keeps, orgVars
  <2>. QED
    BY <2>3, <2>4
<1>6. RunsGood'
  BY <1>4, <1>5, ShapeStands, ApartStands DEF ProvInv, RunsGood
<1>. QED
  BY <1>2, <1>3, <1>4, <1>6 DEF Kept, ProvInv, T!TenantsNext

-----------------------------------------------------------------------------
LEMMA ProvStarts == Init => ProvInv /\ T!TenantsInit
<1>. SUFFICES ASSUME Init PROVE ProvInv /\ T!TenantsInit
  OBVIOUS
<1>1. SeedTypeOK
  BY SeedAssumption DEF Init, RoleSeedInit, SeedTypeOK
<1>2. TablesTyped /\ TablesShape
  BY <1>1 DEF Init, TablesTyped, TablesShape, OrgRows, People
<1>3. RunsTyped
  BY IdleTyped DEF Init, RunsTyped
<1>4. \A r \in Runs : run[r].pc = "idle" /\ run[r].job = "create"
  BY DEF Init, Idle
<1>5. RunsGood
  BY <1>4 DEF RunsGood, RunShape, RunWorld, Apart, Creating, Commanding, Joining, HasUser, HasOrg,
              Inserted, Entering
<1>. QED
  BY <1>2, <1>3, <1>5 DEF ProvInv, Init, T!TenantsInit

LEMMA WorkKeeps ==
    ASSUME ProvInv, NEW r \in Runs, Work(r)
    PROVE  Kept
BY InsertOrgKeeps, ReadTemplatesKeeps, ReadLinksKeeps, CommitOrgKeeps, CheckKeeps, ReadDefaultKeeps,
   InsertMemberKeeps, FindOwnerRoleKeeps, CommitMemberKeeps, FindOrgKeeps, FindUserKeeps,
   SaveUserKeeps, AddressKeeps, FindMemberKeeps, FindLateKeeps, CommitLateKeeps, WipeFindKeeps,
   WipeAssignmentsKeeps, WipeMembershipsKeeps, WipeRolesKeeps, WipeOrgKeeps, WipeCommitKeeps, WipeUserKeeps, WipeMembersKeeps, DeleteUserKeeps,
   Zenon
DEF Work

LEMMA CallKeeps ==
    ASSUME ProvInv, NEW r \in Runs, Call(r)
    PROVE  Kept
BY CallCreateKeeps, CallAssignKeeps, CallCommandKeeps, Zenon DEF Call

LEMMA ProvSteps == ProvInv /\ [Next]_provVars => Kept
<1>. SUFFICES ASSUME ProvInv, [Next]_provVars PROVE Kept
  OBVIOUS
<1>1. CASE UNCHANGED provVars
  <2>1. Quiet /\ run' = run
    BY <1>1 DEF provVars, Quiet
  <2>2. \A p \in Runs : Same(p)
    BY <2>1 DEF Same, Keeps
  <2>3. UNCHANGED <<slug, kept, members, main>>
    BY <2>1 DEF Quiet, orgVars, memberVars
  <2>4. RunsTyped' /\ RunsGood'
    BY <2>1, <2>2, <2>3, ShapeStands, WorldStands, ApartStands DEF ProvInv, RunsGood, RunsTyped
  <2>. QED
    BY <2>1, <2>4, QuietTables DEF Kept, ProvInv
<1>2. CASE Next
  BY <1>2, WorkKeeps, CallKeeps, RunFailsKeeps, SeedOrStaffKeeps, KeepKeeps, CiteKeeps, AddMemberKeeps,
     Zenon
  DEF Next
<1>. QED
  BY <1>1, <1>2

(* create_organization, assign_owner_membership and the command implement  *)
(* tenants that come and go as a whole, each by a single step.             *)
THEOREM ProvisioningIsAtomic == Spec => ImplementsTenants
<1>1. ProvInv /\ [Next]_provVars => ProvInv' /\ [T!TenantsNext]_T!tenantVars
  BY ProvSteps DEF Kept
<1>. QED
  BY <1>1, ProvStarts, PTL DEF Spec, ImplementsTenants, T!TenantsSpec

-----------------------------------------------------------------------------
(* What Tenants promises, step by step.                                    *)
WholeInv ==
    /\ slug \in [Orgs -> SUBSET Slugs]
    /\ roles \in [Orgs -> SUBSET Codes]
    /\ mail \in [Users -> SUBSET Emails]
    /\ members \subseteq Users \X Orgs
    /\ T!TenantsWhole

LEMMA TenantsStartWhole == T!TenantsInit => WholeInv
BY DEF T!TenantsInit, WholeInv, T!TenantsWhole

LEMMA TenantsStayWhole == WholeInv /\ [T!TenantsNext]_T!tenantVars => WholeInv'
<1>. SUFFICES ASSUME WholeInv, [T!TenantsNext]_T!tenantVars PROVE WholeInv'
  OBVIOUS
<1>. USE DEF WholeInv, T!TenantsWhole
<1>1. ASSUME NEW o \in Orgs, NEW s \in Slugs, T!Found(o, s) PROVE WholeInv'
  BY <1>1 DEF T!Found
<1>2. ASSUME NEW o \in Orgs, T!Dissolve(o) PROVE WholeInv'
  BY <1>2 DEF T!Dissolve
<1>3. ASSUME NEW u \in Users, NEW e \in Emails, T!Join(u, e) PROVE WholeInv'
  BY <1>3 DEF T!Join
<1>4. ASSUME NEW u \in Users, T!Leave(u) PROVE WholeInv'
  BY <1>4 DEF T!Leave
<1>5. ASSUME NEW u \in Users, NEW o \in Orgs, T!Enlist(u, o) PROVE WholeInv'
  <2>1. \A m \in main', n \in main' : m[1] = n[1] => m = n
    BY <1>5 DEF T!Enlist
  <2>. QED
    BY <1>5, <2>1 DEF T!Enlist
<1>6. ASSUME NEW m \in Users \X Orgs, T!Promote(m) PROVE WholeInv'
  BY <1>6 DEF T!Promote
<1>7. CASE UNCHANGED T!tenantVars
  BY <1>7 DEF T!tenantVars
<1>. QED
  BY <1>1, <1>2, <1>3, <1>4, <1>5, <1>6, <1>7 DEF T!TenantsNext

(* A specification that comes and goes as Tenants does keeps every tenant  *)
(* whole: all of its roles or none, its own slug, owners who are members   *)
(* and one default membership for a person.                                *)
LEMMA TenantsStandWhole == T!TenantsSpec => []T!TenantsWhole
<1>1. WholeInv => T!TenantsWhole
  BY DEF WholeInv
<1>. QED
  BY <1>1, TenantsStartWhole, TenantsStayWhole, PTL DEF T!TenantsSpec

(* And so does provisioning, whatever interleaves or is killed: the        *)
(* promise is carried over by the refinement.                              *)
THEOREM ProvisioningStaysWhole == Spec => []T!TenantsWhole
BY ProvisioningIsAtomic, TenantsStandWhole, PTL DEF ImplementsTenants

-----------------------------------------------------------------------------
(* What the command has found, and what nobody else has changed since.     *)
Located == HasOrg \ Inserted
Proven == HasUser \ {"address", "wipemembers", "wipesave"}
Wiping == {"wipe", "wiperows", "wipejoins", "wiperoles", "wipeorg", "wipedone", "wipeuser",
           "wipemembers", "wipesave"}

\* As long as nothing is deleted, the rows found are the ones asked for.
Undisturbed(r) ==
    run[r].job = "command" /\ run[r].calm =>
        /\ run[r].pc \in Located => \A o \in run[r].org : slug[o] = run[r].slug
        /\ run[r].pc \in HasUser => \A u \in run[r].user : mail[u] = run[r].mail
        /\ run[r].pc \in Proven => run[r].user \subseteq verified

\* What a command that is alone has read still stands.
Ready(r) ==
    /\ templates = Codes
    /\ run[r].pc \in Creating => BySlug(r) = {}
    /\ run[r].pc = "save" => ByMail(r) = {}
    /\ run[r].pc \in Joining => Membership(r) \cap members = {}
    /\ run[r].pc = "insert" /\ run[r].first => DefaultOf(r) = {}
    /\ run[r].pc = "late" => Membership(r) \subseteq members
    /\ run[r].pc = "lateseat" => Membership(r) \subseteq members \ owners
    /\ run[r].pc \in {"wiperoles", "wipeorg"} =>
         \A m \in members : m[2] \in run[r].org => m \in run[r].gone
    /\ run[r].pc = "wipesave" => ~Joined(r)
    /\ run[r].pc \in Wiping => run[r].reset

Solitary(r) ==
    run[r].pc # "idle" /\ run[r].alone =>
        /\ run[r].calm /\ ~run[r].severed
        /\ \A p \in Runs \ {r} : run[p].pc = "idle"
        /\ run[r].job = "command" => Ready(r)

Accounted(r) ==
    /\ run[r].pc = "idle" => run[r].job # "command"
    /\ run[r].pc # "idle" => run[r].answer = "done"

Remembered(r) == Undisturbed(r) /\ Solitary(r) /\ Accounted(r)

HistInv == \A r \in Runs : Remembered(r)

\* The two action properties, for one run.
EndsComplete(r) ==
    \A s \in Slugs, e \in Emails :
        /\ run[r].job = "command" /\ run[r].slug = {s} /\ run[r].mail = {e} /\ run[r].calm
        /\ run'[r].pc = "idle" /\ run'[r].answer = "done"
        => Complete({s}, {e})'

\* A command that must go through.
Clear(r) ==
    /\ run[r].job = "command" /\ run[r].alone
    /\ run[r].reset => kept = {} /\ cited = {}

GoesThrough(r) == Clear(r) => run'[r].answer # "error"

Advances(r) == Remembered(r)' /\ EndsComplete(r) /\ GoesThrough(r)

Known == ProvInv /\ HistInv /\ T!TenantsWhole

-----------------------------------------------------------------------------
(* Who does not take the step. *)
Bystander(p) ==
    \/ run'[p] = run[p]
    \/ run'[p] = [run[p] EXCEPT !.alone = FALSE]
    \/ run'[p] = [run[p] EXCEPT !.calm = FALSE]
    \/ \E b \in BOOLEAN : /\ run[p].severed => b
                         /\ run'[p] = [run[p] EXCEPT !.alone = FALSE, !.severed = b]

LEMMA BystanderSees ==
    ASSUME RunsTyped, NEW p \in Runs, Bystander(p)
    PROVE  /\ Same(p) /\ run'[p].answer = run[p].answer /\ run'[p].reset = run[p].reset
           /\ run'[p].alone => run[p].alone
           /\ run'[p].calm => run[p].calm
           /\ run[p].severed => run'[p].severed
           /\ run'[p].copy = run[p].copy
<1>1. run[p] \in RunRecords
  BY RunsAreRecords
<1>. QED
  BY <1>1 DEF Bystander, RunRecords, Same, Keeps

\* Rows that are there stay as they are.
Grows ==
    /\ \A o \in Orgs : slug[o] # {} => slug'[o] = slug[o]
    /\ \A u \in Users : mail[u] # {} => mail'[u] = mail[u]
    /\ verified \subseteq verified'

LEMMA StandsAside ==
    ASSUME Known, NEW p \in Runs, Bystander(p),
           Grows \/ run'[p].pc = "idle" \/ ~run'[p].calm,
           run[p].pc = "idle" \/ ~run'[p].alone
    PROVE  Advances(p)
<1>1. /\ Same(p) /\ run'[p].answer = run[p].answer /\ run'[p].reset = run[p].reset
      /\ run'[p].alone => run[p].alone
      /\ run'[p].calm => run[p].calm
  BY BystanderSees DEF Known, ProvInv
<1>2. Remembered(p) /\ RunShape(p) /\ run[p] \in RunRecords
  BY ShapeOf DEF Known, HistInv
<1>3. Accounted(p)' /\ Solitary(p)'
  BY <1>1, <1>2 DEF Remembered, Accounted, Solitary, Same, Keeps
<1>4. Undisturbed(p)'
  <2>1. SUFFICES ASSUME run[p].job = "command", run'[p].calm PROVE Undisturbed(p)'
    BY <1>1 DEF Undisturbed, Same, Keeps
  <2>2. run[p].pc # "idle" /\ run'[p].pc # "idle" /\ Grows
    BY <1>1, <1>2, <2>1 DEF Remembered, Accounted, Same
  <2>3. run[p].slug # {} /\ run[p].mail # {} /\ run[p].org \subseteq Orgs /\ run[p].user \subseteq Users
    BY <1>2, <2>1, FieldsTyped DEF RunShape, Single
  <2>. QED
    BY <1>1, <1>2, <2>1, <2>2, <2>3 DEF Remembered, Undisturbed, Same, Keeps, Grows
<1>5. EndsComplete(p) /\ GoesThrough(p)
  BY <1>1, <1>2 DEF EndsComplete, GoesThrough, Clear, Remembered, Accounted, Same
<1>. QED
  BY <1>3, <1>4, <1>5 DEF Advances, Remembered

-----------------------------------------------------------------------------
(* Who takes the step: it goes on, it ends, or it crashes. *)
OthersAside(r) == \A p \in Runs \ {r} : Bystander(p)

LEMMA MovesOn ==
    ASSUME Known, NEW r \in Runs, OthersAside(r), run[r].pc # "idle", run'[r].pc # "idle",
           run'[r].job = run[r].job, Remembers(r), Undisturbed(r)',
           run[r].job = "command" /\ run[r].alone => Ready(r)'
    PROVE  Advances(r)
<1>1. Remembered(r)
  BY DEF Known, HistInv
<1>2. \A p \in Runs \ {r} : Same(p)
  BY BystanderSees DEF OthersAside, Known, ProvInv
<1>3. Solitary(r)'
  BY <1>1, <1>2 DEF Remembered, Solitary, Remembers, Same
<1>4. Accounted(r)'
  BY <1>1 DEF Remembered, Accounted, Remembers
<1>5. EndsComplete(r) /\ GoesThrough(r)
  BY <1>4 DEF EndsComplete, GoesThrough, Accounted
<1>. QED
  BY <1>3, <1>4, <1>5 DEF Advances, Remembered

LEMMA OverIsRemembered ==
    ASSUME NEW r \in Runs, Over(r)
    PROVE  Remembered(r)'
BY DEF Over, Remembered, Undisturbed, Solitary, Accounted

LEMMA Fails ==
    ASSUME Known, NEW r \in Runs, Crash(r), ~Clear(r)
    PROVE  Advances(r)
<1>1. Over(r) /\ run'[r].answer = "error"
  BY EndMoves DEF Crash, Answers, Known, ProvInv
<1>2. EndsComplete(r) /\ GoesThrough(r)
  BY <1>1 DEF EndsComplete, GoesThrough
<1>. QED
  BY <1>1, <1>2, OverIsRemembered DEF Advances

LEMMA Finishes ==
    ASSUME Known, NEW r \in Runs, NEW a \in {"done", "killed"}, End(r, a),
           a = "done" => EndsComplete(r)
    PROVE  Advances(r)
<1>1. Over(r) /\ run'[r].answer = a
  BY EndMoves DEF Answers, Known, ProvInv
<1>2. EndsComplete(r) /\ GoesThrough(r)
  BY <1>1 DEF EndsComplete, GoesThrough
<1>. QED
  BY <1>1, <1>2, OverIsRemembered DEF Advances

(* What a run that must go through knows of the rows that it has found.    *)
LEMMA ClearKnows ==
    ASSUME Known, NEW r \in Runs, Clear(r)
    PROVE  /\ Ready(r) /\ run[r].calm /\ ~run[r].severed /\ run[r].pc # "idle"
           /\ run[r].pc \in Located => HasOwnerRole(r) /\ run[r].org \subseteq OrgRows
           /\ run[r].pc \in HasUser => run[r].user \subseteq People
<1>1. /\ RunShape(r) /\ run[r] \in RunRecords /\ Remembered(r) /\ run[r].job = "command"
      /\ run[r].alone
  BY ShapeOf DEF Known, HistInv, Clear
<1>2. Ready(r) /\ run[r].calm /\ ~run[r].severed /\ run[r].pc # "idle"
  BY <1>1 DEF Remembered, Accounted, Solitary
<1>3. run[r].slug # {} /\ run[r].mail # {} /\ run[r].org \subseteq Orgs /\ run[r].user \subseteq Users
  BY <1>1, FieldsTyped DEF RunShape, Single
<1>4. ASSUME run[r].pc \in Located PROVE HasOwnerRole(r) /\ run[r].org \subseteq OrgRows
  <2>1. \A o \in run[r].org : o \in Orgs /\ slug[o] # {}
    BY <1>1, <1>2, <1>3, <1>4 DEF Remembered, Undisturbed
  <2>2. \A o \in run[r].org : roles[o] = Codes
    BY <2>1 DEF Known, T!TenantsWhole
  <2>. QED
    BY <2>1, <2>2, OwnerAssumption DEF HasOwnerRole, OrgRows
<1>5. ASSUME run[r].pc \in HasUser PROVE run[r].user \subseteq People
  BY <1>1, <1>2, <1>3, <1>5 DEF Remembered, Undisturbed, People
<1>. QED
  BY <1>2, <1>4, <1>5

\* A membership is one row: it is there, or disjoint from those that are.
LEMMA MembershipIsOne ==
    ASSUME Known, NEW r \in Runs, run[r].pc \in HasUser \cap HasOrg
    PROVE  \E u \in Users, o \in Orgs :
             run[r].user = {u} /\ run[r].org = {o} /\ Membership(r) = {<<u, o>>}
<1>1. RunShape(r) /\ run[r] \in RunRecords
  BY ShapeOf DEF Known
<1>2. PICK u, o : run[r].user = {u} /\ run[r].org = {o}
  BY <1>1 DEF RunShape, Single
<1>3. u \in Users /\ o \in Orgs
  BY <1>1, <1>2, FieldsTyped
<1>. QED
  BY <1>2, <1>3 DEF Membership

\* Steps that read and go on, with every row where it was.
LEMMA GoesOn ==
    ASSUME Known, NEW r \in Runs, OthersAside(r), NEW step \in Steps \ {"idle"}, Goto(r, step), Quiet,
           run[r].pc # "idle",
           step \in Located => run[r].pc \in Located,
           step \in HasUser => run[r].pc \in HasUser,
           step \in Proven => run[r].pc \in Proven,
           step \in Wiping => run[r].pc \in Wiping,
           step \in Creating => BySlug(r) = {},
           step = "save" => ByMail(r) = {},
           step \in Joining => Membership(r) \cap members = {},
           step # "insert",
           step = "late" => Membership(r) \subseteq members,
           step = "lateseat" => Membership(r) \subseteq members \ owners,
           step # "wiperoles", step = "wipeorg" => run[r].pc = "wiperoles",
           step = "wipesave" => ~Joined(r)
    PROVE  Advances(r)
<1>1. run'[r].pc = step /\ Keeps(r) /\ Remembers(r)
  BY GotoMoves DEF Known, ProvInv
<1>2. Remembered(r)
  BY DEF Known, HistInv
<1>3. UNCHANGED <<slug, mail, verified, members, main, owners, templates>>
  BY DEF Quiet, orgVars, userVars, memberVars, seedVars
<1>4. Undisturbed(r)'
  BY <1>1, <1>2, <1>3 DEF Remembered, Undisturbed, Keeps, Remembers
<1>5. BySlug(r)' = BySlug(r) /\ ByMail(r)' = ByMail(r) /\ Membership(r)' = Membership(r)
  BY <1>1, <1>3 DEF BySlug, ByMail, Membership, Keeps
<1>6. Joined(r)' = Joined(r)
  BY <1>1, <1>3 DEF Joined, Keeps
<1>7. ASSUME run[r].job = "command", run[r].alone PROVE Ready(r)'
  <2>1. Ready(r)
    BY <1>2, <1>7 DEF Remembered, Solitary
  <2>. QED
    BY <1>1, <1>3, <1>5, <1>6, <2>1 DEF Ready, Remembers, Keeps
<1>. QED
  BY <1>1, <1>4, <1>7, MovesOn DEF Keeps

-----------------------------------------------------------------------------
(* create_organization, from any caller. *)
LEMMA InsertOrgAdvances ==
    ASSUME Known, NEW r \in Runs, OthersAside(r), InsertOrg(r)
    PROVE  Advances(r)
<1>1. Quiet /\ run[r].pc = "org" /\ Remembered(r)
  BY DEF InsertOrg, Quiet, Known, HistInv
<1>2. CASE SlugTaken(r) /\ Crash(r)
  <2>1. ~Clear(r)
    BY <1>1, <1>2, ClearKnows DEF Ready, Creating, SlugTaken, BySlug
  <2>. QED
    BY <1>2, <2>1, Fails
<1>3. ASSUME NEW o \in FreshOrgs, run' = [run EXCEPT ![r].pc = "templates", ![r].org = {o}]
      PROVE  Advances(r)
  <2>1. {o} \in SUBSET Orgs /\ "templates" \in Steps
    BY DEF FreshOrgs, Steps
  <2>2. /\ run'[r].pc = "templates" /\ run'[r].job = run[r].job /\ run'[r].slug = run[r].slug
        /\ Remembers(r)
    BY <1>3, <2>1, OrgMoves DEF Known, ProvInv
  <2>3. Undisturbed(r)'
    BY <2>2 DEF Undisturbed, Located, Proven, HasUser, HasOrg, Joining, Inserted
  <2>4. ASSUME run[r].job = "command", run[r].alone PROVE Ready(r)'
    <3>1. Ready(r) /\ BySlug(r)' = BySlug(r) /\ templates' = templates
      BY <1>1, <2>2, <2>4 DEF Remembered, Solitary, BySlug, Quiet, orgVars, seedVars
    <3>. QED
      BY <1>1, <2>2, <3>1 DEF Ready, Creating, Joining, Wiping
  <2>. QED
    BY <1>1, <2>2, <2>3, <2>4, MovesOn
<1>. QED
  BY <1>2, <1>3 DEF InsertOrg

LEMMA ReadTemplatesAdvances ==
    ASSUME Known, NEW r \in Runs, OthersAside(r), ReadTemplates(r)
    PROVE  Advances(r)
<1>1. Quiet /\ run[r].pc = "templates" /\ Remembered(r)
  BY DEF ReadTemplates, Quiet, Known, HistInv
<1>2. CASE ~AllTemplates /\ Crash(r)
  <2>1. ~Clear(r)
    BY <1>2, ClearKnows DEF Ready, AllTemplates
  <2>. QED
    BY <1>2, <2>1, Fails
<1>3. CASE run' = [run EXCEPT ![r].pc = "links", ![r].shape = templates]
  <2>1. templates \in SUBSET Codes /\ "links" \in Steps
    BY DEF Known, ProvInv, TablesTyped, SeedTypeOK, Steps
  <2>2. /\ run'[r].pc = "links" /\ run'[r].job = run[r].job /\ run'[r].slug = run[r].slug
        /\ Remembers(r)
    BY <1>3, <2>1, ShapeMoves DEF Known, ProvInv
  <2>3. Undisturbed(r)'
    BY <2>2 DEF Undisturbed, Located, Proven, HasUser, HasOrg, Joining, Inserted
  <2>4. ASSUME run[r].job = "command", run[r].alone PROVE Ready(r)'
    <3>1. Ready(r) /\ BySlug(r)' = BySlug(r) /\ templates' = templates
      BY <1>1, <2>2, <2>4 DEF Remembered, Solitary, BySlug, Quiet, orgVars, seedVars
    <3>. QED
      BY <1>1, <2>2, <3>1 DEF Ready, Creating, Joining, Wiping
  <2>. QED
    BY <1>1, <2>2, <2>3, <2>4, MovesOn
<1>. QED
  BY <1>2, <1>3 DEF ReadTemplates

LEMMA ReadLinksAdvances ==
    ASSUME Known, NEW r \in Runs, OthersAside(r), ReadLinks(r)
    PROVE  Advances(r)
<1>. DEFINE S == {p \in holds : p[1] \in run[r].shape}
<1>1. /\ Quiet /\ run[r].pc = "links" /\ Remembered(r)
      /\ run' = [run EXCEPT ![r].pc = "found", ![r].copy = S, ![r].severed = FALSE]
  BY DEF ReadLinks, Quiet, Known, HistInv
<1>2. S \in SUBSET (Codes \X Caps) /\ "found" \in Steps
  BY DEF Known, ProvInv, TablesTyped, SeedTypeOK, Steps
<1>. HIDE DEF S
<1>3. /\ run'[r].pc = "found" /\ run'[r].job = run[r].job /\ run'[r].slug = run[r].slug
      /\ Remembers(r)
  BY <1>1, <1>2, CopyMoves DEF Known, ProvInv
<1>4. Undisturbed(r)'
  BY <1>3 DEF Undisturbed, Located, Proven, HasUser, HasOrg, Joining, Inserted
<1>5. ASSUME run[r].job = "command", run[r].alone PROVE Ready(r)'
  <2>1. Ready(r) /\ BySlug(r)' = BySlug(r) /\ templates' = templates
    BY <1>1, <1>3, <1>5 DEF Remembered, Solitary, BySlug, Quiet, orgVars, seedVars
  <2>. QED
    BY <1>1, <1>3, <2>1 DEF Ready, Creating, Joining, Wiping
<1>. QED
  BY <1>1, <1>3, <1>4, <1>5, MovesOn

LEMMA CommitOrgAdvances ==
    ASSUME Known, NEW r \in Runs, OthersAside(r), CommitOrg(r)
    PROVE  Advances(r)
<1>1. /\ run[r].pc = "found" /\ Remembered(r) /\ RunShape(r) /\ run[r] \in RunRecords
      /\ templates' = templates
  BY ShapeOf DEF CommitOrg, Known, HistInv, seedVars
<1>4. CASE run[r].severed /\ Crash(r)
  <2>1. ~Clear(r)
    BY <1>4, ClearKnows
  <2>. QED
    BY <1>4, <2>1, Fails
<1>2. CASE /\ slug' = [o \in Orgs |-> IF o \in run[r].org THEN run[r].slug ELSE slug[o]]
           /\ run[r].job = "command" /\ Goto(r, "user")
  <2>1. run'[r].pc = "user" /\ Keeps(r) /\ Remembers(r)
    BY <1>2, GotoMoves DEF Known, ProvInv, Steps
  <2>2. run[r].org \subseteq Orgs
    BY <1>1, FieldsTyped
  <2>3. Undisturbed(r)'
    BY <1>1, <1>2, <2>1, <2>2
    DEF Undisturbed, Keeps, Located, Proven, HasUser, HasOrg, Joining, Inserted
  <2>4. ASSUME run[r].alone PROVE Ready(r)'
    <3>1. Ready(r)
      BY <1>1, <1>2, <2>4 DEF Remembered, Solitary
    <3>. QED
      BY <1>1, <2>1, <3>1 DEF Ready, Creating, Joining, Wiping
  <2>. QED
    BY <1>1, <2>1, <2>3, <2>4, MovesOn DEF Keeps
<1>3. CASE run[r].job # "command" /\ End(r, "done")
  BY <1>3, Finishes DEF EndsComplete
<1>. QED
  BY <1>2, <1>3, <1>4 DEF CommitOrg, AfterCreate

-----------------------------------------------------------------------------
(* assign_owner_membership, from any caller. *)
LEMMA CheckAdvances ==
    ASSUME Known, NEW r \in Runs, OthersAside(r), Check(r)
    PROVE  Advances(r)
<1>1. Quiet /\ run[r].pc = "check"
  BY DEF Check, Quiet
<1>2. PICK u \in Users, o \in Orgs : Membership(r) = {<<u, o>>}
  BY <1>1, MembershipIsOne DEF HasUser, HasOrg, Joining
<1>3. CASE /\ Crash(r)
           /\ ~(/\ run[r].org \subseteq OrgRows /\ run[r].user \subseteq People
                /\ ~(Membership(r) \subseteq members))
  <2>1. ~Clear(r)
    BY <1>1, <1>2, <1>3, ClearKnows DEF Ready, Located, HasUser, HasOrg, Joining, Inserted
  <2>. QED
    BY <1>3, <2>1, Fails
<1>4. CASE ~(Membership(r) \subseteq members) /\ Goto(r, "default")
  BY <1>1, <1>2, <1>4, GoesOn
  DEF Steps, Located, Proven, HasUser, HasOrg, Joining, Inserted, Wiping, Creating
<1>. QED
  BY <1>3, <1>4 DEF Check

LEMMA ReadDefaultAdvances ==
    ASSUME Known, NEW r \in Runs, OthersAside(r), ReadDefault(r)
    PROVE  Advances(r)
<1>. DEFINE S == (DefaultOf(r) = {})
<1>1. /\ Quiet /\ run[r].pc = "default" /\ Remembered(r)
      /\ run' = [run EXCEPT ![r].pc = "insert", ![r].first = S]
  BY DEF ReadDefault, Quiet, Known, HistInv
<1>2. S \in BOOLEAN /\ "insert" \in Steps
  BY DEF Steps
<1>3. S => DefaultOf(r) = {}
  OBVIOUS
<1>. HIDE DEF S
<1>4. /\ run'[r].pc = "insert" /\ run'[r].job = run[r].job /\ run'[r].slug = run[r].slug
      /\ run'[r].mail = run[r].mail /\ run'[r].org = run[r].org /\ run'[r].user = run[r].user
      /\ run'[r].first = S /\ Remembers(r)
  BY <1>1, <1>2, FirstMoves DEF Known, ProvInv
<1>5. UNCHANGED <<slug, mail, verified, members, main, templates>>
  BY <1>1 DEF Quiet, orgVars, userVars, memberVars, seedVars
<1>6. Undisturbed(r)'
  BY <1>1, <1>4, <1>5
  DEF Remembered, Undisturbed, Remembers, Located, Proven, HasUser, HasOrg, Joining, Inserted
<1>7. ASSUME run[r].job = "command", run[r].alone PROVE Ready(r)'
  <2>1. Ready(r)
    BY <1>1, <1>7 DEF Remembered, Solitary
  <2>2. Membership(r)' = Membership(r) /\ DefaultOf(r)' = DefaultOf(r)
    BY <1>4, <1>5 DEF Membership, DefaultOf
  <2>. QED
    BY <1>1, <1>3, <1>4, <1>5, <2>1, <2>2 DEF Ready, Creating, Joining, Wiping
<1>. QED
  BY <1>1, <1>4, <1>6, <1>7, MovesOn

LEMMA InsertMemberAdvances ==
    ASSUME Known, NEW r \in Runs, OthersAside(r), InsertMember(r)
    PROVE  Advances(r)
<1>1. Quiet /\ run[r].pc = "insert"
  BY DEF InsertMember, Quiet
<1>2. PICK u \in Users, o \in Orgs : Membership(r) = {<<u, o>>}
  BY <1>1, MembershipIsOne DEF HasUser, HasOrg, Joining
<1>3. CASE MemberTaken(r) /\ Crash(r)
  <2>1. ~Clear(r)
    BY <1>1, <1>2, <1>3, ClearKnows DEF Ready, Joining, MemberTaken
  <2>. QED
    BY <1>3, <2>1, Fails
<1>4. CASE ~MemberTaken(r) /\ Goto(r, "role")
  <2>1. Membership(r) \cap members = {}
    BY <1>2, <1>4 DEF MemberTaken
  <2>. QED
    BY <1>1, <1>4, <2>1, GoesOn
    DEF Steps, Located, Proven, HasUser, HasOrg, Joining, Inserted, Wiping, Creating
<1>. QED
  BY <1>3, <1>4 DEF InsertMember

LEMMA FindOwnerRoleAdvances ==
    ASSUME Known, NEW r \in Runs, OthersAside(r), FindOwnerRole(r)
    PROVE  Advances(r)
<1>1. Quiet /\ run[r].pc = "role" /\ RunWorld(r)
  BY ShapeOf DEF FindOwnerRole, Quiet, Known
<1>2. CASE ~HasOwnerRole(r) /\ Crash(r)
  <2>1. ~Clear(r)
    BY <1>1, <1>2, ClearKnows DEF Located, HasOrg, Joining, Inserted
  <2>. QED
    BY <1>2, <2>1, Fails
<1>3. CASE Goto(r, "seat")
  <2>1. Membership(r) \cap members = {}
    BY <1>1 DEF RunWorld, Entering, Inserted, Membership
  <2>. QED
    BY <1>1, <1>3, <2>1, GoesOn
    DEF Steps, Located, Proven, HasUser, HasOrg, Joining, Inserted, Wiping, Creating
<1>. QED
  BY <1>2, <1>3 DEF FindOwnerRole

(* A command that ends where its rows are, with the owner in place.        *)
LEMMA OwnerInPlace ==
    ASSUME Known, NEW r \in Runs, run[r].pc \in Proven \cap Located, HasOwnerRole(r),
           Membership(r) \subseteq owners', UNCHANGED <<slug, roles, mail, verified>>
    PROVE  EndsComplete(r)
<1>. SUFFICES ASSUME NEW s \in Slugs, NEW e \in Emails, run[r].job = "command",
                     run[r].slug = {s}, run[r].mail = {e}, run[r].calm
              PROVE  Complete({s}, {e})'
  BY DEF EndsComplete
<1>1. PICK u \in Users, o \in Orgs :
        run[r].user = {u} /\ run[r].org = {o} /\ Membership(r) = {<<u, o>>}
  BY MembershipIsOne DEF Proven, Located
<1>2. slug[o] = {s} /\ mail[u] = {e} /\ u \in verified
  BY <1>1 DEF Known, HistInv, Remembered, Undisturbed, Proven
<1>3. Owner \in roles[o]
  BY <1>1 DEF HasOwnerRole
<1>. QED
  BY <1>1, <1>2, <1>3 DEF Complete

LEMMA CommitMemberAdvances ==
    ASSUME Known, NEW r \in Runs, OthersAside(r), CommitMember(r)
    PROVE  Advances(r)
<1>1. run[r].pc = "seat" /\ UNCHANGED <<slug, roles, mail, verified>>
  BY DEF CommitMember, orgVars, userVars
<1>2. CASE ~(run[r].user \subseteq People /\ HasOwnerRole(r)) /\ Crash(r)
  <2>1. ~Clear(r)
    BY <1>1, <1>2, ClearKnows DEF Located, HasUser, HasOrg, Joining, Inserted
  <2>. QED
    BY <1>2, <2>1, Fails
<1>3. CASE HasOwnerRole(r) /\ owners' = owners \cup Membership(r) /\ End(r, "done")
  <2>1. EndsComplete(r)
    BY <1>1, <1>3, OwnerInPlace DEF Proven, Located, HasUser, HasOrg, Joining, Inserted
  <2>. QED
    BY <1>3, <2>1, Finishes
<1>. QED
  BY <1>2, <1>3 DEF CommitMember

-----------------------------------------------------------------------------
(* seed_dev_tenant. *)
LEMMA FindOrgAdvances ==
    ASSUME Known, NEW r \in Runs, OthersAside(r), FindOrg(r)
    PROVE  Advances(r)
<1>1. Quiet /\ run[r].pc = "find" /\ Remembered(r) /\ RunShape(r)
  BY ShapeOf DEF FindOrg, Quiet, Known, HistInv
<1>2. run[r].job = "command"
  BY <1>1 DEF RunShape, Commanding
<1>3. CASE BySlug(r) = {} /\ Goto(r, "org")
  BY <1>1, <1>3, GoesOn
  DEF Steps, Located, Proven, HasUser, HasOrg, Joining, Inserted, Wiping
<1>4. CASE BySlug(r) # {} /\ run' = [run EXCEPT ![r].pc = "user", ![r].org = BySlug(r)]
  <2>1. BySlug(r) \in SUBSET Orgs /\ "user" \in Steps
    BY DEF BySlug, Steps
  <2>2. /\ run'[r].pc = "user" /\ run'[r].job = run[r].job /\ run'[r].slug = run[r].slug
        /\ run'[r].org = BySlug(r) /\ Remembers(r)
    BY <1>4, <2>1, OrgMoves DEF Known, ProvInv
  <2>3. UNCHANGED <<slug, templates>>
    BY <1>1 DEF Quiet, orgVars, seedVars
  <2>4. Undisturbed(r)'
    BY <2>2, <2>3 DEF Undisturbed, BySlug, Located, Proven, HasUser, HasOrg, Joining, Inserted
  <2>5. ASSUME run[r].alone PROVE Ready(r)'
    <3>1. Ready(r)
      BY <1>1, <1>2, <2>5 DEF Remembered, Solitary
    <3>. QED
      BY <2>2, <2>3, <3>1 DEF Ready, Creating, Joining, Wiping
  <2>. QED
    BY <1>1, <2>2, <2>4, <2>5, MovesOn
<1>. QED
  BY <1>3, <1>4 DEF FindOrg

LEMMA FindUserAdvances ==
    ASSUME Known, NEW r \in Runs, OthersAside(r), FindUser(r)
    PROVE  Advances(r)
<1>1. Quiet /\ run[r].pc = "user" /\ Remembered(r) /\ RunShape(r)
  BY ShapeOf DEF FindUser, Quiet, Known, HistInv
<1>2. run[r].job = "command"
  BY <1>1 DEF RunShape, Commanding
<1>3. CASE ByMail(r) = {} /\ Goto(r, "save")
  BY <1>1, <1>3, GoesOn
  DEF Steps, Located, Proven, HasUser, HasOrg, Joining, Inserted, Wiping, Creating
<1>4. CASE ByMail(r) # {} /\ run' = [run EXCEPT ![r].pc = "address", ![r].user = ByMail(r)]
  <2>1. ByMail(r) \in SUBSET Users /\ "address" \in Steps
    BY DEF ByMail, Steps
  <2>2. /\ run'[r].pc = "address" /\ run'[r].job = run[r].job /\ run'[r].slug = run[r].slug
        /\ run'[r].mail = run[r].mail /\ run'[r].org = run[r].org /\ run'[r].user = ByMail(r)
        /\ Remembers(r)
    BY <1>4, <2>1, UserMoves DEF Known, ProvInv
  <2>3. UNCHANGED <<slug, mail, templates>>
    BY <1>1 DEF Quiet, orgVars, userVars, seedVars
  <2>4. Undisturbed(r)'
    BY <1>1, <2>2, <2>3
    DEF Remembered, Undisturbed, Remembers, ByMail, Located, Proven, HasUser, HasOrg, Joining, Inserted
  <2>5. ASSUME run[r].alone PROVE Ready(r)'
    <3>1. Ready(r)
      BY <1>1, <1>2, <2>5 DEF Remembered, Solitary
    <3>. QED
      BY <2>2, <2>3, <3>1 DEF Ready, Creating, Joining, Wiping
  <2>. QED
    BY <1>1, <2>2, <2>4, <2>5, MovesOn
<1>. QED
  BY <1>3, <1>4 DEF FindUser

LEMMA SaveUserAdvances ==
    ASSUME Known, NEW r \in Runs, OthersAside(r), SaveUser(r)
    PROVE  Advances(r)
<1>1. /\ run[r].pc = "save" /\ Remembered(r) /\ RunShape(r) /\ UNCHANGED <<slug, templates>>
  BY ShapeOf DEF SaveUser, Known, HistInv, orgVars, seedVars
<1>2. run[r].job = "command"
  BY <1>1 DEF RunShape, Commanding
<1>3. CASE MailTaken(r) /\ Crash(r)
  <2>1. ~Clear(r)
    BY <1>1, <1>3, ClearKnows DEF Ready, MailTaken, ByMail
  <2>. QED
    BY <1>3, <2>1, Fails
<1>4. ASSUME NEW u \in FreshUsers, mail' = [mail EXCEPT ![u] = run[r].mail],
             run' = [run EXCEPT ![r].pc = "address", ![r].user = {u}]
      PROVE  Advances(r)
  <2>1. u \in Users /\ {u} \in SUBSET Users /\ "address" \in Steps
    BY DEF FreshUsers, Steps
  <2>2. /\ run'[r].pc = "address" /\ run'[r].job = run[r].job /\ run'[r].slug = run[r].slug
        /\ run'[r].mail = run[r].mail /\ run'[r].org = run[r].org /\ run'[r].user = {u}
        /\ Remembers(r)
    BY <1>4, <2>1, UserMoves DEF Known, ProvInv
  <2>3. mail'[u] = run[r].mail
    BY <1>4, <2>1 DEF Known, ProvInv, TablesTyped
  <2>4. Undisturbed(r)'
    BY <1>1, <2>2, <2>3
    DEF Remembered, Undisturbed, Remembers, Located, Proven, HasUser, HasOrg, Joining, Inserted
  <2>5. ASSUME run[r].alone PROVE Ready(r)'
    <3>1. Ready(r)
      BY <1>1, <1>2, <2>5 DEF Remembered, Solitary
    <3>. QED
      BY <1>1, <2>2, <3>1 DEF Ready, Creating, Joining, Wiping
  <2>. QED
    BY <1>1, <2>2, <2>4, <2>5, MovesOn
<1>. QED
  BY <1>3, <1>4 DEF SaveUser

LEMMA AddressAdvances ==
    ASSUME Known, NEW r \in Runs, OthersAside(r), Address(r)
    PROVE  Advances(r)
<1>1. /\ run[r].pc = "address" /\ Remembered(r) /\ RunShape(r)
      /\ UNCHANGED <<slug, mail, templates>>
  BY ShapeOf DEF Address, Known, HistInv, orgVars, seedVars
<1>2. run[r].job = "command"
  BY <1>1 DEF RunShape, Commanding
<1>3. CASE ~(run[r].user \subseteq People) /\ Crash(r)
  <2>1. ~Clear(r)
    BY <1>1, <1>3, ClearKnows DEF HasUser
  <2>. QED
    BY <1>3, <2>1, Fails
<1>4. CASE verified' = verified \cup run[r].user /\ Goto(r, "member")
  <2>1. run'[r].pc = "member" /\ Keeps(r) /\ Remembers(r)
    BY <1>4, GotoMoves DEF Known, ProvInv, Steps
  <2>2. Undisturbed(r)'
    BY <1>1, <1>4, <2>1
    DEF Remembered, Undisturbed, Remembers, Keeps, Located, Proven, HasUser, HasOrg, Joining, Inserted
  <2>3. ASSUME run[r].alone PROVE Ready(r)'
    <3>1. Ready(r)
      BY <1>1, <1>2, <2>3 DEF Remembered, Solitary
    <3>. QED
      BY <1>1, <2>1, <3>1 DEF Ready, Creating, Joining, Wiping
  <2>. QED
    BY <1>1, <2>1, <2>2, <2>3, MovesOn DEF Keeps
<1>. QED
  BY <1>3, <1>4 DEF Address

LEMMA FindMemberAdvances ==
    ASSUME Known, NEW r \in Runs, OthersAside(r), FindMember(r)
    PROVE  Advances(r)
<1>1. Quiet /\ run[r].pc = "member"
  BY DEF FindMember, Quiet
<1>2. CASE Membership(r) \subseteq members /\ Goto(r, "late")
  BY <1>1, <1>2, GoesOn
  DEF Steps, Located, Proven, HasUser, HasOrg, Joining, Inserted, Wiping, Creating
<1>3. CASE ~(Membership(r) \subseteq members) /\ Goto(r, "check")
  <2>1. PICK u \in Users, o \in Orgs : Membership(r) = {<<u, o>>}
    BY <1>1, MembershipIsOne DEF HasUser, HasOrg
  <2>2. Membership(r) \cap members = {}
    BY <1>3, <2>1
  <2>. QED
    BY <1>1, <1>3, <2>2, GoesOn
    DEF Steps, Located, Proven, HasUser, HasOrg, Joining, Inserted, Wiping, Creating
<1>. QED
  BY <1>2, <1>3 DEF FindMember

LEMMA FindLateAdvances ==
    ASSUME Known, NEW r \in Runs, OthersAside(r), FindLate(r)
    PROVE  Advances(r)
<1>1. /\ Quiet /\ run[r].pc = "late" /\ Remembered(r) /\ RunShape(r)
      /\ UNCHANGED <<slug, roles, mail, verified, owners>>
  BY ShapeOf DEF FindLate, Quiet, Known, HistInv, orgVars, userVars, memberVars
<1>2. CASE ~HasOwnerRole(r) /\ Crash(r)
  <2>1. ~Clear(r)
    BY <1>1, <1>2, ClearKnows DEF Located, HasOrg, Inserted
  <2>. QED
    BY <1>2, <2>1, Fails
<1>3. CASE HasOwnerRole(r) /\ Membership(r) \subseteq owners /\ End(r, "done")
  <2>1. EndsComplete(r)
    BY <1>1, <1>3, OwnerInPlace DEF Proven, Located, HasUser, HasOrg, Inserted
  <2>. QED
    BY <1>3, <2>1, Finishes
<1>4. CASE ~(Membership(r) \subseteq owners) /\ Goto(r, "lateseat")
  <2>1. run'[r].pc = "lateseat" /\ Keeps(r) /\ Remembers(r)
    BY <1>4, GotoMoves DEF Known, ProvInv, Steps
  <2>2. Undisturbed(r)'
    BY <1>1, <2>1
    DEF Remembered, Undisturbed, Remembers, Keeps, Located, Proven, HasUser, HasOrg, Joining, Inserted
  <2>3. PICK u \in Users, o \in Orgs : Membership(r) = {<<u, o>>}
    BY <1>1, MembershipIsOne DEF HasUser, HasOrg
  <2>4. run[r].job = "command"
    BY <1>1 DEF RunShape, Commanding
  <2>5. ASSUME run[r].alone PROVE Ready(r)'
    <3>1. Ready(r)
      BY <1>1, <2>4, <2>5 DEF Remembered, Solitary
    <3>2. Membership(r)' = Membership(r) /\ UNCHANGED <<members, owners, templates>>
      BY <1>1, <2>1 DEF Membership, Keeps, Quiet, memberVars, seedVars
    <3>3. Membership(r) \subseteq members \ owners
      BY <1>1, <1>4, <2>3, <3>1 DEF Ready
    <3>. QED
      BY <2>1, <3>1, <3>2, <3>3 DEF Ready, Creating, Joining, Wiping
  <2>. QED
    BY <1>1, <2>1, <2>2, <2>5, MovesOn DEF Keeps
<1>. QED
  BY <1>2, <1>3, <1>4 DEF FindLate

LEMMA CommitLateAdvances ==
    ASSUME Known, NEW r \in Runs, OthersAside(r), CommitLate(r)
    PROVE  Advances(r)
<1>1. run[r].pc = "lateseat" /\ UNCHANGED <<slug, roles, mail, verified>>
  BY DEF CommitLate, orgVars, userVars
<1>2. CASE ~(Membership(r) \subseteq members \ owners /\ HasOwnerRole(r)) /\ Crash(r)
  <2>1. ~Clear(r)
    BY <1>1, <1>2, ClearKnows DEF Ready, Located, HasOrg, Inserted
  <2>. QED
    BY <1>2, <2>1, Fails
<1>3. CASE HasOwnerRole(r) /\ owners' = owners \cup Membership(r) /\ End(r, "done")
  <2>1. EndsComplete(r)
    BY <1>1, <1>3, OwnerInPlace DEF Proven, Located, HasUser, HasOrg, Inserted
  <2>. QED
    BY <1>3, <2>1, Finishes
<1>. QED
  BY <1>2, <1>3 DEF CommitLate

-----------------------------------------------------------------------------
(* --reset *)
LEMMA WipeFindAdvances ==
    ASSUME Known, NEW r \in Runs, OthersAside(r), WipeFind(r)
    PROVE  Advances(r)
<1>1. Quiet /\ run[r].pc = "wipe" /\ Remembered(r) /\ RunShape(r)
  BY ShapeOf DEF WipeFind, Quiet, Known, HistInv
<1>2. run[r].job = "command"
  BY <1>1 DEF RunShape, Commanding
<1>3. CASE Goto(r, "wipeuser")
  BY <1>1, <1>3, GoesOn
  DEF Steps, Located, Proven, HasUser, HasOrg, Joining, Inserted, Wiping, Creating
<1>4. CASE run' = [run EXCEPT ![r].pc = "wiperows", ![r].org = BySlug(r)]
  <2>1. BySlug(r) \in SUBSET Orgs /\ "wiperows" \in Steps
    BY DEF BySlug, Steps
  <2>2. /\ run'[r].pc = "wiperows" /\ run'[r].job = run[r].job /\ run'[r].slug = run[r].slug
        /\ run'[r].org = BySlug(r) /\ Remembers(r)
    BY <1>4, <2>1, OrgMoves DEF Known, ProvInv
  <2>3. UNCHANGED <<slug, templates>>
    BY <1>1 DEF Quiet, orgVars, seedVars
  <2>4. Undisturbed(r)'
    BY <2>2, <2>3 DEF Undisturbed, BySlug, Located, Proven, HasUser, HasOrg, Joining, Inserted
  <2>5. ASSUME run[r].alone PROVE Ready(r)'
    <3>1. Ready(r)
      BY <1>1, <1>2, <2>5 DEF Remembered, Solitary
    <3>. QED
      BY <1>1, <2>2, <2>3, <3>1 DEF Ready, Remembers, Creating, Joining, Wiping
  <2>. QED
    BY <1>1, <2>2, <2>4, <2>5, MovesOn
<1>. QED
  BY <1>3, <1>4 DEF WipeFind

LEMMA WipeAssignmentsAdvances ==
    ASSUME Known, NEW r \in Runs, OthersAside(r), WipeAssignments(r)
    PROVE  Advances(r)
<1>1. Quiet /\ run[r].pc = "wiperows" /\ Goto(r, "wipejoins")
  BY DEF WipeAssignments, Quiet
<1>. QED
  BY <1>1, GoesOn
  DEF Steps, Located, Proven, HasUser, HasOrg, Joining, Inserted, Wiping, Creating

LEMMA WipeMembershipsAdvances ==
    ASSUME Known, NEW r \in Runs, OthersAside(r), WipeMemberships(r)
    PROVE  Advances(r)
<1>. DEFINE S == {m \in members : m[2] \in run[r].org}
<1>1. /\ Quiet /\ run[r].pc = "wipejoins" /\ Remembered(r) /\ RunShape(r)
      /\ UNCHANGED <<slug, members, templates>>
  BY ShapeOf DEF WipeMemberships, Quiet, Known, HistInv, orgVars, memberVars, seedVars
<1>2. run[r].job = "command"
  BY <1>1 DEF RunShape, Commanding
<1>3. CASE run[r].org \cap kept # {} /\ Crash(r)
  <2>1. ~Clear(r)
    BY <1>1, <1>3, ClearKnows DEF Ready, Wiping, Clear
  <2>. QED
    BY <1>3, <2>1, Fails
<1>4. CASE run' = [run EXCEPT ![r].pc = "wiperoles", ![r].gone = S]
  <2>1. S \in SUBSET (Users \X Orgs) /\ "wiperoles" \in Steps
    BY DEF Known, ProvInv, TablesTyped, People, OrgRows, Steps
  <2>2. \A m \in members : m[2] \in run[r].org => m \in S
    OBVIOUS
  <2>. HIDE DEF S
  <2>3. /\ run'[r].pc = "wiperoles" /\ run'[r].job = run[r].job /\ run'[r].slug = run[r].slug
        /\ run'[r].org = run[r].org /\ run'[r].gone = S /\ Remembers(r)
    BY <1>4, <2>1, GoneMoves DEF Known, ProvInv
  <2>4. Undisturbed(r)'
    BY <1>1, <2>3
    DEF Remembered, Undisturbed, Remembers, Located, Proven, HasUser, HasOrg, Joining, Inserted
  <2>5. ASSUME run[r].alone PROVE Ready(r)'
    <3>1. Ready(r)
      BY <1>1, <1>2, <2>5 DEF Remembered, Solitary
    <3>. QED
      BY <1>1, <2>2, <2>3, <3>1 DEF Ready, Remembers, Creating, Joining, Wiping
  <2>. QED
    BY <1>1, <2>3, <2>4, <2>5, MovesOn
<1>. QED
  BY <1>3, <1>4 DEF WipeMemberships

LEMMA WipeRolesAdvances ==
    ASSUME Known, NEW r \in Runs, OthersAside(r), WipeRoles(r)
    PROVE  Advances(r)
<1>1. Quiet /\ run[r].pc = "wiperoles"
  BY DEF WipeRoles, Quiet
<1>2. CASE Seated(r) /\ Crash(r)
  <2>1. owners \subseteq members
    BY DEF Known, ProvInv, TablesTyped
  <2>2. ~Clear(r)
    BY <1>1, <1>2, <2>1, ClearKnows DEF Ready, Seated
  <2>. QED
    BY <1>2, <2>2, Fails
<1>3. CASE Goto(r, "wipeorg")
  BY <1>1, <1>3, GoesOn
  DEF Steps, Located, Proven, HasUser, HasOrg, Joining, Inserted, Wiping, Creating
<1>. QED
  BY <1>2, <1>3 DEF WipeRoles

LEMMA WipeOrgAdvances ==
    ASSUME Known, NEW r \in Runs, OthersAside(r), WipeOrg(r)
    PROVE  Advances(r)
<1>1. Quiet /\ run[r].pc = "wipeorg"
  BY DEF WipeOrg, Quiet
<1>2. CASE ~Unprotected(r) /\ Crash(r)
  <2>1. ~Clear(r)
    BY <1>1, <1>2, ClearKnows DEF Ready, Wiping, Unprotected, Clear
  <2>. QED
    BY <1>2, <2>1, Fails
<1>3. CASE Goto(r, "wipedone")
  BY <1>1, <1>3, GoesOn
  DEF Steps, Located, Proven, HasUser, HasOrg, Joining, Inserted, Wiping, Creating
<1>. QED
  BY <1>2, <1>3 DEF WipeOrg

\* A deletion commits; nothing that was found is kept.
LEMMA WipedAdvances ==
    ASSUME Known, NEW r \in Runs, OthersAside(r), NEW step \in {"wipeuser", "find"},
           Wiped(r, step), run[r].pc \in Wiping, UNCHANGED templates
    PROVE  Advances(r)
<1>1. Remembered(r) /\ RunShape(r)
  BY ShapeOf DEF Known, HistInv
<1>2. run[r].job = "command" /\ run[r].pc # "idle"
  BY <1>1 DEF RunShape, Commanding, Wiping
<1>3. run'[r].pc = step /\ run'[r].job = run[r].job /\ Remembers(r)
  BY WipedMoves DEF Known, ProvInv, Steps
<1>4. Undisturbed(r)'
  BY <1>3 DEF Undisturbed, Located, Proven, HasUser, HasOrg, Joining, Inserted
<1>5. ASSUME run[r].alone PROVE Ready(r)'
  <2>1. Ready(r)
    BY <1>1, <1>2, <1>5 DEF Remembered, Solitary
  <2>. QED
    BY <1>3, <2>1 DEF Ready, Remembers, Creating, Joining, Wiping
<1>. QED
  BY <1>2, <1>3, <1>4, <1>5, MovesOn

LEMMA WipeCommitAdvances ==
    ASSUME Known, NEW r \in Runs, OthersAside(r), WipeCommit(r)
    PROVE  Advances(r)
BY WipedAdvances DEF WipeCommit, Wiping, seedVars

LEMMA WipeUserAdvances ==
    ASSUME Known, NEW r \in Runs, OthersAside(r), WipeUser(r)
    PROVE  Advances(r)
<1>1. Quiet /\ run[r].pc = "wipeuser" /\ Remembered(r) /\ RunShape(r)
  BY ShapeOf DEF WipeUser, Quiet, Known, HistInv
<1>2. run[r].job = "command"
  BY <1>1 DEF RunShape, Commanding
<1>3. CASE Goto(r, "find")
  BY <1>1, <1>3, GoesOn
  DEF Steps, Located, Proven, HasUser, HasOrg, Joining, Inserted, Wiping, Creating
<1>4. CASE run' = [run EXCEPT ![r].pc = "wipemembers", ![r].user = ByMail(r)]
  <2>1. ByMail(r) \in SUBSET Users /\ "wipemembers" \in Steps
    BY DEF ByMail, Steps
  <2>2. /\ run'[r].pc = "wipemembers" /\ run'[r].job = run[r].job /\ run'[r].mail = run[r].mail
        /\ run'[r].user = ByMail(r) /\ Remembers(r)
    BY <1>4, <2>1, UserMoves DEF Known, ProvInv
  <2>3. UNCHANGED <<mail, templates>>
    BY <1>1 DEF Quiet, userVars, seedVars
  <2>4. Undisturbed(r)'
    BY <2>2, <2>3 DEF Undisturbed, ByMail, Located, Proven, HasUser, HasOrg, Joining, Inserted
  <2>5. ASSUME run[r].alone PROVE Ready(r)'
    <3>1. Ready(r)
      BY <1>1, <1>2, <2>5 DEF Remembered, Solitary
    <3>. QED
      BY <1>1, <2>2, <2>3, <3>1 DEF Ready, Remembers, Creating, Joining, Wiping
  <2>. QED
    BY <1>1, <2>2, <2>4, <2>5, MovesOn
<1>. QED
  BY <1>3, <1>4 DEF WipeUser, Goto

LEMMA WipeMembersAdvances ==
    ASSUME Known, NEW r \in Runs, OthersAside(r), WipeMembers(r)
    PROVE  Advances(r)
<1>1. Quiet /\ run[r].pc = "wipemembers" /\ Remembered(r) /\ RunShape(r)
  BY ShapeOf DEF WipeMembers, Quiet, Known, HistInv
<1>2. run[r].job = "command"
  BY <1>1 DEF RunShape, Commanding
<1>3. CASE run' = [run EXCEPT ![r].pc = "find", ![r].user = {}]
  <2>1. {} \in SUBSET Users /\ "find" \in Steps
    BY DEF Steps
  <2>2. run'[r].pc = "find" /\ run'[r].job = run[r].job /\ Remembers(r)
    BY <1>3, <2>1, UserMoves DEF Known, ProvInv
  <2>3. Undisturbed(r)'
    BY <2>2 DEF Undisturbed, Located, Proven, HasUser, HasOrg, Joining, Inserted
  <2>4. ASSUME run[r].alone PROVE Ready(r)'
    <3>1. Ready(r) /\ templates' = templates
      BY <1>1, <1>2, <2>4 DEF Remembered, Solitary, Quiet, seedVars
    <3>. QED
      BY <2>2, <3>1 DEF Ready, Creating, Joining, Wiping
  <2>. QED
    BY <1>1, <2>2, <2>3, <2>4, MovesOn
<1>4. CASE ~Joined(r) /\ Goto(r, "wipesave")
  BY <1>1, <1>4, GoesOn
  DEF Steps, Located, Proven, HasUser, HasOrg, Joining, Inserted, Wiping, Creating
<1>. QED
  BY <1>3, <1>4 DEF WipeMembers

LEMMA DeleteUserAdvances ==
    ASSUME Known, NEW r \in Runs, OthersAside(r), DeleteUser(r)
    PROVE  Advances(r)
<1>1. run[r].pc = "wipesave" /\ UNCHANGED templates
  BY DEF DeleteUser, seedVars
<1>2. CASE (Joined(r) \/ run[r].user \cap cited # {}) /\ Crash(r)
  <2>1. ~Clear(r)
    BY <1>1, <1>2, ClearKnows DEF Ready, Wiping, Clear
  <2>. QED
    BY <1>2, <2>1, Fails
<1>3. CASE Wiped(r, "find")
  BY <1>1, <1>3, WipedAdvances DEF Wiping
<1>. QED
  BY <1>2, <1>3 DEF DeleteUser

-----------------------------------------------------------------------------
(* A call begins. *)
LEMMA Begins ==
    ASSUME Known, NEW r \in Runs, run[r].pc = "idle", NEW x \in RunRecords, Begin(r, x), Quiet,
           OthersAside(r), x.pc \in {"org", "check", "find", "wipe"}, x.answer = "done",
           x.job = "command" => templates = Codes /\ x.pc \in {"find", "wipe"},
           x.pc = "wipe" => x.reset, x.calm, ~x.severed
    PROVE  Advances(r)
<1>1. /\ run'[r].pc = x.pc /\ run'[r].job = x.job /\ run'[r].answer = "done"
      /\ run'[r].reset = x.reset /\ run'[r].calm /\ run'[r].alone = (InFlight = {})
      /\ ~run'[r].severed
  BY BeginMoves DEF Known, ProvInv
<1>2. \A p \in Runs \ {r} : Same(p)
  BY BystanderSees DEF OthersAside, Known, ProvInv
<1>3. templates' = templates /\ Remembered(r)
  BY DEF Quiet, seedVars, Known, HistInv
<1>4. Undisturbed(r)'
  BY <1>1 DEF Undisturbed, Located, Proven, HasUser, HasOrg, Joining, Inserted
<1>5. Solitary(r)'
  BY <1>1, <1>2, <1>3 DEF Solitary, Ready, InFlight, Same, Creating, Joining, Wiping
<1>6. Accounted(r)' /\ EndsComplete(r) /\ GoesThrough(r)
  BY <1>1, <1>3 DEF Remembered, Accounted, EndsComplete, GoesThrough, Clear
<1>. QED
  BY <1>4, <1>5, <1>6 DEF Advances, Remembered

LEMMA CallAdvances ==
    ASSUME Known, NEW r \in Runs, OthersAside(r), Call(r)
    PROVE  Advances(r)
<1>1. ASSUME NEW s \in Slugs, CallCreate(r, s) PROVE Advances(r)
  <2>. DEFINE x == [Idle EXCEPT !.pc = "org", !.job = "create", !.slug = {s}]
  <2>1. x \in RunRecords /\ x.pc = "org" /\ x.job = "create" /\ x.answer = "done" /\ x.calm
        /\ ~x.severed
    BY DEF Idle, RunRecords, Steps, Jobs, Answers
  <2>2. Begin(r, x) /\ Quiet /\ run[r].pc = "idle"
    BY <1>1 DEF CallCreate, Quiet
  <2>. HIDE DEF x
  <2>. QED
    BY <2>1, <2>2, Begins
<1>2. ASSUME NEW u \in People, NEW o \in OrgRows, CallAssign(r, u, o) PROVE Advances(r)
  <2>. DEFINE x == [Idle EXCEPT !.pc = "check", !.job = "assign", !.org = {o}, !.user = {u}]
  <2>1. x \in RunRecords /\ x.pc = "check" /\ x.job = "assign" /\ x.answer = "done" /\ x.calm
        /\ ~x.severed
    BY DEF Idle, RunRecords, Steps, Jobs, Answers, People, OrgRows
  <2>2. Begin(r, x) /\ Quiet /\ run[r].pc = "idle"
    BY <1>2 DEF CallAssign, Quiet
  <2>. HIDE DEF x
  <2>. QED
    BY <2>1, <2>2, Begins
<1>3. ASSUME NEW s \in Slugs, NEW e \in Emails, NEW reset \in BOOLEAN, CallCommand(r, s, e, reset)
      PROVE  Advances(r)
  <2>1. Quiet /\ run[r].pc = "idle"
    BY <1>3 DEF CallCommand, Quiet
  <2>2. CASE AllTemplates
    <3>. DEFINE x == [Idle EXCEPT !.pc = IF reset THEN "wipe" ELSE "find", !.job = "command",
                                  !.slug = {s}, !.mail = {e}, !.reset = reset]
    <3>1. /\ x \in RunRecords /\ x.pc \in {"find", "wipe"} /\ x.answer = "done" /\ x.calm
          /\ ~x.severed
          /\ x.pc = "wipe" => x.reset
      BY DEF Idle, RunRecords, Steps, Jobs, Answers
    <3>2. Begin(r, x) /\ templates = Codes
      BY <1>3, <2>2 DEF CallCommand, AllTemplates
    <3>. HIDE DEF x
    <3>. QED
      BY <2>1, <3>1, <3>2, Begins
  <2>3. CASE ~AllTemplates
    <3>. DEFINE x == [Idle EXCEPT !.answer = "refused"]
    <3>1. x \in RunRecords /\ x.pc = "idle" /\ x.job = "create" /\ x.answer = "refused"
      BY DEF Idle, RunRecords, Steps, Jobs, Answers
    <3>2. Begin(r, x)
      BY <1>3, <2>3 DEF CallCommand
    <3>. HIDE DEF x
    <3>3. Over(r) /\ run'[r].answer = "refused"
      BY <3>1, <3>2, BeginMoves DEF Known, ProvInv, Over
    <3>. QED
      BY <3>3, OverIsRemembered DEF Advances, EndsComplete, GoesThrough
  <2>. QED
    BY <2>2, <2>3
<1>. QED
  BY <1>1, <1>2, <1>3 DEF Call

-----------------------------------------------------------------------------
(* What a step does to the runs that do not take it. *)
Spares(r) ==
    \A p \in Runs \ {r} :
        /\ Bystander(p) /\ run'[p].severed = run[p].severed
        /\ Grows \/ run'[p].pc = "idle" \/ ~run'[p].calm

\* A step that writes the run's own record, and deletes nothing.
Private(r) == Grows /\ \A p \in Runs \ {r} : run'[p] = run[p]

LEMMA PrivateSpares ==
    ASSUME NEW r \in Runs, Private(r)
    PROVE  Spares(r)
BY DEF Private, Spares, Bystander

LEMMA EndIsPrivate ==
    ASSUME RunsTyped, NEW r \in Runs, NEW a, End(r, a), Grows
    PROVE  Private(r)
BY DEF End, Private, RunsTyped

LEMMA GotoIsPrivate ==
    ASSUME RunsTyped, NEW r \in Runs, NEW step, Goto(r, step), Grows
    PROVE  Private(r)
BY DEF Goto, Private, RunsTyped

LEMMA QuietGrows == Quiet => Grows
BY DEF Quiet, Grows, orgVars, userVars

LEMMA CreateIsPrivate ==
    ASSUME ProvInv, NEW r \in Runs,
           InsertOrg(r) \/ ReadTemplates(r) \/ ReadLinks(r) \/ CommitOrg(r)
    PROVE  Private(r)
<1>. USE DEF ProvInv
<1>1. CASE InsertOrg(r)
  <2>1. Quiet
    BY <1>1 DEF InsertOrg, Quiet
  <2>. QED
    BY <1>1, <2>1, QuietGrows, EndIsPrivate DEF InsertOrg, Crash, Private, RunsTyped
<1>2. CASE ReadTemplates(r)
  <2>1. Quiet
    BY <1>2 DEF ReadTemplates, Quiet
  <2>. QED
    BY <1>2, <2>1, QuietGrows, EndIsPrivate DEF ReadTemplates, Crash, Private, RunsTyped
<1>3. CASE ReadLinks(r)
  <2>1. Quiet
    BY <1>3 DEF ReadLinks, Quiet
  <2>. QED
    BY <1>3, <2>1, QuietGrows DEF ReadLinks, Private, RunsTyped
<1>4. CASE CommitOrg(r)
  <2>1. \A o \in Orgs : slug[o] # {} => o \notin run[r].org
    BY <1>4 DEF CommitOrg, RunsGood, RunWorld, Inserted
  <2>2. Grows
    BY <1>4, <2>1 DEF CommitOrg, Grows, userVars
  <2>. QED
    BY <1>4, <2>2, EndIsPrivate, GotoIsPrivate DEF CommitOrg, AfterCreate, Crash
<1>. QED
  BY <1>1, <1>2, <1>3, <1>4

LEMMA AssignIsPrivate ==
    ASSUME ProvInv, NEW r \in Runs,
           \/ Check(r) \/ ReadDefault(r) \/ InsertMember(r) \/ FindOwnerRole(r) \/ CommitMember(r)
           \/ FindMember(r) \/ FindLate(r) \/ CommitLate(r)
    PROVE  Private(r)
<1>1. Grows
  BY DEF Check, ReadDefault, InsertMember, FindOwnerRole, CommitMember, FindMember, FindLate,
         CommitLate, Grows, orgVars, userVars
<1>2. CASE ReadDefault(r)
  BY <1>1, <1>2 DEF ReadDefault, Private, ProvInv, RunsTyped
<1>3. CASE ~ReadDefault(r)
  <2>1. (\E a : End(r, a)) \/ (\E step : Goto(r, step))
    BY <1>3 DEF Check, InsertMember, FindOwnerRole, CommitMember, FindMember, FindLate, CommitLate,
                Crash
  <2>. QED
    BY <1>1, <2>1, EndIsPrivate, GotoIsPrivate DEF ProvInv
<1>. QED
  BY <1>2, <1>3

LEMMA CommandIsPrivate ==
    ASSUME ProvInv, NEW r \in Runs,
           FindOrg(r) \/ FindUser(r) \/ SaveUser(r) \/ Address(r)
    PROVE  Private(r)
<1>. USE DEF ProvInv
<1>1. CASE FindOrg(r)
  <2>1. Quiet
    BY <1>1 DEF FindOrg, Quiet
  <2>. QED
    BY <1>1, <2>1, QuietGrows, GotoIsPrivate DEF FindOrg, Private, RunsTyped
<1>2. CASE FindUser(r)
  <2>1. Quiet
    BY <1>2 DEF FindUser, Quiet
  <2>. QED
    BY <1>2, <2>1, QuietGrows, GotoIsPrivate DEF FindUser, Private, RunsTyped
<1>3. CASE SaveUser(r)
  <2>1. Grows
    BY <1>3 DEF SaveUser, Grows, orgVars, FreshUsers, People, TablesTyped
  <2>. QED
    BY <1>3, <2>1, EndIsPrivate DEF SaveUser, Crash, Private, RunsTyped
<1>4. CASE Address(r)
  <2>1. Grows
    BY <1>4 DEF Address, Grows, orgVars
  <2>. QED
    BY <1>4, <2>1, EndIsPrivate, GotoIsPrivate DEF Address, Crash
<1>. QED
  BY <1>1, <1>2, <1>3, <1>4

LEMMA WipeIsPrivate ==
    ASSUME ProvInv, NEW r \in Runs,
           \/ WipeFind(r) \/ WipeAssignments(r) \/ WipeMemberships(r) \/ WipeRoles(r) \/ WipeOrg(r)
           \/ WipeUser(r) \/ WipeMembers(r)
    PROVE  Private(r)
<1>. USE DEF ProvInv
<1>1. Grows
  <2>1. Quiet
    BY DEF WipeFind, WipeAssignments, WipeMemberships, WipeRoles, WipeOrg, WipeUser, WipeMembers, Quiet
  <2>. QED
    BY <2>1, QuietGrows
<1>2. CASE WipeFind(r)
  BY <1>1, <1>2, GotoIsPrivate DEF WipeFind, Private, RunsTyped
<1>3. CASE WipeMemberships(r)
  BY <1>1, <1>3, EndIsPrivate DEF WipeMemberships, Crash, Private, RunsTyped
<1>7. CASE WipeAssignments(r) \/ WipeRoles(r)
  BY <1>1, <1>7, EndIsPrivate, GotoIsPrivate DEF WipeAssignments, WipeRoles, Crash
<1>4. CASE WipeOrg(r)
  BY <1>1, <1>4, EndIsPrivate, GotoIsPrivate DEF WipeOrg, Crash
<1>5. CASE WipeUser(r)
  BY <1>1, <1>5 DEF WipeUser, Private, RunsTyped
<1>6. CASE WipeMembers(r)
  BY <1>1, <1>6, GotoIsPrivate DEF WipeMembers, Private, RunsTyped
<1>. QED
  BY <1>2, <1>3, <1>4, <1>5, <1>6, <1>7

\* A deletion disturbs whoever is in flight.
LEMMA WipedSpares ==
    ASSUME RunsTyped, NEW r \in Runs, NEW step, Wiped(r, step)
    PROVE  Spares(r)
<1>. SUFFICES ASSUME NEW p \in Runs \ {r}
              PROVE  /\ Bystander(p) /\ run'[p].severed = run[p].severed
                     /\ run'[p].pc = "idle" \/ ~run'[p].calm
  BY DEF Spares
<1>1. run[p] \in RunRecords
  BY RunsAreRecords
<1>2. CASE p \in InFlight
  <2>1. run'[p] = [run[p] EXCEPT !.calm = FALSE]
    BY <1>2 DEF Wiped
  <2>. QED
    BY <1>1, <2>1 DEF Bystander, RunRecords
<1>3. CASE p \notin InFlight
  <2>1. run'[p] = run[p] /\ run[p].pc = "idle"
    BY <1>3 DEF Wiped, InFlight
  <2>. QED
    BY <2>1 DEF Bystander
<1>. QED
  BY <1>2, <1>3

LEMMA DeleteUserSpares ==
    ASSUME ProvInv, NEW r \in Runs, DeleteUser(r)
    PROVE  Spares(r)
<1>1. CASE Crash(r) /\ UNCHANGED userVars
  <2>1. Grows
    BY <1>1 DEF DeleteUser, Grows, orgVars, userVars
  <2>. QED
    BY <1>1, <2>1, EndIsPrivate, PrivateSpares DEF Crash, ProvInv
<1>2. CASE Wiped(r, "find")
  BY <1>2, WipedSpares DEF ProvInv
<1>. QED
  BY <1>1, <1>2 DEF DeleteUser

LEMMA WorkSpares ==
    ASSUME ProvInv, NEW r \in Runs, Work(r)
    PROVE  Spares(r)
<1>1. WipeCommit(r) => Spares(r)
  BY WipedSpares DEF WipeCommit, ProvInv
<1>. QED
  BY <1>1, CreateIsPrivate, AssignIsPrivate, CommandIsPrivate, WipeIsPrivate, PrivateSpares,
     DeleteUserSpares, Zenon
  DEF Work

-----------------------------------------------------------------------------
(* One step, for everybody. *)
LEMMA OwnStep ==
    ASSUME Known, NEW r \in Runs, Work(r), OthersAside(r)
    PROVE  Advances(r)
BY InsertOrgAdvances, ReadTemplatesAdvances, ReadLinksAdvances, CommitOrgAdvances, CheckAdvances,
   ReadDefaultAdvances, InsertMemberAdvances, FindOwnerRoleAdvances, CommitMemberAdvances,
   FindOrgAdvances, FindUserAdvances, SaveUserAdvances, AddressAdvances, FindMemberAdvances,
   FindLateAdvances, CommitLateAdvances, WipeFindAdvances, WipeAssignmentsAdvances, WipeMembershipsAdvances, WipeRolesAdvances, WipeOrgAdvances,
   WipeCommitAdvances, WipeUserAdvances, WipeMembersAdvances, DeleteUserAdvances, Zenon
DEF Work

LEMMA WorksInFlight ==
    ASSUME NEW r \in Runs, Work(r)
    PROVE  run[r].pc # "idle"
BY DEF Work, InsertOrg, ReadTemplates, ReadLinks, CommitOrg, Check, ReadDefault, InsertMember,
       FindOwnerRole, CommitMember, FindOrg, FindUser, SaveUser, Address, FindMember, FindLate,
       CommitLate, WipeFind, WipeAssignments, WipeMemberships, WipeRoles, WipeOrg, WipeCommit, WipeUser, WipeMembers, DeleteUser

\* Nobody is alone while another is at work.
LEMMA SparedAdvance ==
    ASSUME Known, NEW r \in Runs, Spares(r), run[r].pc # "idle", NEW p \in Runs \ {r}
    PROVE  Advances(p)
<1>1. Remembered(p) /\ Bystander(p) /\ (Grows \/ run'[p].pc = "idle" \/ ~run'[p].calm)
  BY DEF Known, HistInv, Spares
<1>2. run'[p].alone => run[p].alone
  BY <1>1, BystanderSees DEF Known, ProvInv
<1>3. run[p].pc = "idle" \/ ~run'[p].alone
  BY <1>1, <1>2 DEF Remembered, Solitary
<1>. QED
  BY <1>1, <1>3, StandsAside

LEMMA WorkStep ==
    ASSUME Known, NEW r \in Runs, Work(r), NEW p \in Runs
    PROVE  Advances(p)
<1>1. Spares(r) /\ run[r].pc # "idle"
  BY WorkSpares, WorksInFlight DEF Known
<1>. QED
  BY <1>1, OwnStep, SparedAdvance DEF Spares, OthersAside

LEMMA FailStep ==
    ASSUME Known, NEW r \in Runs, RunFails(r), NEW p \in Runs
    PROVE  Advances(p)
<1>1. End(r, "killed") /\ run[r].pc # "idle" /\ Quiet
  BY DEF RunFails, Quiet
<1>2. Spares(r)
  BY <1>1, QuietGrows, EndIsPrivate, PrivateSpares DEF Known, ProvInv
<1>3. Advances(r)
  BY <1>1, Finishes
<1>. QED
  BY <1>1, <1>2, <1>3, SparedAdvance

\* Whoever is in flight when another begins, or staff is at work.
LEMMA JoinedInFlight ==
    ASSUME Known, NEW p \in Runs, Grows,
           \/ run'[p] = IF p \in InFlight THEN [run[p] EXCEPT !.alone = FALSE] ELSE run[p]
           \/ p \notin InFlight /\ run'[p] = run[p]
           \/ \E lost : Overtaken(p, lost)
    PROVE  Bystander(p) /\ Advances(p)
<1>1. run[p] \in RunRecords
  BY RunsAreRecords DEF Known, ProvInv
<1>2. run[p].pc = "idle" \/ ~run'[p].alone
  BY <1>1 DEF InFlight, RunRecords, Overtaken
<1>3. Bystander(p)
  BY DEF Bystander, Overtaken
<1>. QED
  BY <1>2, <1>3, StandsAside

LEMMA CallStep ==
    ASSUME Known, NEW r \in Runs, Call(r), NEW p \in Runs
    PROVE  Advances(p)
<1>1. Quiet /\ \E x : Begin(r, x)
  BY DEF Call, CallCreate, CallAssign, CallCommand, Quiet
<1>2. \A q \in Runs \ {r} :
        run'[q] = IF q \in InFlight THEN [run[q] EXCEPT !.alone = FALSE] ELSE run[q]
  BY <1>1 DEF Begin
<1>3. \A q \in Runs \ {r} : Bystander(q) /\ Advances(q)
  BY <1>1, <1>2, QuietGrows, JoinedInFlight
<1>. QED
  BY <1>3, CallAdvances DEF OthersAside

LEMMA NotAloneStep ==
    ASSUME Known, NEW lost, NotAlone(lost), Grows, NEW p \in Runs
    PROVE  Advances(p)
BY NotAloneSees, JoinedInFlight DEF Known, ProvInv

LEMMA HistSteps == Known /\ [Next]_provVars => \A p \in Runs : Advances(p)
<1>. SUFFICES ASSUME Known, [Next]_provVars, NEW p \in Runs PROVE Advances(p)
  OBVIOUS
<1>1. CASE UNCHANGED provVars
  <2>1. run' = run /\ UNCHANGED <<seedVars, orgVars, userVars, memberVars>>
    BY <1>1 DEF provVars
  <2>2. Remembered(p)' = Remembered(p) /\ Remembered(p)
    BY <2>1 DEF Known, HistInv, Remembered, Undisturbed, Solitary, Accounted, Ready, BySlug, ByMail,
                Membership, DefaultOf, Joined, seedVars, orgVars, userVars, memberVars
  <2>. QED
    BY <2>1, <2>2 DEF Advances, EndsComplete, GoesThrough, Clear, Remembered, Accounted
<1>2. ASSUME NEW r \in Runs, Call(r) \/ Work(r) \/ RunFails(r) PROVE Advances(p)
  BY <1>2, CallStep, WorkStep, FailStep
<1>3. CASE SeedOrStaff
  BY <1>3, NotAloneStep DEF SeedOrStaff, Grows, orgVars, userVars
<1>4. ASSUME NEW o \in Orgs, Keep(o) PROVE Advances(p)
  BY <1>4, NotAloneStep DEF Keep, Grows, userVars
<1>5. ASSUME NEW u \in Users, NEW o \in Orgs, AddMember(u, o) PROVE Advances(p)
  BY <1>5, NotAloneStep DEF AddMember, Grows, orgVars, userVars
<1>6. ASSUME NEW u \in Users, Cite(u) PROVE Advances(p)
  BY <1>6, NotAloneStep DEF Cite, Grows, orgVars
<1>. QED
  BY <1>1, <1>2, <1>3, <1>4, <1>5, <1>6, Zenon DEF Next

LEMMA HistStarts == Init => HistInv
<1>. SUFFICES ASSUME Init, NEW r \in Runs PROVE Remembered(r)
  BY DEF HistInv
<1>1. run[r].pc = "idle" /\ run[r].job = "create"
  BY DEF Init, Idle
<1>. QED
  BY <1>1 DEF Remembered, Undisturbed, Solitary, Accounted

LEMMA ProvisioningKnows == Spec => []Known
<1>1. Known /\ [Next]_provVars => HistInv'
  BY HistSteps DEF Advances, HistInv
<1>2. ProvInv /\ [Next]_provVars => ProvInv'
  BY ProvSteps DEF Kept
<1>3. Known <=> ProvInv /\ HistInv /\ T!TenantsWhole
  BY DEF Known
<1>. QED
  BY <1>1, <1>2, <1>3, ProvStarts, HistStarts, ProvisioningStaysWhole, PTL DEF Spec

(* A seed_dev_tenant that ends as it should leaves a demo tenant to sign   *)
(* in to, whatever calls, staff and other commands did in between, unless  *)
(* one of them has deleted something.                                      *)
THEOREM DoneIsComplete == Spec => DoneMeansComplete
<1>1. Known /\ [Next]_provVars => \A r \in Runs : EndsComplete(r)
  BY HistSteps DEF Advances
<1>2. (\A r \in Runs : EndsComplete(r)) =>
        \A r \in Runs, s \in Slugs, e \in Emails :
          /\ run[r].job = "command" /\ run[r].slug = {s} /\ run[r].mail = {e} /\ run[r].calm
          /\ run'[r].pc = "idle" /\ run'[r].answer = "done"
          => Complete({s}, {e})'
  BY DEF EndsComplete
<1>. QED
  BY <1>1, <1>2, ProvisioningKnows, PTL DEF Spec, DoneMeansComplete

(* From whatever earlier runs have left behind, killed at any statement, a *)
(* command that has the database to itself goes through.                   *)
THEOREM RerunsSucceed == Spec => RerunSucceeds
<1>1. Known /\ [Next]_provVars => \A r \in Runs : GoesThrough(r)
  BY HistSteps DEF Advances
<1>2. (\A r \in Runs : GoesThrough(r)) =>
        \A r \in Runs :
          /\ run[r].job = "command" /\ run[r].alone
          /\ run[r].reset => kept = {} /\ cited = {}
          => run'[r].answer # "error"
  BY DEF GoesThrough, Clear
<1>. QED
  BY <1>1, <1>2, ProvisioningKnows, PTL DEF Spec, RerunSucceeds

-----------------------------------------------------------------------------
(* Who waits for whom. *)
Deleting == {"wiperoles", "wipeorg", "wipedone"}

\* The guards of the steps that wait.
Waits(r) ==
    \/ run[r].pc = "org" /\ SlugPending(r)
    \/ run[r].pc = "insert" /\ MemberPending(r)
    \/ run[r].pc \in {"seat", "lateseat", "wiperoles"} /\ run[r].org \cap RoleLocks(r) # {}
    \/ run[r].pc = "lateseat" /\ \E p \in Runs \ {r} : Membership(r) \cap run[p].gone # {}
    \/ /\ run[r].pc = "wiperows"
       /\ \E p \in Runs \ {r} :
            Emptying(p) /\ \E m \in owners : m[2] \in run[r].org \cap run[p].org
    \/ /\ run[r].pc = "wipejoins"
       /\ \E p \in Runs \ {r} : \E m \in run[p].gone : m[2] \in run[r].org

LEMMA WaitersStand ==
    ASSUME NEW r \in Runs, Waits(r)
    PROVE  ~Work(r)
BY DEF Waits, Work, InsertOrg, ReadTemplates, ReadLinks, CommitOrg, Check, ReadDefault, InsertMember,
       FindOwnerRole, CommitMember, FindOrg, FindUser, SaveUser, Address, FindMember, FindLate,
       CommitLate, WipeFind, WipeAssignments, WipeMemberships, WipeRoles, WipeOrg, WipeCommit, WipeUser, WipeMembers, DeleteUser

\* Deleted rows are held from the DELETE to the COMMIT.
Emptied(r) == run[r].gone # {} => run[r].pc \in Deleting

LEMMA QuietlyEmptied ==
    ASSUME RunsTyped, NEW r \in Runs, Emptied(r), run[r].pc \notin Deleting,
           \/ \E step : Goto(r, step)
           \/ \E step, S : \/ run' = [run EXCEPT ![r].pc = step, ![r].org = S]
                           \/ run' = [run EXCEPT ![r].pc = step, ![r].user = S]
                           \/ run' = [run EXCEPT ![r].pc = step, ![r].first = S]
                           \/ run' = [run EXCEPT ![r].pc = step, ![r].shape = S]
                           \/ run' = [run EXCEPT ![r].pc = step, ![r].copy = S,
                                                 ![r].severed = FALSE]
    PROVE  Emptied(r)'
<1>1. run[r] \in RunRecords
  BY RunsAreRecords
<1>2. run[r].gone = {}
  BY DEF Emptied
<1>3. run'[r].gone = run[r].gone
  <2>1. ASSUME NEW step, run' = [run EXCEPT ![r].pc = step]
        PROVE  run'[r].gone = run[r].gone
    BY <1>1, <2>1 DEF RunsTyped, RunRecords
  <2>2. ASSUME NEW step, NEW S, run' = [run EXCEPT ![r].pc = step, ![r].org = S]
        PROVE  run'[r].gone = run[r].gone
    BY <1>1, <2>2 DEF RunsTyped, RunRecords
  <2>3. ASSUME NEW step, NEW S, run' = [run EXCEPT ![r].pc = step, ![r].user = S]
        PROVE  run'[r].gone = run[r].gone
    BY <1>1, <2>3 DEF RunsTyped, RunRecords
  <2>4. ASSUME NEW step, NEW S, run' = [run EXCEPT ![r].pc = step, ![r].first = S]
        PROVE  run'[r].gone = run[r].gone
    BY <1>1, <2>4 DEF RunsTyped, RunRecords
  <2>5. ASSUME NEW step, NEW S, run' = [run EXCEPT ![r].pc = step, ![r].shape = S]
        PROVE  run'[r].gone = run[r].gone
    BY <1>1, <2>5 DEF RunsTyped, RunRecords
  <2>6. ASSUME NEW step, NEW S,
               run' = [run EXCEPT ![r].pc = step, ![r].copy = S, ![r].severed = FALSE]
        PROVE  run'[r].gone = run[r].gone
    BY <1>1, <2>6 DEF RunsTyped, RunRecords
  <2>. QED
    BY <2>1, <2>2, <2>3, <2>4, <2>5, <2>6, Zenon DEF Goto
<1>. QED
  BY <1>2, <1>3 DEF Emptied

LEMMA EndIsEmptied ==
    ASSUME RunsTyped, NEW r \in Runs, NEW a, End(r, a)
    PROVE  Emptied(r)'
BY DEF End, RunsTyped, Emptied, Idle

LEMMA WorkEmpties ==
    ASSUME RunsTyped, NEW r \in Runs, Emptied(r), Work(r)
    PROVE  Emptied(r)'
<1>1. CASE InsertOrg(r) \/ ReadTemplates(r) \/ CommitOrg(r)
  BY <1>1, QuietlyEmptied, EndIsEmptied
  DEF InsertOrg, ReadTemplates, CommitOrg, AfterCreate, Crash, Deleting
<1>9. CASE ReadLinks(r)
  <2>. DEFINE C == {p \in holds : p[1] \in run[r].shape}
  <2>1. /\ run' = [run EXCEPT ![r].pc = "found", ![r].copy = C, ![r].severed = FALSE]
        /\ run[r].pc \notin Deleting
    BY <1>9 DEF ReadLinks, Deleting
  <2>. HIDE DEF C
  <2>. QED
    BY <2>1, QuietlyEmptied
<1>2. CASE Check(r) \/ InsertMember(r) \/ FindOwnerRole(r) \/ CommitMember(r)
  BY <1>2, QuietlyEmptied, EndIsEmptied
  DEF Check, InsertMember, FindOwnerRole, CommitMember, Crash, Deleting
<1>10. CASE ReadDefault(r)
  <2>. DEFINE f == (DefaultOf(r) = {})
  <2>1. run' = [run EXCEPT ![r].pc = "insert", ![r].first = f] /\ run[r].pc \notin Deleting
    BY <1>10 DEF ReadDefault, Deleting
  <2>. HIDE DEF f
  <2>. QED
    BY <2>1, QuietlyEmptied
<1>3. CASE FindOrg(r) \/ FindUser(r) \/ SaveUser(r) \/ Address(r)
  BY <1>3, QuietlyEmptied, EndIsEmptied DEF FindOrg, FindUser, SaveUser, Address, Crash, Deleting
<1>4. CASE FindMember(r) \/ FindLate(r) \/ CommitLate(r)
  BY <1>4, QuietlyEmptied, EndIsEmptied DEF FindMember, FindLate, CommitLate, Crash, Deleting
<1>5. CASE WipeFind(r) \/ WipeAssignments(r) \/ WipeUser(r) \/ WipeMembers(r)
  BY <1>5, QuietlyEmptied, EndIsEmptied
  DEF WipeFind, WipeAssignments, WipeUser, WipeMembers, Goto, Deleting
<1>6. CASE WipeMemberships(r)
  <2>1. run[r] \in RunRecords
    BY RunsAreRecords
  <2>2. CASE Crash(r)
    BY <2>2, EndIsEmptied DEF Crash
  <2>3. ASSUME NEW S, run' = [run EXCEPT ![r].pc = "wiperoles", ![r].gone = S] PROVE Emptied(r)'
    <3>1. run'[r].pc = "wiperoles"
      BY <2>1, <2>3 DEF RunsTyped, RunRecords
    <3>. QED
      BY <3>1 DEF Emptied, Deleting
  <2>. QED
    BY <1>6, <2>2, <2>3 DEF WipeMemberships
<1>7. CASE WipeRoles(r) \/ WipeOrg(r)
  <2>1. ASSUME NEW step \in {"wipeorg", "wipedone"}, Goto(r, step) PROVE Emptied(r)'
    BY <2>1, GotoMoves DEF Emptied, Deleting, Steps
  <2>2. CASE Crash(r)
    BY <2>2, EndIsEmptied DEF Crash
  <2>. QED
    BY <1>7, <2>1, <2>2 DEF WipeRoles, WipeOrg
<1>8. CASE WipeCommit(r) \/ DeleteUser(r)
  <2>1. CASE Crash(r)
    BY <2>1, EndIsEmptied DEF Crash
  <2>2. CASE \E step : Wiped(r, step)
    <3>1. run[r] \in RunRecords
      BY RunsAreRecords
    <3>2. run'[r].gone = {}
      BY <2>2, <3>1 DEF Wiped, RunRecords
    <3>. QED
      BY <3>2 DEF Emptied
  <2>. QED
    BY <1>8, <2>1, <2>2 DEF WipeCommit, DeleteUser
<1>. QED
  BY <1>1, <1>2, <1>3, <1>4, <1>5, <1>6, <1>7, <1>8, <1>9, <1>10 DEF Work

LEMMA BystanderIsEmptied ==
    ASSUME RunsTyped, NEW p \in Runs, Bystander(p), Emptied(p)
    PROVE  Emptied(p)'
BY BystanderSees DEF Emptied, Same, Keeps

LEMMA BeginsEmptied ==
    ASSUME NEW r \in Runs, NEW x \in RunRecords, x.gone = {}, Begin(r, x)
    PROVE  Emptied(r)'
<1>1. run'[r] = [x EXCEPT !.alone = InFlight = {}]
  BY DEF Begin
<1>2. run'[r].gone = {}
  BY <1>1 DEF RunRecords
<1>. QED
  BY <1>2 DEF Emptied

LEMMA CallEmpties ==
    ASSUME RunsTyped, NEW r \in Runs, Call(r), NEW p \in Runs, Emptied(p)
    PROVE  Emptied(p)'
<1>1. CASE p # r
  <2>1. \E x : Begin(r, x)
    BY DEF Call, CallCreate, CallAssign, CallCommand
  <2>2. Bystander(p)
    BY <1>1, <2>1 DEF Begin, Bystander
  <2>. QED
    BY <2>2, BystanderIsEmptied
<1>2. CASE p = r
  <2>1. ASSUME NEW x, x \in RunRecords /\ x.gone = {}, Begin(r, x) PROVE Emptied(p)'
    BY <1>2, <2>1, BeginsEmptied
  <2>2. ASSUME NEW s \in Slugs, CallCreate(r, s) PROVE Emptied(p)'
    <3>. DEFINE x == [Idle EXCEPT !.pc = "org", !.job = "create", !.slug = {s}]
    <3>1. x \in RunRecords /\ x.gone = {}
      BY DEF Idle, RunRecords, Steps, Jobs, Answers
    <3>. HIDE DEF x
    <3>. QED
      BY <2>1, <2>2, <3>1 DEF CallCreate, x
  <2>3. ASSUME NEW u \in People, NEW o \in OrgRows, CallAssign(r, u, o) PROVE Emptied(p)'
    <3>. DEFINE x == [Idle EXCEPT !.pc = "check", !.job = "assign", !.org = {o}, !.user = {u}]
    <3>1. x \in RunRecords /\ x.gone = {}
      BY DEF Idle, RunRecords, Steps, Jobs, Answers, People, OrgRows
    <3>. HIDE DEF x
    <3>. QED
      BY <2>1, <2>3, <3>1 DEF CallAssign, x
  <2>4. ASSUME NEW s \in Slugs, NEW e \in Emails, NEW reset \in BOOLEAN,
               CallCommand(r, s, e, reset)
        PROVE  Emptied(p)'
    <3>. DEFINE x == [Idle EXCEPT !.pc = IF reset THEN "wipe" ELSE "find", !.job = "command",
                                  !.slug = {s}, !.mail = {e}, !.reset = reset]
                y == [Idle EXCEPT !.answer = "refused"]
    <3>1. x \in RunRecords /\ x.gone = {} /\ y \in RunRecords /\ y.gone = {}
      BY DEF Idle, RunRecords, Steps, Jobs, Answers
    <3>2. Begin(r, x) \/ Begin(r, y)
      BY <2>4 DEF CallCommand
    <3>. HIDE DEF x, y
    <3>. QED
      BY <2>1, <3>1, <3>2
  <2>. QED
    BY <2>2, <2>3, <2>4 DEF Call
<1>. QED
  BY <1>1, <1>2

EmptyInv == \A r \in Runs : Emptied(r)

LEMMA EmptySteps == ProvInv /\ EmptyInv /\ [Next]_provVars => EmptyInv'
<1>. SUFFICES ASSUME ProvInv, EmptyInv, [Next]_provVars, NEW p \in Runs PROVE Emptied(p)'
  BY DEF EmptyInv
<1>1. Emptied(p) /\ RunsTyped
  BY DEF EmptyInv, ProvInv
<1>2. ASSUME NEW r \in Runs, Work(r) PROVE Emptied(p)'
  BY <1>1, <1>2, WorkEmpties, WorkSpares, BystanderIsEmptied DEF EmptyInv, Spares
<1>3. ASSUME NEW r \in Runs, Call(r) PROVE Emptied(p)'
  BY <1>1, <1>3, CallEmpties
<1>4. ASSUME NEW r \in Runs, RunFails(r) PROVE Emptied(p)'
  <2>1. CASE p = r
    BY <1>1, <1>4, <2>1, EndIsEmptied DEF RunFails
  <2>2. CASE p # r
    BY <1>1, <1>4, <2>2, BystanderIsEmptied DEF RunFails, End, RunsTyped, Bystander
  <2>. QED
    BY <2>1, <2>2
<1>5. CASE \/ SeedOrStaff \/ (\E o \in Orgs : Keep(o)) \/ (\E u \in Users : Cite(u))
           \/ \E u \in Users, o \in Orgs : AddMember(u, o)
  <2>1. \E lost : NotAlone(lost)
    BY <1>5 DEF SeedOrStaff, Keep, Cite, AddMember
  <2>2. Bystander(p)
    BY <1>1, <2>1, NotAloneSees DEF Overtaken, Bystander
  <2>. QED
    BY <1>1, <2>2, BystanderIsEmptied
<1>6. CASE UNCHANGED provVars
  BY <1>1, <1>6 DEF provVars, Emptied
<1>. QED
  BY <1>2, <1>3, <1>4, <1>5, <1>6 DEF Next

\* Whoever is waited for is further on, and who is furthest does not wait.
Furthest == Inserted \cup {"wipeorg", "wipedone"}

LEMMA WaitsEnd ==
    ASSUME ProvInv, EmptyInv, NEW r \in Runs, Waits(r)
    PROVE  \E p \in InFlight : ~Waits(p)
<1>1. \A p \in Runs : run[p].pc \in Furthest => p \in InFlight /\ ~Waits(p)
  BY DEF Furthest, Inserted, InFlight, Waits
<1>2. \A p \in Runs, q \in Runs : run[p].org \cap RoleLocks(q) # {} =>
        \E w \in Runs : run[w].pc \in Furthest
  BY DEF RoleLocks, RolesGone, Furthest
<1>. SUFFICES ASSUME \A p \in InFlight : Waits(p) PROVE FALSE
  OBVIOUS
<1>3. \A p \in Runs : run[p].pc \notin Furthest
  BY <1>1
<1>4. \A p \in Runs : run[p].pc \notin Deleting
  BY <1>2, <1>3 DEF Deleting, Furthest, InFlight, Waits
<1>5. \A p \in Runs : run[p].gone = {}
  BY <1>4 DEF EmptyInv, Emptied
<1>6. \A p \in Runs : run[p].pc # "wipejoins"
  BY <1>5 DEF InFlight, Waits
<1>7. \A p \in Runs : run[p].pc \notin Entering
  BY <1>2, <1>3 DEF Entering, InFlight, Waits
<1>8. \A p \in Runs : ~Emptying(p)
  BY <1>4, <1>6 DEF Emptying, Deleting
<1>9. ~(run[r].pc = "insert" /\ MemberPending(r))
  <2>1. ASSUME run[r].pc = "insert" PROVE Membership(r) # {}
    <3>1. PICK u, o : run[r].user = {u} /\ run[r].org = {o}
      BY <2>1, ShapeOf DEF RunShape, HasUser, HasOrg, Joining, Single
    <3>2. Membership(r) = {<<u, o>>}
      BY <3>1 DEF Membership
    <3>. QED
      BY <3>2
  <2>. QED
    BY <1>5, <1>7, <2>1 DEF MemberPending, Entering
<1>10. ~(run[r].pc = "org" /\ SlugPending(r))
  BY <1>3 DEF SlugPending, Inserting, OrgGone, Furthest, Inserted
<1>11. run[r].org \cap RoleLocks(r) = {}
  BY <1>2, <1>3
<1>. QED
  BY <1>5, <1>6, <1>8, <1>9, <1>10, <1>11 DEF Waits

\* Some run in flight does not wait.
SomebodyWorks == InFlight # {} => \E p \in InFlight : ~Waits(p)

(* However many provisioning runs wait for rows that others have inserted  *)
(* or deleted, somebody in flight waits for nobody: these waits never      *)
(* close a circle.  (The row locks that a COMMIT takes while it waits are  *)
(* not among them: see RunFails.)                                          *)
THEOREM RowWaitsEnd == Spec => []SomebodyWorks
<1>1. Init => EmptyInv
  BY DEF Init, EmptyInv, Emptied, Idle
<1>2. ProvInv /\ EmptyInv => SomebodyWorks
  BY WaitsEnd DEF SomebodyWorks, InFlight
<1>3. ProvInv /\ [Next]_provVars => ProvInv'
  BY ProvSteps DEF Kept
<1>. QED
  BY <1>1, <1>2, <1>3, EmptySteps, ProvStarts, PTL DEF Spec

-----------------------------------------------------------------------------
(* What a clone has read.                                                  *)
Cloning == {"links", "found"}

Snapshot(r) ==
    /\ run[r].pc \in Cloning => run[r].shape = templates /\ templates = Codes
    /\ run[r].pc = "found" => run[r].copy = holds /\ ~run[r].severed

SnapInv == \A r \in Runs : Snapshot(r)

StandStill ==
    (\E r \in Runs : run[r].pc \in Cloning) => UNCHANGED <<templates, holds>>

\* Where a statement of the run itself leads.
LEMMA LeadsAway ==
    ASSUME RunsTyped, NEW r \in Runs, NEW step \in Steps \ Cloning, NEW S,
           \/ Goto(r, step)
           \/ run' = [run EXCEPT ![r].pc = step]
           \/ run' = [run EXCEPT ![r].pc = step, ![r].org = S]
           \/ run' = [run EXCEPT ![r].pc = step, ![r].user = S]
           \/ run' = [run EXCEPT ![r].pc = step, ![r].first = S]
           \/ run' = [run EXCEPT ![r].pc = step, ![r].gone = S]
    PROVE  run'[r].pc \notin Cloning
<1>1. run[r] \in RunRecords
  BY RunsAreRecords
<1>2. CASE Goto(r, step) \/ run' = [run EXCEPT ![r].pc = step]
  BY <1>1, <1>2 DEF Goto, RunsTyped, RunRecords
<1>3. CASE run' = [run EXCEPT ![r].pc = step, ![r].org = S]
  BY <1>1, <1>3 DEF RunsTyped, RunRecords
<1>4. CASE run' = [run EXCEPT ![r].pc = step, ![r].user = S]
  BY <1>1, <1>4 DEF RunsTyped, RunRecords
<1>5. CASE run' = [run EXCEPT ![r].pc = step, ![r].first = S]
  BY <1>1, <1>5 DEF RunsTyped, RunRecords
<1>6. CASE run' = [run EXCEPT ![r].pc = step, ![r].gone = S]
  BY <1>1, <1>6 DEF RunsTyped, RunRecords
<1>. QED
  BY <1>2, <1>3, <1>4, <1>5, <1>6, Zenon

LEMMA EndsIdle ==
    ASSUME RunsTyped, NEW r \in Runs, NEW a, End(r, a)
    PROVE  run'[r].pc = "idle"
BY DEF End, RunsTyped, Idle

\* Only the two SELECTs begin to clone, or go on with it.
LEMMA OthersDoNotClone ==
    ASSUME RunsTyped, NEW r \in Runs, Work(r), ~ReadTemplates(r), ~ReadLinks(r)
    PROVE  run'[r].pc \notin Cloning
<1>1. \A step \in Steps \ Cloning : Goto(r, step) => run'[r].pc \notin Cloning
  BY LeadsAway
<1>2. \A a : End(r, a) => run'[r].pc \notin Cloning
  BY EndsIdle DEF Cloning
<1>3. {"user", "default", "role", "seat", "org", "save", "late", "check", "lateseat", "member",
       "wipeuser", "wipedone", "wipesave", "address", "insert", "wiperows", "wipejoins",
       "wiperoles", "wipeorg", "wipemembers", "find"} \subseteq Steps \ Cloning
  BY DEF Steps, Cloning
<1>4. CASE CommitOrg(r) \/ Check(r) \/ InsertMember(r) \/ FindOwnerRole(r) \/ CommitMember(r)
  BY <1>1, <1>2, <1>3, <1>4 DEF CommitOrg, AfterCreate, Check, InsertMember, FindOwnerRole,
     CommitMember, Crash
<1>5. CASE FindMember(r) \/ FindLate(r) \/ CommitLate(r) \/ Address(r)
  BY <1>1, <1>2, <1>3, <1>5 DEF FindMember, FindLate, CommitLate, Address, Crash
<1>16. CASE WipeAssignments(r) \/ WipeRoles(r) \/ WipeOrg(r)
  BY <1>1, <1>2, <1>3, <1>16 DEF WipeAssignments, WipeRoles, WipeOrg, Crash
<1>6. CASE InsertOrg(r)
  <2>1. CASE Crash(r)
    BY <1>2, <2>1 DEF Crash
  <2>2. ASSUME NEW o, run' = [run EXCEPT ![r].pc = "templates", ![r].org = {o}]
        PROVE  run'[r].pc \notin Cloning
    <3>1. "templates" \in Steps \ Cloning
      BY DEF Steps, Cloning
    <3>. QED
      BY <2>2, <3>1, LeadsAway
  <2>. QED
    BY <1>6, <2>1, <2>2 DEF InsertOrg
<1>7. CASE ReadDefault(r)
  <2>1. run' = [run EXCEPT ![r].pc = "insert", ![r].first = (DefaultOf(r) = {})]
    BY <1>7 DEF ReadDefault
  <2>. QED
    BY <1>3, <2>1, LeadsAway
<1>8. CASE FindOrg(r)
  <2>1. Goto(r, "org") \/ run' = [run EXCEPT ![r].pc = "user", ![r].org = BySlug(r)]
    BY <1>8 DEF FindOrg
  <2>. QED
    BY <1>1, <1>3, <2>1, LeadsAway
<1>9. CASE FindUser(r)
  <2>1. Goto(r, "save") \/ run' = [run EXCEPT ![r].pc = "address", ![r].user = ByMail(r)]
    BY <1>9 DEF FindUser
  <2>. QED
    BY <1>1, <1>3, <2>1, LeadsAway
<1>10. CASE SaveUser(r)
  <2>1. Crash(r) \/ \E u \in Users : run' = [run EXCEPT ![r].pc = "address", ![r].user = {u}]
    BY <1>10 DEF SaveUser, FreshUsers
  <2>. QED
    BY <1>2, <1>3, <2>1, LeadsAway DEF Crash
<1>11. CASE WipeFind(r)
  <2>1. Goto(r, "wipeuser") \/ run' = [run EXCEPT ![r].pc = "wiperows", ![r].org = BySlug(r)]
    BY <1>11 DEF WipeFind
  <2>. QED
    BY <1>1, <1>3, <2>1, LeadsAway
<1>12. CASE WipeMemberships(r)
  <2>1. Crash(r) \/ \E S : run' = [run EXCEPT ![r].pc = "wiperoles", ![r].gone = S]
    BY <1>12 DEF WipeMemberships
  <2>. QED
    BY <1>2, <1>3, <2>1, LeadsAway DEF Crash
<1>13. CASE WipeUser(r)
  <2>1. \/ run' = [run EXCEPT ![r].pc = "find"]
        \/ run' = [run EXCEPT ![r].pc = "wipemembers", ![r].user = ByMail(r)]
    BY <1>13 DEF WipeUser
  <2>. QED
    BY <1>3, <2>1, LeadsAway
<1>14. CASE WipeMembers(r)
  <2>1. Goto(r, "wipesave") \/ run' = [run EXCEPT ![r].pc = "find", ![r].user = {}]
    BY <1>14 DEF WipeMembers
  <2>. QED
    BY <1>1, <1>3, <2>1, LeadsAway
<1>15. CASE WipeCommit(r) \/ DeleteUser(r)
  <2>1. ASSUME NEW step \in Steps \ Cloning, Wiped(r, step) PROVE run'[r].pc \notin Cloning
    BY <2>1, WipedMoves
  <2>. QED
    BY <1>2, <1>3, <1>15, <2>1 DEF WipeCommit, DeleteUser, Crash
<1>. QED
  BY <1>4, <1>5, <1>6, <1>7, <1>8, <1>9, <1>10, <1>11, <1>12, <1>13, <1>14, <1>15, <1>16,
     Zenon
  DEF Work

LEMMA BystanderKeepsCopy ==
    ASSUME RunsTyped, NEW p \in Runs, Bystander(p), Snapshot(p), StandStill,
           run[p].pc = "found" => ~run'[p].severed
    PROVE  Snapshot(p)'
<1>1. run[p] \in RunRecords
  BY RunsAreRecords
<1>2. run'[p].pc = run[p].pc /\ run'[p].shape = run[p].shape /\ run'[p].copy = run[p].copy
  BY <1>1 DEF Bystander, RunRecords
<1>. QED
  BY <1>2 DEF Snapshot, StandStill, Cloning

\* What is held, staff cannot delete.
LEMMA HeldIsSafe ==
    ASSUME SeedTypeOK, SeedOrStaff, NEW q \in holds, UNCHANGED holds
    PROVE  q[2] \in catalog'
<1>1. q[2] \in catalog /\ q = <<q[1], q[2]>> /\ q[1] \in templates
  BY DEF SeedTypeOK
<1>2. CASE Seed
  BY <1>1, <1>2 DEF Seed
<1>3. CASE EditTemplate \/ DeleteTemplate
  BY <1>1, <1>3 DEF EditTemplate, DeleteTemplate
<1>4. CASE EditCatalog(InUse)
  BY <1>1, <1>4 DEF EditCatalog
<1>. QED
  BY <1>2, <1>3, <1>4 DEF SeedOrStaff, Staff

\* Only staff at the templates severs a copy.
LEMMA StillWhole ==
    ASSUME RunsTyped, NEW p \in Runs, NEW lost, NotAlone(lost), ~run[p].severed,
           \A q \in run[p].copy : q[2] \notin lost
    PROVE  ~run'[p].severed
<1>1. run[p] \in RunRecords
  BY RunsAreRecords
<1>2. CASE p \notin InFlight
  BY <1>2, NotAloneSees
<1>3. CASE p \in InFlight
  <2>1. PICK b \in BOOLEAN : ~b /\ run'[p] = [run[p] EXCEPT !.alone = FALSE, !.severed = b]
    BY <1>3, NotAloneSees DEF Overtaken
  <2>. QED
    BY <1>1, <2>1 DEF RunRecords
<1>. QED
  BY <1>2, <1>3

LEMMA SelectsSnapshot ==
    ASSUME ProvInv, NEW r \in Runs, Snapshot(r), ReadTemplates(r) \/ ReadLinks(r)
    PROVE  Snapshot(r)'
<1>1. run[r] \in RunRecords
  BY RunsAreRecords DEF ProvInv
<1>2. UNCHANGED <<templates, holds>>
  BY DEF ReadTemplates, ReadLinks, seedVars
<1>3. CASE ReadTemplates(r)
  <2>1. CASE Crash(r)
    BY <2>1, EndsIdle DEF Crash, ProvInv, Snapshot, Cloning
  <2>2. CASE AllTemplates /\ run' = [run EXCEPT ![r].pc = "links", ![r].shape = templates]
    <3>1. run'[r].pc = "links" /\ run'[r].shape = templates
      BY <1>1, <2>2 DEF ProvInv, RunsTyped, RunRecords
    <3>. QED
      BY <1>2, <2>2, <3>1 DEF Snapshot, Cloning, AllTemplates
  <2>. QED
    BY <1>3, <2>1, <2>2 DEF ReadTemplates
<1>4. CASE ReadLinks(r)
  <2>. DEFINE C == {p \in holds : p[1] \in run[r].shape}
  <2>1. /\ run' = [run EXCEPT ![r].pc = "found", ![r].copy = C, ![r].severed = FALSE]
        /\ run[r].pc = "links"
    BY <1>4 DEF ReadLinks
  <2>2. /\ run'[r].pc = "found" /\ run'[r].copy = C /\ run'[r].shape = run[r].shape
        /\ ~run'[r].severed
    <3>. HIDE DEF C
    <3>. QED
      BY <1>1, <2>1 DEF ProvInv, RunsTyped, RunRecords
  <2>3. run[r].shape = templates /\ templates = Codes
    BY <2>1 DEF Snapshot, Cloning
  <2>4. C = holds
    BY <2>3 DEF ProvInv, TablesTyped, SeedTypeOK
  <2>. QED
    BY <1>2, <2>2, <2>3, <2>4 DEF Snapshot
<1>. QED
  BY <1>3, <1>4

LEMMA BeginsElsewhere ==
    ASSUME RunsTyped, NEW r \in Runs, Call(r)
    PROVE  /\ run'[r].pc \notin Cloning
           /\ \A p \in Runs \ {r} : Bystander(p) /\ run'[p].severed = run[p].severed
<1>1. ASSUME NEW x, x \in RunRecords /\ x.pc \notin Cloning, Begin(r, x)
      PROVE  run'[r].pc \notin Cloning
  BY <1>1, BeginMoves
<1>2. ASSUME NEW s \in Slugs, CallCreate(r, s) PROVE run'[r].pc \notin Cloning
  <2>. DEFINE x == [Idle EXCEPT !.pc = "org", !.job = "create", !.slug = {s}]
  <2>1. x \in RunRecords /\ x.pc \notin Cloning
    BY DEF Idle, RunRecords, Steps, Jobs, Answers, Cloning
  <2>. HIDE DEF x
  <2>. QED
    BY <1>1, <1>2, <2>1 DEF CallCreate, x
<1>3. ASSUME NEW u \in People, NEW o \in OrgRows, CallAssign(r, u, o)
      PROVE  run'[r].pc \notin Cloning
  <2>. DEFINE x == [Idle EXCEPT !.pc = "check", !.job = "assign", !.org = {o}, !.user = {u}]
  <2>1. x \in RunRecords /\ x.pc \notin Cloning
    BY DEF Idle, RunRecords, Steps, Jobs, Answers, People, OrgRows, Cloning
  <2>. HIDE DEF x
  <2>. QED
    BY <1>1, <1>3, <2>1 DEF CallAssign, x
<1>4. ASSUME NEW s \in Slugs, NEW e \in Emails, NEW reset \in BOOLEAN, CallCommand(r, s, e, reset)
      PROVE  run'[r].pc \notin Cloning
  <2>. DEFINE x == [Idle EXCEPT !.pc = IF reset THEN "wipe" ELSE "find", !.job = "command",
                                !.slug = {s}, !.mail = {e}, !.reset = reset]
              y == [Idle EXCEPT !.answer = "refused"]
  <2>1. x \in RunRecords /\ x.pc \notin Cloning /\ y \in RunRecords /\ y.pc \notin Cloning
    BY DEF Idle, RunRecords, Steps, Jobs, Answers, Cloning
  <2>2. Begin(r, x) \/ Begin(r, y)
    BY <1>4 DEF CallCommand
  <2>. HIDE DEF x, y
  <2>. QED
    BY <1>1, <2>1, <2>2
<1>5. \E x : Begin(r, x)
  BY DEF Call, CallCreate, CallAssign, CallCommand
<1>6. ASSUME NEW p \in Runs \ {r} PROVE Bystander(p) /\ run'[p].severed = run[p].severed
  <2>1. run'[p] = run[p] \/ run'[p] = [run[p] EXCEPT !.alone = FALSE]
    BY <1>5 DEF Begin
  <2>2. run[p] \in RunRecords
    BY RunsAreRecords
  <2>. QED
    BY <2>1, <2>2 DEF Bystander, RunRecords
<1>. QED
  BY <1>2, <1>3, <1>4, <1>6 DEF Call

LEMMA SnapSteps == ProvInv /\ SnapInv /\ StandStill /\ [Next]_provVars => SnapInv'
<1>. SUFFICES ASSUME ProvInv, SnapInv, StandStill, [Next]_provVars, NEW p \in Runs
              PROVE  Snapshot(p)'
  BY DEF SnapInv
<1>1. Snapshot(p) /\ RunsTyped
  BY DEF SnapInv, ProvInv
<1>2. ASSUME NEW r \in Runs, Work(r) PROVE Snapshot(p)'
  <2>1. CASE p # r
    BY <1>1, <1>2, <2>1, WorkSpares, BystanderKeepsCopy DEF Spares, Snapshot
  <2>2. CASE p = r /\ (ReadTemplates(r) \/ ReadLinks(r))
    BY <1>1, <2>2, SelectsSnapshot
  <2>3. CASE p = r /\ ~ReadTemplates(r) /\ ~ReadLinks(r)
    BY <1>1, <1>2, <2>3, OthersDoNotClone DEF Snapshot, Cloning
  <2>. QED
    BY <2>1, <2>2, <2>3
<1>3. ASSUME NEW r \in Runs, Call(r) PROVE Snapshot(p)'
  BY <1>1, <1>3, BeginsElsewhere, BystanderKeepsCopy DEF Snapshot, Cloning
<1>4. ASSUME NEW r \in Runs, RunFails(r) PROVE Snapshot(p)'
  <2>1. CASE p = r
    BY <1>1, <1>4, <2>1, EndsIdle DEF RunFails, Snapshot, Cloning
  <2>2. CASE p # r
    <3>1. run'[p] = run[p]
      BY <1>1, <1>4, <2>2 DEF RunFails, End, RunsTyped
    <3>. QED
      BY <1>1, <3>1, BystanderKeepsCopy DEF Snapshot, Bystander
  <2>. QED
    BY <2>1, <2>2
<1>5. ASSUME NEW lost, NotAlone(lost), \A q \in holds : holds' = holds => q[2] \notin lost
      PROVE  Snapshot(p)'
  <2>1. Bystander(p)
    BY <1>1, <1>5, NotAloneSees DEF Overtaken, Bystander
  <2>2. ASSUME run[p].pc = "found" PROVE ~run'[p].severed
    <3>1. holds' = holds /\ run[p].copy = holds /\ ~run[p].severed
      BY <1>1, <2>2 DEF Snapshot, StandStill, Cloning
    <3>. QED
      BY <1>1, <1>5, <3>1, StillWhole
  <2>. QED
    BY <1>1, <2>1, <2>2, BystanderKeepsCopy
<1>7. CASE SeedOrStaff
  BY <1>5, <1>7, HeldIsSafe DEF SeedOrStaff, ProvInv, TablesTyped
<1>8. CASE (\E o \in Orgs : Keep(o)) \/ (\E u \in Users : Cite(u))
           \/ \E u \in Users, o \in Orgs : AddMember(u, o)
  BY <1>5, <1>8 DEF Keep, Cite, AddMember
<1>6. CASE UNCHANGED provVars
  BY <1>1, <1>6, BystanderKeepsCopy DEF provVars, Bystander, Snapshot
<1>. QED
  BY <1>2, <1>3, <1>4, <1>6, <1>7, <1>8 DEF Next

\* The seed's own invariant, among everything else that happens.
LEMMA SeedAmongRuns == ProvInv /\ SeedConverges /\ [Next]_provVars => SeedConverges'
<1>. SUFFICES ASSUME ProvInv, SeedConverges, [Next]_provVars PROVE SeedConverges'
  OBVIOUS
<1>1. CASE SeedOrStaff
  BY <1>1, SeededHolds, StaffTyped DEF SeedOrStaff, ProvInv, TablesTyped, SeedConverges
<1>2. CASE UNCHANGED seedVars
  BY <1>2 DEF seedVars, SeedConverges, Held
<1>3. ASSUME NEW r \in Runs, Call(r) \/ Work(r) \/ RunFails(r) PROVE UNCHANGED seedVars
  BY <1>3 DEF Call, CallCreate, CallAssign, CallCommand, RunFails, Work, InsertOrg, ReadTemplates,
     ReadLinks, CommitOrg, Check, ReadDefault, InsertMember, FindOwnerRole, CommitMember, FindOrg,
     FindUser, SaveUser, Address, FindMember, FindLate, CommitLate, WipeFind, WipeAssignments, WipeMemberships, WipeRoles, WipeOrg,
     WipeCommit, WipeUser, WipeMembers, DeleteUser
<1>. QED
  BY <1>1, <1>2, <1>3 DEF Next, Keep, Cite, AddMember, provVars

LEMMA CommitClones ==
    ASSUME ProvInv, SnapInv, SeedConverges, NEW r \in Runs, CommitOrg(r), NEW o \in run[r].org
    PROVE  /\ roles'[o] = Codes
           /\ grants'[o] = holds
           /\ edits = 0 => \A c \in Codes : {k \in Caps : <<c, k>> \in grants'[o]} = Defaults[c]
<1>1. run[r].pc = "found" /\ run[r].org \subseteq Orgs
  BY RunsAreRecords, FieldsTyped DEF CommitOrg, ProvInv
<1>2. run[r].shape = Codes /\ run[r].copy = holds /\ templates = Codes /\ ~run[r].severed
  BY <1>1 DEF SnapInv, Snapshot, Cloning
<1>3. roles'[o] = Codes /\ grants'[o] = holds
  BY <1>1, <1>2 DEF CommitOrg
<1>4. Codes # {}
  BY OwnerAssumption
<1>5. ASSUME edits = 0, NEW c \in Codes PROVE {k \in Caps : <<c, k>> \in holds} = Defaults[c]
  BY <1>2, <1>4, <1>5 DEF SeedConverges, Held
<1>. QED
  BY <1>3, <1>5

(* _clone_default_role_templates: unless a template or one of its grants   *)
(* is written between its SELECTs and the COMMIT, a new organization has   *)
(* the eleven roles as they were, however many runs interleave; and the    *)
(* documented ones if nobody edited the templates since the seed.          *)
THEOREM ClonesAreFaithful == Spec /\ TemplatesStandStill => ClonesMatch
<1>. DEFINE A == \A r \in Runs : CommitOrg(r) => \A o \in run[r].org :
                   /\ roles'[o] = Codes
                   /\ grants'[o] = holds
                   /\ edits = 0 =>
                        \A c \in Codes : {k \in Caps : <<c, k>> \in grants'[o]} = Defaults[c]
<1>1. Init => SnapInv /\ SeedConverges
  BY DEF Init, SnapInv, Snapshot, Cloning, Idle, RoleSeedInit, SeedConverges
<1>2. ProvInv /\ SnapInv /\ SeedConverges => A
  BY CommitClones
<1>3. ProvInv /\ [Next]_provVars => ProvInv'
  BY ProvSteps DEF Kept
<1>4. [StandStill]_provVars => StandStill
  BY DEF StandStill, provVars, seedVars
<1>. HIDE DEF A
<1>5. Spec /\ [][StandStill]_provVars => [][A]_provVars
  BY <1>1, <1>2, <1>3, <1>4, SnapSteps, SeedAmongRuns, ProvStarts, PTL DEF Spec
<1>6. TemplatesStandStill <=> [][StandStill]_provVars
  BY DEF TemplatesStandStill, StandStill, Cloning
<1>7. [][A]_provVars => ClonesMatch
  BY DEF A, ClonesMatch
<1>. QED
  BY <1>5, <1>6, <1>7

-----------------------------------------------------------------------------
(* What tenants hold, and a clone will, is in the catalog: a tenant's row  *)
(* PROTECTs its capability, and a copy that lost one is refused at COMMIT. *)
Linked(r) == run[r].pc = "found" /\ ~run[r].severed => run[r].copy \subseteq Codes \X catalog

LinkInv == GrantsStand /\ \A r \in Runs : Linked(r)

LEMMA StaffKeeps ==
    ASSUME SeedTypeOK, GrantsStand, roles \in [Orgs -> SUBSET Codes], SeedOrStaff
    PROVE  GrantsStand'
<1>1. UNCHANGED <<roles, grants>>
  BY DEF SeedOrStaff, orgVars
<1>2. ASSUME NEW o \in Orgs, NEW c, NEW k, <<c, k>> \in grants[o] PROVE k \in catalog'
  <2>1. c \in Codes /\ k \in catalog /\ k \in Caps
    BY <1>2 DEF GrantsStand, SeedTypeOK
  <2>2. k \in InUse
    BY <1>2, <2>1 DEF InUse
  <2>3. CASE Seed
    BY <2>1, <2>3 DEF Seed
  <2>4. CASE EditTemplate \/ DeleteTemplate
    BY <2>1, <2>4 DEF EditTemplate, DeleteTemplate
  <2>5. CASE EditCatalog(InUse)
    BY <2>1, <2>2, <2>5 DEF EditCatalog
  <2>. QED
    BY <2>3, <2>4, <2>5 DEF SeedOrStaff, Staff
<1>. QED
  BY <1>1, <1>2 DEF GrantsStand

LEMMA TablesStayLinked ==
    ASSUME ProvInv, LinkInv, [Next]_provVars, ~SeedOrStaff
    PROVE  GrantsStand' /\ catalog' = catalog
<1>1. UNCHANGED seedVars
  <2>1. ASSUME NEW r \in Runs, Call(r) \/ Work(r) \/ RunFails(r) PROVE UNCHANGED seedVars
    BY <2>1 DEF Call, CallCreate, CallAssign, CallCommand, RunFails, Work, InsertOrg, ReadTemplates,
       ReadLinks, CommitOrg, Check, ReadDefault, InsertMember, FindOwnerRole, CommitMember, FindOrg,
       FindUser, SaveUser, Address, FindMember, FindLate, CommitLate, WipeFind, WipeAssignments,
       WipeMemberships, WipeRoles, WipeOrg, WipeCommit, WipeUser, WipeMembers, DeleteUser
  <2>. QED
    BY <2>1 DEF Next, Keep, Cite, AddMember, provVars
<1>2. catalog' = catalog
  BY <1>1 DEF seedVars
<1>3. CASE UNCHANGED <<roles, grants>>
  BY <1>2, <1>3 DEF LinkInv, GrantsStand
<1>4. ASSUME NEW r \in Runs, CommitOrg(r) PROVE GrantsStand'
  <2>1. RunShape(r) /\ Linked(r) /\ run[r].pc = "found"
    BY <1>4, ShapeOf DEF LinkInv, CommitOrg
  <2>2. CASE run[r].severed
    BY <1>3, <1>4, <2>2 DEF CommitOrg
  <2>3. CASE ~run[r].severed
    <3>1. run[r].shape = Codes /\ run[r].copy \subseteq Codes \X catalog
      BY <2>1, <2>3 DEF RunShape, Linked
    <3>2. \A o \in Orgs : \/ roles'[o] = Codes /\ grants'[o] \subseteq Codes \X catalog
                          \/ roles'[o] = roles[o] /\ grants'[o] = grants[o]
      BY <1>4, <2>3, <3>1 DEF CommitOrg
    <3>. QED
      BY <1>2, <3>2 DEF LinkInv, GrantsStand
  <2>. QED
    BY <2>2, <2>3
<1>5. ASSUME NEW r \in Runs, WipeCommit(r) PROVE GrantsStand'
  BY <1>2, <1>5 DEF WipeCommit, LinkInv, GrantsStand
<1>6. ASSUME NEW r \in Runs, Work(r), ~CommitOrg(r), ~WipeCommit(r) PROVE UNCHANGED <<roles, grants>>
  BY <1>6 DEF Work, InsertOrg, ReadTemplates, ReadLinks, Check, ReadDefault, InsertMember,
     FindOwnerRole, CommitMember, FindOrg, FindUser, SaveUser, Address, FindMember, FindLate,
     CommitLate, WipeFind, WipeAssignments, WipeMemberships, WipeRoles, WipeOrg, WipeUser,
     WipeMembers, DeleteUser, orgVars
<1>7. ASSUME NEW r \in Runs, Call(r) \/ RunFails(r) PROVE UNCHANGED <<roles, grants>>
  BY <1>7 DEF Call, CallCreate, CallAssign, CallCommand, RunFails, orgVars
<1>8. CASE UNCHANGED provVars
  BY <1>3, <1>8 DEF provVars, orgVars
<1>. QED
  BY <1>2, <1>3, <1>4, <1>5, <1>6, <1>7, <1>8 DEF Next, Keep, Cite, AddMember, orgVars

LEMMA CopyStays ==
    ASSUME ProvInv, LinkInv, NEW p \in Runs, run'[p].pc = run[p].pc, run'[p].copy = run[p].copy,
           run[p].severed => run'[p].severed, catalog' = catalog
    PROVE  Linked(p)'
BY DEF LinkInv, Linked

LEMMA RunsStayLinked ==
    ASSUME ProvInv, LinkInv, NEW r \in Runs, Work(r) \/ Call(r) \/ RunFails(r), NEW p \in Runs,
           catalog' = catalog
    PROVE  Linked(p)'
<1>. USE DEF ProvInv
<1>1. CASE p # r
  <2>1. Bystander(p)
    <3>1. CASE Work(r)
      BY <1>1, <3>1, WorkSpares DEF Spares
    <3>2. CASE Call(r)
      BY <1>1, <3>2, BeginsElsewhere
    <3>3. CASE RunFails(r)
      BY <1>1, <3>3 DEF RunFails, End, RunsTyped, Bystander
    <3>. QED
      BY <3>1, <3>2, <3>3
  <2>. QED
    BY <2>1, BystanderSees, CopyStays DEF Same
<1>2. CASE p = r
  <2>1. CASE ReadLinks(r)
    <3>. DEFINE C == {q \in holds : q[1] \in run[r].shape}
    <3>1. run' = [run EXCEPT ![r].pc = "found", ![r].copy = C, ![r].severed = FALSE]
      BY <2>1 DEF ReadLinks
    <3>2. C \subseteq Codes \X catalog
      BY DEF TablesTyped, SeedTypeOK
    <3>. HIDE DEF C
    <3>3. run[r] \in RunRecords
      BY RunsAreRecords
    <3>4. run'[r].copy = C
      BY <3>1, <3>3 DEF RunsTyped, RunRecords
    <3>. QED
      BY <1>2, <3>2, <3>4 DEF Linked
  <2>2. CASE ReadTemplates(r)
    <3>1. CASE Crash(r)
      BY <1>2, <3>1, EndsIdle DEF Crash, Linked
    <3>2. CASE run' = [run EXCEPT ![r].pc = "links", ![r].shape = templates]
      <4>1. run[r] \in RunRecords
        BY RunsAreRecords
      <4>2. run'[r].pc = "links"
        BY <3>2, <4>1 DEF RunsTyped, RunRecords
      <4>. QED
        BY <1>2, <4>2 DEF Linked
    <3>. QED
      BY <2>2, <3>1, <3>2 DEF ReadTemplates
  <2>3. CASE Work(r) /\ ~ReadLinks(r) /\ ~ReadTemplates(r)
    BY <1>2, <2>3, OthersDoNotClone DEF Cloning, Linked
  <2>4. CASE Call(r)
    BY <1>2, <2>4, BeginsElsewhere DEF Cloning, Linked
  <2>5. CASE RunFails(r)
    BY <1>2, <2>5, EndsIdle DEF RunFails, Linked
  <2>. QED
    BY <2>1, <2>2, <2>3, <2>4, <2>5
<1>. QED
  BY <1>1, <1>2

LEMMA CopiesOvertaken ==
    ASSUME ProvInv, LinkInv, NEW p \in Runs, NotAlone(catalog \ catalog')
    PROVE  Linked(p)'
<1>1. run[p] \in RunRecords /\ Linked(p)
  BY RunsAreRecords DEF ProvInv, LinkInv
<1>2. CASE p \notin InFlight
  <2>1. run'[p].pc = "idle"
    BY <1>2, NotAloneSees DEF ProvInv, InFlight
  <2>. QED
    BY <2>1 DEF Linked
<1>3. CASE p \in InFlight
  <2>1. PICK b \in BOOLEAN :
          /\ b <=> run[p].severed \/ \E q \in run[p].copy : q[2] \in catalog \ catalog'
          /\ run'[p] = [run[p] EXCEPT !.alone = FALSE, !.severed = b]
    BY <1>3, NotAloneSees DEF ProvInv, Overtaken
  <2>2. run'[p].pc = run[p].pc /\ run'[p].copy = run[p].copy /\ run'[p].severed = b
    BY <1>1, <2>1 DEF RunRecords
  <2>3. ASSUME run[p].pc = "found", ~b PROVE run[p].copy \subseteq Codes \X catalog'
    <3>1. run[p].copy \subseteq Codes \X catalog
      BY <1>1, <2>1, <2>3 DEF Linked
    <3>2. \A q \in run[p].copy : q[2] \in catalog'
      BY <2>1, <2>3, <3>1
    <3>. QED
      BY <3>1, <3>2
  <2>. QED
    BY <2>2, <2>3 DEF Linked
<1>. QED
  BY <1>2, <1>3

LEMMA LinkSteps == ProvInv /\ LinkInv /\ [Next]_provVars => LinkInv'
<1>. SUFFICES ASSUME ProvInv, LinkInv, [Next]_provVars PROVE LinkInv'
  OBVIOUS
<1>1. CASE SeedOrStaff
  <2>1. GrantsStand'
    BY <1>1, StaffKeeps DEF ProvInv, TablesTyped, LinkInv
  <2>2. \A p \in Runs : Linked(p)'
    BY <1>1, CopiesOvertaken DEF SeedOrStaff
  <2>. QED
    BY <2>1, <2>2 DEF LinkInv
<1>2. CASE ~SeedOrStaff
  <2>1. GrantsStand' /\ catalog' = catalog
    BY <1>2, TablesStayLinked
  <2>2. ASSUME NEW p \in Runs PROVE Linked(p)'
    <3>1. ASSUME NEW r \in Runs, Work(r) \/ Call(r) \/ RunFails(r) PROVE Linked(p)'
      BY <2>1, <3>1, RunsStayLinked
    <3>2. ASSUME NEW lost, NotAlone(lost), lost = {} PROVE Linked(p)'
      BY <2>1, <3>2, CopiesOvertaken
    <3>3. CASE (\E o \in Orgs : Keep(o)) \/ (\E u \in Users : Cite(u))
               \/ \E u \in Users, o \in Orgs : AddMember(u, o)
      BY <3>2, <3>3 DEF Keep, Cite, AddMember
    <3>4. CASE UNCHANGED provVars
      BY <2>1, <3>4, CopyStays DEF provVars
    <3>. QED
      BY <1>2, <3>1, <3>3, <3>4 DEF Next
  <2>. QED
    BY <2>1, <2>2 DEF LinkInv
<1>. QED
  BY <1>1, <1>2

(* However many calls, commands, resets, edits of staff and crashes        *)
(* interleave, no foreign key of a tenant's rows is left dangling, that of *)
(* a role's capability included.                                           *)
THEOREM ProvisioningStaysTyped == Spec => []ProvTypeOK
<1>1. Init => LinkInv
  BY DEF Init, LinkInv, GrantsStand, Linked, Idle
<1>2. ProvInv /\ LinkInv => ProvTypeOK
  BY TypeSplit DEF ProvInv, LinkInv
<1>3. ProvInv /\ [Next]_provVars => ProvInv'
  BY ProvSteps DEF Kept
<1>. QED
  BY <1>1, <1>2, <1>3, LinkSteps, ProvStarts, PTL DEF Spec

=============================================================================
