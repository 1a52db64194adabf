-------------------------- MODULE WorkbenchViewProofs --------------------------
(***************************************************************************)
(* The pages over the configuration of a project, proved for any number of *)
(* projects, versions, rows, voice sessions and bounded steps.             *)
(*                                                                         *)
(* The argument: versions are only appended, so what a request, a cache    *)
(* entry or a dialog says of one stays true (Onward); the active version   *)
(* of a project is its latest, so an answer that is asked for after a save *)
(* has it, and an older one is dropped or marked by the save (CfgOK); the  *)
(* same for the rows of a list (TablesOK).  A request that is still        *)
(* watched was sent from the page in front, so an answer changes the state *)
(* of no other page (UiOK).  A voice session that waits or is alive has    *)
(* the lock, and no two starts have the same session (VoiceOK).            *)
(***************************************************************************)
EXTENDS WorkbenchView, FlowProofs

USE ConfigAssumption, ProjectAssumption, TourAssumption, TableAssumption,
    PercentsAssumption, VoiceAssumption, ShellAssumption
-----------------------------------------------------------------------------
(* What every step keeps. *)

\* an entry of the query cache with answers from S
Entry(S) == [data : SUBSET S, stale : BOOLEAN, flight : SUBSET S]

Version == [project : Projects, content : Contents, restored : 0 .. MaxVersions]
OfProject(v, p) == v \in VersionIds /\ versions[v].project = p

PlaceOK ==
    /\ tour \in Tours /\ page \in tour.pages /\ activeProject \in Projects
    /\ steps \in 0 .. tour.clicks

\* a project's active version is its latest; a run is started on a version of
\* its project that says what was shown
ServerOK ==
    /\ versions \in Seq(Version) /\ Len(versions) <= MaxVersions
    /\ activeOf \in [Projects -> VersionIds]
    /\ \A p \in Projects : versions[activeOf[p]].project = p
    /\ \A v \in VersionIds : v <= activeOf[versions[v].project]
    /\ dataRows \in [Projects -> Values \cup {0}]
    /\ \A l \in launched : /\ OfProject(l.version, l.project)
                           /\ versions[l.version].content = l.shown

\* a request that is watched was sent from the page in front; a save that worked
\* made a version of what was sent, and what was sent was shown
SavePage(by) == IF by = "adapters" THEN "adapters" ELSE "training"

SaveRequests ==
    [by : {"form", "launch", "adapters", "yaml"}, project : Projects,
     owner : Projects, watched : BOOLEAN, phase : Phases, content : Contents,
     restored : 0 .. MaxVersions, shown : Contents, version : Nat]

SaveOK(s) ==
    /\ s \in SaveRequests /\ s.shown = s.content
    /\ s.phase = "ok" <=> s.version # 0
    /\ s.phase = "ok" => /\ OfProject(s.version, s.project)
                         /\ versions[s.version].content = s.content
    /\ s.watched => page = SavePage(s.by)

LaunchRequests ==
    [project : Projects, version : Nat, shown : Contents, watched : BOOLEAN,
     phase : Phases]

LaunchOK(l) ==
    /\ l \in LaunchRequests /\ l.version \in VersionIds
    /\ versions[l.version].content = l.shown
    /\ l.watched => page = "training"

SplitRatios == [SplitFields -> 0 .. 100 \cup {Unset}]

WriteRequests ==
    [by : {"model", "dataset", "ingest", "accept"}, project : Projects,
     owner : Projects, watched : BOOLEAN, phase : Phases, section : Sections,
     value : Values, row : 0 .. MaxRows, ratios : SplitRatios]

WriteOK(w) ==
    /\ w \in WriteRequests
    /\ w.by = "accept" => w.row \in Rows
    /\ w.watched /\ w.by = "ingest" => page = "datasets"

SavesOK == \A s \in saves : SaveOK(s)
LaunchesOK == \A l \in launches : LaunchOK(l)
WritesOK == \A w \in writes : WriteOK(w)

\* what the cache holds, and what is on its way, is of the project and not older
\* than the last save that was followed, unless it is known to be old
ConfigEntryOK(e, p, f) ==
    /\ e \in Entry(VersionIds)
    /\ \A v \in e.data \cup e.flight : OfProject(v, p)
    /\ \A v \in e.flight : v >= f
    /\ e.stale \/ \A v \in e.data : v >= f

CfgOK ==
    /\ DOMAIN cfg = Projects /\ cfg = [p \in Projects |-> cfg[p]]
    /\ followed \in [Projects -> Nat]
    /\ \A p \in Projects : /\ followed[p] <= activeOf[p]
                            /\ ConfigEntryOK(cfg[p], p, followed[p])

\* the dialog over the text: what it was restored from, and what it may be
Dialogs ==
    [open : BOOLEAN, mode : {"view", "edit"}, initial : Contents, text : Contents,
     rollback : Nat, asking : Int, loads : SUBSET Nat]

DialogOK(y) ==
    /\ y \in Dialogs
    /\ y.rollback # 0 => /\ y.rollback \in VersionIds
                         /\ y.initial = versions[y.rollback].content
    /\ y.asking \in {Nothing, Closing} \cup VersionIds
    /\ y.loads \subseteq VersionIds
    /\ y.open => /\ y.rollback # 0 => OfProject(y.rollback, activeProject)
                 /\ y.asking \in {Nothing, Closing} \/ OfProject(y.asking, activeProject)
                 /\ \A v \in y.loads : OfProject(v, activeProject)

Slices == [training : Values, adapters : Values]

TrainingUis ==
    [slice : SUBSET Slices, touched : BOOLEAN, launch : BOOLEAN, yaml : Dialogs]

TrainingUiOK == ui \in TrainingUis /\ DialogOK(ui.yaml)

AdaptersUis == [local : SUBSET [Owned -> Values]]
AdaptersUiOK == ui \in AdaptersUis

ModelsUiOK ==
    ui \in [register : {"closed", "empty", "typed"}, merging : BOOLEAN,
            mergeRun : 0 .. MaxRows]

DatasetsUiOK == ui \in [dialog : {"none", "add", "validate", "inspect"},
                        draft : Values \cup {0}, preview : {0}]

SuggestionsUis ==
    [run : 0 .. 1, selected : 0 .. MaxRows, chat : BOOLEAN, chatDraft : BOOLEAN,
     rulesOpen : BOOLEAN, rules : SUBSET Values]
SuggestionsUiOK == ui \in SuggestionsUis

FormUiOK ==
    /\ ui \in [form : FormConfig, preset : ADAPTERS_PRESETS \cup {""}]
    /\ ui.preset # "" => /\ TrainedAs(ui.form).method = Promised.method[ui.preset]
                         /\ TrainedAs(ui.form).bits = Promised.bits[ui.preset]

\* an entry has an index below the cursor, and no other one has it
Statuses == {"idle", "connecting", "active", "finalized", "failed"}
Entries == [index : Nat, role : {"user", "assistant"}, interim : BOOLEAN]

VoiceUis ==
    [status : Statuses, transcript : Seq(Entries), cursor : Nat,
     ws : 0 .. MaxVoice, capture : 0 .. MaxVoice, mine : SUBSET Sessions]

VoiceFits(u) ==
    /\ u \in VoiceUis
    /\ \A i \in DOMAIN u.transcript : u.transcript[i].index < u.cursor
    /\ \A i, j \in DOMAIN u.transcript :
        u.transcript[i].index = u.transcript[j].index => i = j

VoiceUiOK == VoiceFits(ui)

\* the toast that is shown has an id of its own, and its timer does not run yet
Themes == {"light", "dark"}

Toasts == [id : Nat, open : BOOLEAN]
PanelHeights == 100 .. 400

ShellUis ==
    [booted : BOOLEAN, sidebar : BOOLEAN, closed : SUBSET NavGroups,
     palette : BOOLEAN, tweaks : BOOLEAN, drawer : BOOLEAN, bottom : BOOLEAN,
     height : PanelHeights, dom : Themes, stored : Themes, theme : Themes,
     toasts : Seq(Toasts), removals : SUBSET Nat, nextId : Nat]

ShellFits(u) ==
    /\ u \in ShellUis /\ Len(u.toasts) <= 1
    /\ \A id \in u.removals : id < u.nextId
    /\ \A i \in DOMAIN u.toasts :
        /\ u.toasts[i].id < u.nextId
        /\ u.toasts[i].open => u.toasts[i].id \notin u.removals

ShellUiOK == ShellFits(ui)

UiOK ==
    /\ page = "training" => TrainingUiOK
    /\ page = "adapters" => AdaptersUiOK
    /\ page = "models" => ModelsUiOK
    /\ page = "datasets" => DatasetsUiOK
    /\ page = "suggestions" => SuggestionsUiOK
    /\ page = "form" => FormUiOK
    /\ page = "voice" => VoiceUiOK
    /\ page = "shell" => ShellUiOK

\* calls: with what the page remembers of a deletion
Calls ==
    [kind : Kinds, row : 0 .. MaxRows, watched : BOOLEAN, phase : Phases] \cup
    [kind : Kinds, row : 0 .. MaxRows, watched : BOOLEAN, phase : Phases,
     wasSelected : BOOLEAN]

\* what is removed is a row of a list
CallOK(c) ==
    /\ c \in Calls
    /\ c.kind = "rules" => c.row \in Values
    /\ c.kind \in DOMAIN RemovesFrom => c.row \in Rows

\* what a page was told is so on the server, and in what is on its way
TablesOK ==
    /\ tables \in [Tabled -> SUBSET Rows]
    /\ lists \in [Tabled -> Entry(SUBSET Rows)]
    /\ \A c \in calls : CallOK(c)
    /\ \A n \in told :
        /\ n \in Tabled \X BOOLEAN \X Rows
        /\ n[3] \in tables[n[1]] <=> n[2]
        /\ \A rows \in lists[n[1]].flight : n[3] \in rows <=> n[2]
        /\ \/ lists[n[1]].stale
           \/ \A rows \in lists[n[1]].data : n[3] \in rows <=> n[2]

ModelOK ==
    modelForm \in Values \cup {0} /\ profile \in [Projects -> Values \cup {0}]

DatasetForms ==
    [id : Values \cup {0}, format : {"default", "custom"}, ratios : SplitRatios]

\* what is asked for is a part of the whole for every split
Splits == [train : Int, val : Int, test : Int, of : Int]

SanitizeRequests ==
    [project : Projects, watched : BOOLEAN, phase : Phases, ratios : Splits,
     format : {"default"}]

SanitizeOK(s) == s \in SanitizeRequests /\ RatiosAccepted(s.ratios)

DatasetsOK ==
    /\ datasetForm \in DatasetForms
    /\ datasetProfile \in [Projects -> Entry(Values \cup {0})]
    /\ \A s \in sanitizes : SanitizeOK(s)

RulesOK == ruleSettings \in Values /\ shownRules \subseteq Values

ServeCalls ==
    [kind : {"start", "stop"}, project : Projects, watched : BOOLEAN, phase : Phases]

ServingOK ==
    /\ serve \in [Projects -> {"none", "alive", "dead"}]
    /\ lockHolder \subseteq Projects
    /\ serveQuery \in [Projects -> Entry(ServingStates)]
    /\ \A c \in serveCalls : c \in ServeCalls

\* a session that waits, or is alive, has the lock; a session is alive once its
\* socket was open, and a start has a session of its own
Starts ==
    [phase : {"creating", "created", "refused", "connecting", "capturing"},
     session : 0 .. MaxVoice, watched : BOOLEAN]

StartOK(a) ==
    /\ a \in Starts /\ (a.watched => page = "voice")
    /\ a.phase \in {"created", "connecting", "capturing"} => a.session # 0
    /\ a.session # 0 => sessions[a.session] # "none"
    /\ a.phase = "created" => sockets[a.session] = "none"

SessionOK(s) ==
    /\ sessions[s] \in Alive \cup {"pending"} => voiceLock = s
    /\ sessions[s] = "none" => sockets[s] = "none"
    /\ sessions[s] \in Alive => sockets[s] \notin {"none", "opening"}

SocketStates == {"none", "opening", "open", "closed", "failed"}

VoiceOK ==
    /\ voiceLock \in 0 .. MaxVoice /\ sessions \in [Sessions -> SessionStates]
    /\ sockets \in [Sessions -> SocketStates]
    /\ \A a \in starts : StartOK(a)
    /\ \A a, b \in starts : a.session = b.session /\ a.session # 0 => a = b
    /\ \A s \in Sessions : SessionOK(s)

CoreOK == ServerOK /\ SavesOK /\ LaunchesOK /\ CfgOK

WorkInv ==
    /\ PlaceOK /\ CoreOK /\ WritesOK /\ UiOK /\ TablesOK /\ ModelOK /\ DatasetsOK
    /\ RulesOK /\ ServingOK /\ VoiceOK

-----------------------------------------------------------------------------
(* The operations of the query cache, on entries with answers from a set. *)

LEMMA EntryEmpty == ASSUME NEW S PROVE EmptyEntry \in Entry(S)
BY DEF EmptyEntry, Entry, NoAnswer

LEMMA EntryAsked ==
    ASSUME NEW S, NEW e \in Entry(S), NEW a \in S
    PROVE  /\ Asked(e, a) \in Entry(S) /\ Asked(e, a).data = e.data
           /\ Asked(e, a).stale = e.stale /\ Asked(e, a).flight = {a}
BY DEF Asked, Entry

LEMMA EntryAnswered ==
    ASSUME NEW S, NEW e \in Entry(S)
    PROVE  /\ Answered(e) \in Entry(S) /\ Answered(e).data = e.flight
           /\ Answered(e).flight = {}
BY DEF Answered, Entry, NoAnswer

LEMMA EntryInvalidated ==
    ASSUME NEW S, NEW e \in Entry(S), NEW shown
    PROVE  /\ Invalidated(e, shown) \in Entry(S)
           /\ Invalidated(e, shown).data = e.data
           /\ Invalidated(e, shown).flight \subseteq e.flight
           /\ e.stale => Invalidated(e, shown).stale
           /\ e.data # NoAnswer => Invalidated(e, shown).stale
           /\ e.data # NoAnswer /\ shown => Invalidated(e, shown).flight = {}
<1>1. CASE e.data = NoAnswer
    BY <1>1 DEF Invalidated
<1>2. CASE e.data # NoAnswer
    <2> DEFINE flight == IF shown THEN NoAnswer ELSE e.flight
    <2>1. Invalidated(e, shown) = [data |-> e.data, stale |-> TRUE, flight |-> flight]
        BY <1>2 DEF Invalidated, Entry
    <2>2. flight \subseteq e.flight /\ (shown => flight = {})
        BY DEF NoAnswer
    <2>3. flight \in SUBSET S
        BY <2>2 DEF Entry
    <2> HIDE DEF flight
    <2> QED BY <2>1, <2>2, <2>3 DEF Entry
<1> QED BY <1>1, <1>2

LEMMA EntryWider ==
    ASSUME NEW S, NEW T, S \subseteq T PROVE Entry(S) \subseteq Entry(T)
BY DEF Entry

\* const { data = default } = useQuery(...)
LEMMA DataOrFits ==
    ASSUME NEW S, NEW e \in Entry(S), NEW d \in S PROVE DataOr(e, d) \in S
<1>1. CASE e.data = NoAnswer
    BY <1>1 DEF DataOr
<1>2. CASE e.data # NoAnswer
    <2>1. PICK answer \in e.data : TRUE
        BY <1>2 DEF NoAnswer
    <2>2. (CHOOSE v \in e.data : TRUE) \in e.data
        BY <2>1
    <2> QED BY <1>2, <2>2 DEF DataOr, Entry
<1> QED BY <1>1, <1>2

-----------------------------------------------------------------------------
(* The versions at the start, and a version more. *)

LEMMA SectionsOf == Values = {1, 2} /\ DefaultConfig \in Contents
BY DEF Values, DefaultConfig, Contents

LEMMA OrderFits ==
    LET order == SetToSeq(Projects)
        n == Cardinality(Projects)
    IN  /\ n \in Nat \ {0} /\ order \in [1 .. n -> Projects]
        /\ \A i, j \in 1 .. n : order[i] = order[j] => i = j
        /\ \A p \in Projects : \E i \in 1 .. n : order[i] = p
<1> DEFINE n == Cardinality(Projects)
<1> DEFINE order == SetToSeq(Projects)
<1>1. n \in Nat /\ n # 0 /\ ExistsBijection(1 .. n, Projects)
    BY FS_CardinalityType, FS_EmptySet DEF ConfigAssumption
<1>2. PICK f \in Bijection(1 .. n, Projects) : TRUE
    BY <1>1 DEF ExistsBijection
<1>3. f \in [1 .. n -> Projects] /\ IsInjective(f)
    BY <1>2 DEF Bijection, Injection, IsInjective
<1>4. order \in [1 .. n -> Projects] /\ IsInjective(order)
    BY <1>3 DEF SetToSeq
<1>5. order \in Injection(1 .. n, Projects)
    BY <1>4 DEF Injection, IsInjective
<1>6. IsFiniteSet(1 .. n) /\ Cardinality(1 .. n) = n
    BY <1>1, FS_Interval
<1>7. order \in Surjection(1 .. n, Projects)
    BY <1>5, <1>6, FS_Injection DEF ConfigAssumption
<1> QED BY <1>1, <1>4, <1>7 DEF Surjection, IsInjective

LEMMA ServerStarts == ASSUME ConfigInit PROVE ServerOK
<1> DEFINE n == Cardinality(Projects)
<1> DEFINE order == SetToSeq(Projects)
<1> DEFINE first == [project |-> order[1], restored |-> 0,
                     content |-> [DefaultConfig EXCEPT !["training"] = 2]]
<1> DEFINE rest == [i \in 1 .. n |-> [project |-> order[i], content |-> DefaultConfig,
                                      restored |-> 0]]
<1>1. /\ n \in Nat \ {0} /\ order \in [1 .. n -> Projects]
      /\ \A i, j \in 1 .. n : order[i] = order[j] => i = j
      /\ \A p \in Projects : \E i \in 1 .. n : order[i] = p
    BY OrderFits
<1>2. n < MaxVersions /\ MaxVersions \in Nat
    BY DEF ConfigAssumption
<1> HIDE DEF n
<1>3. first \in Version
    <2>1. [DefaultConfig EXCEPT !["training"] = 2] \in Contents
        BY SectionsOf DEF Contents
    <2> QED BY <1>1, <1>2, <2>1 DEF Version
<1>4. rest \in Seq(Version) /\ Len(rest) = n
    <2>1. \A i \in 1 .. n : rest[i] \in Version
        BY <1>1, <1>2, SectionsOf DEF Version
    <2> QED BY <1>1, <2>1
<1>5. versions = <<first>> \o rest
    <2>1. DOMAIN order = 1 .. n
        BY <1>1
    <2> QED BY <2>1 DEF ConfigInit
<1>6. activeOf = [p \in Projects |-> 1 + CHOOSE i \in 1 .. n : order[i] = p]
    BY <1>1 DEF ConfigInit
<1> HIDE DEF order
<1>7. \A p \in Projects : \E i \in 1 .. n : activeOf[p] = 1 + i /\ order[i] = p
    <2> TAKE p \in Projects
    <2> DEFINE i == CHOOSE i \in 1 .. n : order[i] = p
    <2>1. i \in 1 .. n /\ order[i] = p
        BY <1>1
    <2>2. activeOf[p] = 1 + i
        BY <1>6
    <2> HIDE DEF i
    <2> QED BY <2>1, <2>2
<1>8. \A i \in 1 .. n : rest[i].project = order[i]
    OBVIOUS
<1> HIDE DEF first, rest
<1>9. /\ versions \in Seq(Version) /\ Len(versions) = n + 1
      /\ \A i \in 1 .. n : versions[i + 1] = rest[i]
    BY <1>1, <1>3, <1>4, <1>5
<1>10. VersionIds = 1 .. n + 1
    BY <1>1, <1>9 DEF VersionIds
<1>11. activeOf \in [Projects -> VersionIds]
    <2>1. \A p \in Projects : activeOf[p] \in 1 .. n + 1
        BY <1>1, <1>7
    <2> QED BY <1>6, <1>10, <2>1
<1>12. \A p \in Projects : versions[activeOf[p]].project = p
    <2> TAKE p \in Projects
    <2>1. PICK i \in 1 .. n : activeOf[p] = 1 + i /\ order[i] = p
        BY <1>7
    <2>2. versions[i + 1] = rest[i] /\ 1 + i = i + 1
        BY <1>9
    <2> QED BY <1>8, <2>1, <2>2
<1>13. \A v \in VersionIds : v <= activeOf[versions[v].project]
    <2> TAKE v \in VersionIds
    <2>1. versions[v].project \in Projects
        <3>1. versions[v] \in Version
            BY <1>9, <1>10
        <3> QED BY <3>1 DEF Version
    <2>2. CASE v = 1
        BY <1>1, <1>10, <1>11, <2>1, <2>2
    <2>3. CASE v # 1
        <3>1. v - 1 \in 1 .. n /\ v - 1 + 1 = v
            BY <1>1, <1>10, <2>3
        <3>2. versions[v].project = order[v - 1]
            BY <1>8, <1>9, <3>1
        <3>3. PICK i \in 1 .. n : /\ activeOf[versions[v].project] = 1 + i
                                 /\ order[i] = versions[v].project
            BY <1>7, <2>1
        <3>4. i = v - 1
            BY <1>1, <3>1, <3>2, <3>3
        <3> QED BY <1>1, <1>10, <3>3, <3>4
    <2> QED BY <2>2, <2>3
<1>14. launched = {} /\ dataRows \in [Projects -> Values \cup {0}]
    BY DEF ConfigInit
<1>15. Len(versions) <= MaxVersions
    BY <1>1, <1>2, <1>9
<1> QED BY <1>9, <1>11, <1>12, <1>13, <1>14, <1>15 DEF ServerOK

\* what is known of a version stays true
Onward ==
    /\ VersionIds \subseteq VersionIds'
    /\ \A v \in VersionIds : versions'[v] = versions[v]
    /\ \A p \in Projects : activeOf'[p] >= activeOf[p]

\* a version more, which is the active one of its project
LEMMA VersionCreated ==
    ASSUME ServerOK, NEW p \in Projects, NEW content \in Contents,
           NEW restored \in 0 .. MaxVersions, CreateVersion(p, content, restored),
           launched' = launched, dataRows' \in [Projects -> Values \cup {0}]
    PROVE  /\ ServerOK' /\ Onward
           /\ Len(versions) + 1 \in VersionIds'
           /\ versions'[Len(versions) + 1].project = p
           /\ versions'[Len(versions) + 1].content = content
           /\ activeOf'[p] = Len(versions) + 1 /\ Len(versions) + 1 \in Nat \ {0}
<1> DEFINE row == [project |-> p, content |-> content, restored |-> restored]
<1> DEFINE n == Len(versions)
<1>1. /\ versions \in Seq(Version) /\ n \in Nat /\ n < MaxVersions
      /\ VersionIds = 1 .. n
    BY DEF ServerOK, CreateVersion, VersionIds
<1>2. row \in Version
    BY DEF Version
<1>3. versions' = Append(versions, row)
    BY DEF CreateVersion
<1> HIDE DEF row
<1>4. /\ versions' \in Seq(Version) /\ Len(versions') = n + 1
      /\ \A v \in 1 .. n : versions'[v] = versions[v]
      /\ versions'[n + 1] = row
    BY <1>1, <1>2, <1>3, AppendProperties
<1>5. VersionIds' = 1 .. n + 1
    BY <1>1, <1>4 DEF VersionIds
<1>6. row.project = p /\ row.content = content
    BY DEF row
<1>7. activeOf' = [activeOf EXCEPT ![p] = n + 1] /\ activeOf \in [Projects -> 1 .. n]
    BY <1>1 DEF CreateVersion, ServerOK
<1>8. /\ activeOf'[p] = n + 1
      /\ \A q \in Projects : q # p => activeOf'[q] = activeOf[q]
      /\ activeOf' \in [Projects -> 1 .. n + 1]
    <2>1. \A q \in Projects : activeOf'[q] \in 1 .. n + 1
        BY <1>1, <1>7
    <2> QED BY <1>1, <1>7, <2>1
<1>9. Onward
    BY <1>1, <1>4, <1>5, <1>7, <1>8 DEF Onward
<1>10. \A q \in Projects : versions'[activeOf'[q]].project = q
    <2> TAKE q \in Projects
    <2>1. CASE q = p
        BY <1>4, <1>6, <1>8, <2>1
    <2>2. CASE q # p
        BY <1>1, <1>4, <1>7, <1>8, <2>2 DEF ServerOK
    <2> QED BY <2>1, <2>2
<1>11. \A v \in VersionIds' : v <= activeOf'[versions'[v].project]
    <2> TAKE v \in VersionIds'
    <2>1. CASE v = n + 1
        BY <1>1, <1>4, <1>6, <1>8, <2>1
    <2>2. CASE v # n + 1
        <3>1. v \in 1 .. n /\ versions'[v] = versions[v]
            BY <1>1, <1>4, <1>5, <2>2
        <3>2. versions[v].project \in Projects /\ v <= activeOf[versions[v].project]
            <4>1. versions[v] \in Version
                BY <1>1, <3>1
            <4> QED BY <1>1, <3>1, <4>1 DEF ServerOK, Version
        <3>3. activeOf'[versions[v].project] >= activeOf[versions[v].project]
            BY <1>9, <3>2 DEF Onward
        <3>4. /\ activeOf[versions[v].project] \in 1 .. n
              /\ activeOf'[versions[v].project] \in 1 .. n + 1
            BY <1>7, <1>8, <3>2
        <3> QED BY <1>1, <3>1, <3>2, <3>3, <3>4
    <2> QED BY <2>1, <2>2
<1>12. \A l \in launched : /\ OfProject(l.version, l.project)'
                           /\ versions'[l.version].content = l.shown
    BY <1>9 DEF ServerOK, OfProject, Onward
<1>13. Len(versions') <= MaxVersions
    BY <1>1, <1>4 DEF ConfigAssumption
<1>14. ServerOK'
    BY <1>4, <1>5, <1>8, <1>10, <1>11, <1>12, <1>13 DEF ServerOK
<1>15. /\ n + 1 \in VersionIds' /\ versions'[n + 1].project = p
       /\ versions'[n + 1].content = content
    BY <1>1, <1>4, <1>5, <1>6
<1> QED BY <1>1, <1>8, <1>9, <1>14, <1>15

-----------------------------------------------------------------------------
(* What a step leaves true of what it leaves alone. *)

LEMMA VersionsStand ==
    ASSUME ServerOK, UNCHANGED <<versions, activeOf>> PROVE Onward
<1>1. \A p \in Projects : activeOf[p] \in Nat
    <2>1. VersionIds \subseteq Nat
        BY DEF ServerOK, VersionIds
    <2> QED BY <2>1 DEF ServerOK
<1> QED BY <1>1 DEF Onward, VersionIds

LEMMA SaveOnward ==
    ASSUME NEW s, SaveOK(s), Onward, page' = page PROVE SaveOK(s)'
BY DEF SaveOK, Onward, OfProject

LEMMA LaunchOnward ==
    ASSUME NEW l, LaunchOK(l), Onward, page' = page PROVE LaunchOK(l)'
BY DEF LaunchOK, Onward

LEMMA EntryOnward ==
    ASSUME NEW e, NEW p, NEW f, ConfigEntryOK(e, p, f), Onward
    PROVE  ConfigEntryOK(e, p, f)'
<1>1. e \in Entry(VersionIds')
    BY EntryWider DEF ConfigEntryOK, Onward
<1>2. \A v \in e.data \cup e.flight : OfProject(v, p)'
    BY DEF ConfigEntryOK, OfProject, Onward
<1> QED BY <1>1, <1>2 DEF ConfigEntryOK

LEMMA DialogOnward ==
    ASSUME NEW y, DialogOK(y), Onward, activeProject' = activeProject
    PROVE  DialogOK(y)'
<1>1. \A v : OfProject(v, activeProject) => OfProject(v, activeProject)'
    BY DEF OfProject, Onward
<1> QED BY <1>1 DEF DialogOK, Onward

LEMMA UiOnward ==
    ASSUME UiOK, Onward, UNCHANGED <<ui, page, activeProject>> PROVE UiOK'
<1>1. TrainingUiOK => TrainingUiOK'
    <2> SUFFICES ASSUME TrainingUiOK PROVE TrainingUiOK'
        OBVIOUS
    <2>1. DialogOK(ui.yaml) /\ ui' = ui
        BY DEF TrainingUiOK
    <2> DEFINE y == ui.yaml
    <2>2. DialogOK(y)'
        BY <2>1, DialogOnward
    <2> QED BY <2>1, <2>2 DEF TrainingUiOK
<1>2. /\ AdaptersUiOK' <=> AdaptersUiOK
      /\ ModelsUiOK' <=> ModelsUiOK
      /\ DatasetsUiOK' <=> DatasetsUiOK
      /\ SuggestionsUiOK' <=> SuggestionsUiOK
      /\ FormUiOK' <=> FormUiOK
      /\ VoiceUiOK' <=> VoiceUiOK
      /\ ShellUiOK' <=> ShellUiOK
    BY DEF AdaptersUiOK, ModelsUiOK, DatasetsUiOK, SuggestionsUiOK, FormUiOK, VoiceUiOK,
           ShellUiOK
<1> QED BY <1>1, <1>2 DEF UiOK

\* a version more, with the page and the cache as they are
LEMMA CfgOnward ==
    ASSUME CfgOK, ServerOK, Onward, UNCHANGED <<cfg, followed>>, ServerOK' PROVE CfgOK'
<1>1. \A p \in Projects : ConfigEntryOK(cfg[p], p, followed[p])'
    <2> TAKE p \in Projects
    <2>1. ConfigEntryOK(cfg[p], p, followed[p]) /\ cfg' = cfg /\ followed' = followed
        BY DEF CfgOK
    <2> DEFINE e == cfg[p]
    <2> DEFINE f == followed[p]
    <2>2. ConfigEntryOK(e, p, f)'
        BY <2>1, EntryOnward
    <2> QED BY <2>1, <2>2
<1>2. \A p \in Projects : followed'[p] <= activeOf'[p]
    <2> TAKE p \in Projects
    <2>1. activeOf[p] \in Nat /\ activeOf'[p] \in Nat
        BY DEF ServerOK, VersionIds
    <2> QED BY <2>1 DEF CfgOK, Onward
<1> QED BY <1>1, <1>2 DEF CfgOK

Counted == steps' = steps \/ Step

LEMMA PlaceKept ==
    ASSUME PlaceOK, UNCHANGED <<tour, page, activeProject>>, Counted PROVE PlaceOK'
BY DEF PlaceOK, Counted, Step, TourAssumption

\* a step of one page: the configuration, its requests and the page stay
Stands == UNCHANGED <<versions, activeOf, dataRows, launched, tour, activeProject,
                      page, cfg, saves, launches, followed>>

FrontOK == PlaceOK /\ CoreOK /\ WritesOK /\ UiOK
RestOK == /\ TablesOK /\ ModelOK /\ DatasetsOK /\ RulesOK /\ ServingOK /\ VoiceOK

\* versions are added at most, and the page and the project stay
LEMMA FrontOnward ==
    ASSUME FrontOK, ServerOK', Onward, Counted, UNCHANGED <<tour, page, activeProject>>
    PROVE  /\ PlaceOK'
           /\ \A s : SaveOK(s) => SaveOK(s)'
           /\ \A l : LaunchOK(l) => LaunchOK(l)'
           /\ \A w : WriteOK(w) => WriteOK(w)'
           /\ saves' = saves => SavesOK'
           /\ launches' = launches => LaunchesOK'
           /\ writes' = writes => WritesOK'
           /\ UNCHANGED <<cfg, followed>> => CfgOK'
           /\ ui' = ui => UiOK'
<1>1. PlaceOK'
    BY PlaceKept DEF FrontOK
<1>2. /\ \A s : SaveOK(s) => SaveOK(s)'
      /\ \A l : LaunchOK(l) => LaunchOK(l)'
    BY SaveOnward, LaunchOnward
<1>3. \A w : WriteOK(w) => WriteOK(w)'
    BY DEF WriteOK
<1>4. UNCHANGED <<cfg, followed>> => CfgOK'
    BY CfgOnward DEF FrontOK, CoreOK
<1>5. ui' = ui => UiOK'
    BY UiOnward DEF FrontOK
<1> QED BY <1>1, <1>2, <1>3, <1>4, <1>5
        DEF FrontOK, CoreOK, SavesOK, LaunchesOK, WritesOK

LEMMA StandsKeeps ==
    ASSUME FrontOK, Stands, Counted
    PROVE  /\ PlaceOK' /\ CoreOK' /\ Onward
           /\ \A w : WriteOK(w) => WriteOK(w)'
           /\ writes' = writes => WritesOK'
           /\ ui' = ui => UiOK'
<1>1. ServerOK'
    BY DEF FrontOK, CoreOK, ServerOK, Stands, VersionIds, OfProject
<1>2. Onward
    BY VersionsStand DEF Stands, FrontOK, CoreOK
<1> QED BY <1>1, <1>2, FrontOnward DEF Stands, CoreOK

LEMMA RestKept ==
    ASSUME RestOK
    PROVE  /\ UNCHANGED tableVars => TablesOK'
           /\ UNCHANGED modelVars => ModelOK'
           /\ UNCHANGED datasetVars => DatasetsOK'
           /\ UNCHANGED ruleVars => RulesOK'
           /\ UNCHANGED serveVars => ServingOK'
           /\ UNCHANGED <<page, voiceVars>> => VoiceOK'
<1>1. UNCHANGED tableVars => TablesOK'
    BY DEF RestOK, TablesOK, tableVars
<1>2. UNCHANGED modelVars => ModelOK'
    BY DEF RestOK, ModelOK, modelVars
<1>3. UNCHANGED datasetVars => DatasetsOK'
    BY DEF RestOK, DatasetsOK, datasetVars
<1>4. UNCHANGED ruleVars => RulesOK'
    BY DEF RestOK, RulesOK, ruleVars
<1>5. UNCHANGED serveVars => ServingOK'
    BY DEF RestOK, ServingOK, serveVars
<1>6. UNCHANGED <<page, voiceVars>> => VoiceOK'
    BY DEF RestOK, VoiceOK, StartOK, SessionOK, voiceVars
<1> QED BY <1>1, <1>2, <1>3, <1>4, <1>5, <1>6

\* a step that changes the state of one page
LEMMA OnePage ==
    ASSUME page' = page,
           page = "training" => TrainingUiOK', page = "adapters" => AdaptersUiOK',
           page = "models" => ModelsUiOK', page = "datasets" => DatasetsUiOK',
           page = "suggestions" => SuggestionsUiOK', page = "form" => FormUiOK',
           page = "voice" => VoiceUiOK', page = "shell" => ShellUiOK'
    PROVE  UiOK'
BY DEF UiOK

-----------------------------------------------------------------------------
(* The requests. *)

LEMMA HandleSaveKeeps ==
    ASSUME FrontOK, NEW s \in saves, HandleSave(s) PROVE FrontOK'
<1>1. SaveOK(s) /\ s \in SaveRequests /\ s.phase = "sent" /\ ServerOK
    BY DEF FrontOK, CoreOK, SavesOK, SaveOK, HandleSave
<1>2. Counted /\ UNCHANGED <<tour, page, activeProject, launches, writes, cfg, followed, ui>>
    BY DEF Counted, HandleSave
<1>3. CASE /\ SaveConfig(s.project, s.content, s.restored)
           /\ saves' = Replaced(saves, s,
                [s EXCEPT !.phase = "ok", !.version = Len(versions) + 1])
    <2>0. PICK n : n = Len(versions) + 1
        OBVIOUS
    <2> DEFINE new == [s EXCEPT !.phase = "ok", !.version = n]
    <2>1. /\ ServerOK' /\ Onward /\ n \in VersionIds' /\ n \in Nat \ {0}
          /\ versions'[n].project = s.project /\ versions'[n].content = s.content
        BY <1>1, <1>3, <2>0, VersionCreated DEF SaveConfig, SaveRequests, ServerOK
    <2>2. /\ new \in SaveRequests /\ new.phase = "ok" /\ new.version = n
          /\ new.project = s.project /\ new.content = s.content
          /\ new.shown = s.shown /\ new.watched = s.watched /\ new.by = s.by
        BY <1>1, <2>1 DEF SaveRequests, Phases
    <2>3. SaveOK(new)'
        BY <1>1, <1>2, <2>1, <2>2 DEF SaveOK, OfProject
    <2>4. SavesOK'
        BY <1>2, <1>3, <2>0, <2>1, <2>3, FrontOnward DEF SavesOK, Replaced, FrontOK, CoreOK
    <2> QED BY <1>2, <2>1, <2>4, FrontOnward DEF FrontOK, CoreOK
<1>4. CASE /\ saves' = Replaced(saves, s, [s EXCEPT !.phase = "failed"])
           /\ UNCHANGED configVars
    <2> DEFINE new == [s EXCEPT !.phase = "failed"]
    <2>1. Onward /\ ServerOK'
        BY <1>1, <1>4, VersionsStand DEF configVars, ServerOK, VersionIds, OfProject
    <2>2. /\ new \in SaveRequests /\ new.phase = "failed" /\ new.version = s.version
          /\ new.shown = s.shown /\ new.watched = s.watched /\ new.by = s.by
          /\ new.content = s.content
        BY <1>1 DEF SaveRequests, Phases
    <2>3. SaveOK(new)'
        BY <1>1, <1>2, <2>2 DEF SaveOK
    <2>4. SavesOK'
        BY <1>2, <1>4, <2>1, <2>3, FrontOnward DEF SavesOK, Replaced, FrontOK, CoreOK
    <2> QED BY <1>2, <2>1, <2>4, FrontOnward DEF FrontOK, CoreOK
<1> QED BY <1>3, <1>4 DEF HandleSave

LEMMA SectionWritten ==
    ASSUME ServerOK, NEW p \in Projects, NEW s \in Sections, NEW v \in Values,
           WriteSection(p, s, v)
    PROVE  ServerOK' /\ Onward
<1> DEFINE content == [ActiveContent(p) EXCEPT ![s] = v]
<1>1. ActiveContent(p) \in Contents
    <2>1. activeOf[p] \in 1 .. Len(versions) /\ versions \in Seq(Version)
        BY DEF ServerOK, VersionIds
    <2>2. versions[activeOf[p]] \in Version
        BY <2>1
    <2> QED BY <2>2 DEF Version, ActiveContent
<1>2. content \in Contents
    BY <1>1 DEF Contents
<1>3. CreateVersion(p, content, 0) /\ launched' = launched
    BY DEF WriteSection
<1> HIDE DEF content
<1>4. dataRows' \in [Projects -> Values \cup {0}]
    BY DEF WriteSection, ServerOK
<1>5. 0 \in 0 .. MaxVersions
    BY DEF ConfigAssumption
<1> QED BY <1>2, <1>3, <1>4, <1>5, VersionCreated

LEMMA WriteReplaced ==
    ASSUME NEW w, WriteOK(w), NEW phase \in Phases PROVE WriteOK([w EXCEPT !.phase = phase])
BY DEF WriteOK, WriteRequests

LEMMA HandleWriteKeeps ==
    ASSUME FrontOK, NEW w \in writes, HandleWrite(w) PROVE FrontOK'
<1>1. WriteOK(w) /\ w \in WriteRequests /\ ServerOK
    BY DEF FrontOK, CoreOK, WritesOK, WriteOK
<1>2. Counted /\ UNCHANGED <<tour, page, activeProject, launches, saves, cfg, followed, ui>>
    BY DEF Counted, HandleWrite
<1>3. PICK phase \in {"ok", "failed"} : writes' = Replaced(writes, w, [w EXCEPT !.phase = phase])
    BY DEF HandleWrite
<1>4. ServerOK' /\ Onward
    <2>1. CASE WriteSection(w.project, w.section, w.value)
        BY <1>1, <2>1, SectionWritten DEF WriteRequests
    <2>2. CASE UNCHANGED configVars
        BY <1>1, <2>2, VersionsStand DEF configVars, ServerOK, VersionIds, OfProject
    <2> QED BY <2>1, <2>2 DEF HandleWrite
<1>5. WriteOK([w EXCEPT !.phase = phase])
    BY <1>1, WriteReplaced DEF Phases
<1>6. WritesOK'
    BY <1>2, <1>3, <1>4, <1>5, FrontOnward DEF WritesOK, Replaced, FrontOK
<1> QED BY <1>2, <1>4, <1>6, FrontOnward DEF FrontOK, CoreOK

LEMMA HandleLaunchKeeps ==
    ASSUME FrontOK, NEW l \in launches, HandleLaunch(l) PROVE FrontOK'
<1>1. LaunchOK(l) /\ l \in LaunchRequests /\ ServerOK
    BY DEF FrontOK, CoreOK, LaunchesOK, LaunchOK
<1>2. Counted /\ UNCHANGED <<tour, page, activeProject, writes, saves, cfg, followed, ui>>
    BY DEF Counted, HandleLaunch
<1>3. PICK phase \in {"ok", "failed"} :
        launches' = Replaced(launches, l, [l EXCEPT !.phase = phase])
    BY DEF HandleLaunch
<1>4. UNCHANGED <<versions, activeOf, dataRows>> /\ Onward
    BY <1>1, VersionsStand DEF HandleLaunch, CreateRun, configVars
<1>5. ServerOK'
    <2>1. \A r \in launched' : OfProject(r.version, r.project) /\ versions[r.version].content = r.shown
        <3>1. CASE CreateRun(l.project, l.version, l.shown)
            <4> DEFINE r == [project |-> l.project, version |-> l.version, shown |-> l.shown]
            <4>1. launched' = launched \cup {r} /\ versions[l.version].project = l.project
                BY <3>1 DEF CreateRun
            <4>2. OfProject(r.version, r.project) /\ versions[r.version].content = r.shown
                BY <1>1, <4>1 DEF OfProject, LaunchOK
            <4> QED BY <1>1, <4>1, <4>2 DEF ServerOK
        <3>2. CASE UNCHANGED configVars
            BY <1>1, <3>2 DEF configVars, ServerOK
        <3> QED BY <3>1, <3>2 DEF HandleLaunch
    <2> QED BY <1>1, <1>4, <2>1 DEF ServerOK, VersionIds, OfProject
<1>6. LaunchOK([l EXCEPT !.phase = phase])
    BY <1>1 DEF LaunchOK, LaunchRequests, Phases
<1>7. LaunchesOK'
    BY <1>2, <1>3, <1>4, <1>5, <1>6, FrontOnward DEF LaunchesOK, Replaced, FrontOK, CoreOK
<1> QED BY <1>2, <1>4, <1>5, <1>7, FrontOnward DEF FrontOK, CoreOK

-----------------------------------------------------------------------------
(* What the training and the adapters page make of the configuration. *)

\* every version the cache holds of project p
CachedOK(c, p) == c[p].data \subseteq VersionIds

LEMMA ContentFits ==
    ASSUME ServerOK, NEW v \in VersionIds
    PROVE  versions[v] \in Version /\ versions[v].content \in Contents /\ v \in Nat \ {0}
<1>1. v \in 1 .. Len(versions) /\ versions \in Seq(Version)
    BY DEF ServerOK, VersionIds
<1>2. versions[v] \in Version
    BY <1>1
<1> QED BY <1>1, <1>2 DEF Version

LEMMA ParsedFits ==
    ASSUME ServerOK, NEW p, NEW c, CachedOK(c, p)
    PROVE  /\ ConfigVersion(c, p) \subseteq VersionIds
           /\ ParsedConfig(c, p) \subseteq Contents
<1>1. ConfigVersion(c, p) \subseteq VersionIds
    BY DEF ConfigVersion, CachedOK, NoAnswer
<1> QED BY <1>1, ContentFits DEF ParsedConfig

LEMMA ComposedFits ==
    ASSUME NEW base \in Contents, NEW slice \in Slices
    PROVE  ComposeFullConfig(base, slice) \in Contents
BY DEF ComposeFullConfig, Recased, Contents, Slices, Values

LEMMA PreviewFits ==
    ASSUME ServerOK, NEW p, NEW c, CachedOK(c, p), NEW u, u.slice \subseteq Slices
    PROVE  YamlPreview(u, p, c) \subseteq Contents
BY ParsedFits, ComposedFits DEF YamlPreview

LEMMA SliceFits ==
    ASSUME NEW content \in Contents PROVE SliceFromConfig(content) \in Slices
BY DEF SliceFromConfig, Contents, Slices, Sections

LEMMA TrainingSettles ==
    ASSUME ServerOK, NEW p, NEW c, CachedOK(c, p), NEW u \in TrainingUis, DialogOK(u.yaml)
    PROVE  /\ TrainingSettled(u, p, c) \in TrainingUis
           /\ DialogOK(TrainingSettled(u, p, c).yaml)
           /\ ~u.yaml.open => TrainingSettled(u, p, c).yaml = u.yaml
<1> DEFINE slices == IF u.slice # {} THEN u.slice
                     ELSE {SliceFromConfig(content) : content \in ParsedConfig(c, p)}
<1> DEFINE read == IF u.slice # {} THEN u
                   ELSE [u EXCEPT !.slice =
                           {SliceFromConfig(content) : content \in ParsedConfig(c, p)}]
<1>1. slices \subseteq Slices
    <2>1. \A content \in ParsedConfig(c, p) : SliceFromConfig(content) \in Slices
        BY ParsedFits, SliceFits
    <2> QED BY <2>1 DEF TrainingUis
<1>2. read \in TrainingUis /\ read.yaml = u.yaml /\ read.slice \subseteq Slices
    <2>1. CASE u.slice # {}
        BY <2>1 DEF TrainingUis
    <2>2. CASE u.slice = {}
        <3>1. read = [u EXCEPT !.slice = slices]
            BY <2>2
        <3> HIDE DEF read, slices
        <3> QED BY <1>1, <3>1 DEF TrainingUis
    <2> QED BY <2>1, <2>2
<1> HIDE DEF slices
<1> DEFINE preview == YamlPreview(read, p, c)
<1>3. preview \subseteq Contents
    <2> HIDE DEF read
    <2> QED BY <1>2, PreviewFits
<1>4. CASE u.yaml.open /\ preview # {} /\ preview # YamlPreview(u, activeProject, cfg)
    <2> DEFINE content == CHOOSE y \in preview : TRUE
    <2> DEFINE y == ResetFor(read.yaml, content)
    <2>1. content \in Contents
        <3>1. content \in preview
            BY <1>4
        <3> QED BY <1>3, <3>1
    <2>2. TrainingSettled(u, p, c) = [read EXCEPT !.yaml = y]
        BY <1>4 DEF TrainingSettled
    <2> HIDE DEF content, preview, read
    <2>3. u.yaml \in Dialogs /\ read.yaml = u.yaml /\ DialogOK(u.yaml)
        BY <1>2 DEF TrainingUis
    <2>4. y \in Dialogs /\ DialogOK(y)
        <3>1. y \in Dialogs
            BY <2>1, <2>3 DEF ResetFor, ResetDialog, Dialogs
        <3>2. /\ y.rollback = 0 /\ y.asking = u.yaml.asking /\ y.loads = u.yaml.loads
              /\ y.open
            BY <2>3 DEF ResetFor, ResetDialog
        <3> HIDE DEF y
        <3> QED BY <1>4, <2>3, <3>1, <3>2 DEF DialogOK
    <2> HIDE DEF y
    <2>5. [read EXCEPT !.yaml = y] \in TrainingUis /\ [read EXCEPT !.yaml = y].yaml = y
        BY <1>2, <2>4 DEF TrainingUis
    <2> QED BY <1>4, <2>2, <2>4, <2>5
<1>5. CASE ~(u.yaml.open /\ preview # {} /\ preview # YamlPreview(u, activeProject, cfg))
    <2>1. TrainingSettled(u, p, c) = read
        BY <1>5 DEF TrainingSettled
    <2> QED BY <1>2, <2>1
<1> QED BY <1>4, <1>5

LEMMA LocalsFit ==
    ASSUME ServerOK, NEW p, NEW c, CachedOK(c, p)
    PROVE  LocalsOf(c, p) \subseteq [Owned -> Values]
<1>1. \A v \in ConfigVersion(c, p) : versions[v].content \in Contents
    BY ParsedFits, ContentFits
<1> QED BY <1>1 DEF LocalsOf, LocalOf, Owned, Contents, Sections

LEMMA AdaptersSettles ==
    ASSUME ServerOK, NEW p, NEW c, CachedOK(c, p), NEW u \in AdaptersUis
    PROVE  AdaptersSettled(u, p, c) \in AdaptersUis
<1>1. LocalsOf(c, p) \in SUBSET [Owned -> Values]
    BY LocalsFit
<1> QED BY <1>1 DEF AdaptersSettled, AdaptersUis

-----------------------------------------------------------------------------
(* Answers of saves and launches, and the query of the configuration. *)

LEMMA FollowedKeeps ==
    ASSUME FrontOK, NEW s \in saves, SaveFollowed(s),
           UNCHANGED <<versions, activeOf>>
    PROVE  CfgOK'
<1>1. SaveOK(s) /\ ServerOK /\ CfgOK /\ s.owner \in Projects /\ s.project \in Projects
    BY DEF FrontOK, CoreOK, SavesOK, SaveOK, SaveRequests
<1>2. Onward /\ UNCHANGED VersionIds
    BY <1>1, VersionsStand DEF VersionIds
<1>3. CASE s.phase # "ok"
    <2>1. UNCHANGED <<cfg, followed>>
        BY <1>3 DEF SaveFollowed
    <2> QED BY <1>1, <1>2, <2>1 DEF CfgOK, ConfigEntryOK, OfProject
<1>4. CASE s.phase = "ok"
    <2> DEFINE o == s.owner
    <2> DEFINE new == Invalidated(cfg[o], IsShown(o))
    <2>1. cfg' = [cfg EXCEPT ![o] = new]
        BY <1>1, <1>4 DEF SaveFollowed, InvalidateConfig, ProjectAssumption
    <2>2. cfg[o] \in Entry(VersionIds)
        BY <1>1 DEF CfgOK, ConfigEntryOK
    <2>3. /\ new \in Entry(VersionIds) /\ new.data = cfg[o].data
          /\ new.flight \subseteq cfg[o].flight
          /\ cfg[o].stale => new.stale
          /\ cfg[o].data # NoAnswer => new.stale
          /\ cfg[o].data # NoAnswer /\ IsShown(o) => new.flight = {}
        BY <2>2, EntryInvalidated
    <2>4. s.version \in VersionIds /\ versions[s.version].project = s.project
        BY <1>1, <1>4 DEF SaveOK, OfProject
    <2>5. s.version \in Nat /\ s.version <= activeOf[s.project]
        BY <1>1, <2>4, ContentFits DEF ServerOK
    <2> DEFINE follows == /\ o = s.project /\ IsShown(s.project)
                          /\ cfg[s.project].data # NoAnswer
                          /\ followed[s.project] < s.version
    <2>6. followed' = IF follows THEN [followed EXCEPT ![s.project] = s.version]
                      ELSE followed
        BY <1>4 DEF SaveFollowed
    <2>7. /\ followed' \in [Projects -> Nat]
          /\ \A p \in Projects : followed'[p] <= activeOf[p]
          /\ \A p \in Projects : p # o => followed'[p] = followed[p]
          /\ follows \/ followed'[o] = followed[o]
        BY <1>1, <2>5, <2>6 DEF CfgOK
    <2> HIDE DEF new, follows
    <2>8. DOMAIN cfg' = Projects /\ cfg' = [p \in Projects |-> cfg'[p]]
          /\ cfg'[o] = new /\ \A p \in Projects : p # o => cfg'[p] = cfg[p]
        BY <1>1, <2>1 DEF CfgOK
    <2>9. \A p \in Projects : ConfigEntryOK(cfg'[p], p, followed'[p])
        <3> TAKE p \in Projects
        <3>1. CASE p # o
            BY <1>1, <2>7, <2>8, <3>1 DEF CfgOK
        <3>2. CASE p = o
            <4>1. \A v \in new.data \cup new.flight : OfProject(v, o)
                BY <1>1, <2>3 DEF CfgOK, ConfigEntryOK
            <4>2. \A v \in new.flight : v >= followed'[o]
                <5>1. CASE follows
                    BY <2>3, <5>1 DEF follows
                <5>2. CASE ~follows
                    BY <1>1, <2>3, <2>7, <5>2 DEF CfgOK, ConfigEntryOK
                <5> QED BY <5>1, <5>2
            <4>3. new.stale \/ \A v \in new.data : v >= followed'[o]
                BY <2>3 DEF NoAnswer
            <4> QED BY <2>3, <2>8, <3>2, <4>1, <4>2, <4>3 DEF ConfigEntryOK
        <3> QED BY <3>1, <3>2
    <2>10. \A p \in Projects : ConfigEntryOK(cfg[p], p, followed[p])'
        BY <1>2, <2>9 DEF ConfigEntryOK, OfProject
    <2> QED BY <2>7, <2>8, <2>10 DEF CfgOK
<1> QED BY <1>3, <1>4

LEMMA SaveAnsweredKeeps ==
    ASSUME FrontOK, NEW s \in saves, SaveAnswered(s) PROVE FrontOK'
<1>1. SaveOK(s) /\ s \in SaveRequests /\ ServerOK
    BY DEF FrontOK, CoreOK, SavesOK, SaveOK
<1>2. Counted /\ UNCHANGED <<versions, activeOf, dataRows, launched, tour, page,
                             activeProject, writes, ui>>
    BY DEF Counted, SaveAnswered, configVars
<1>3. ServerOK' /\ Onward
    BY <1>1, <1>2, VersionsStand DEF ServerOK, VersionIds, OfProject
<1>4. CfgOK'
    BY <1>2, FollowedKeeps DEF SaveAnswered
<1>5. LaunchesOK'
    <2>1. CASE s.by = "launch" /\ s.watched /\ s.phase = "ok"
        <3> DEFINE l == LaunchRequest(s.project, s.version, s.shown)
        <3>1. launches' = launches \cup {l}
            BY <2>1 DEF SaveAnswered, LaunchWithConfigVersion
        <3>2. s.version \in VersionIds /\ versions[s.version].content = s.shown
              /\ page = "training"
            BY <1>1, <2>1 DEF SaveOK, OfProject, SavePage
        <3>3. l \in LaunchRequests /\ l.version = s.version /\ l.shown = s.shown
            BY <1>1 DEF LaunchRequest, LaunchRequests, SaveRequests, Phases
        <3> HIDE DEF l
        <3>4. LaunchOK(l)
            BY <3>2, <3>3 DEF LaunchOK
        <3> QED BY <1>2, <1>3, <3>1, <3>4, FrontOnward DEF FrontOK, CoreOK, LaunchesOK
    <2>2. CASE ~(s.by = "launch" /\ s.watched /\ s.phase = "ok")
        <3>1. launches' = launches
            BY <2>2 DEF SaveAnswered
        <3> QED BY <1>2, <1>3, <3>1, FrontOnward
    <2> QED BY <2>1, <2>2
<1>6. SavesOK'
    BY <1>2, <1>3, FrontOnward DEF SaveAnswered, FrontOK, CoreOK, SavesOK
<1> QED BY <1>2, <1>3, <1>4, <1>5, <1>6, FrontOnward DEF FrontOK, CoreOK

\* the configuration on the server stays as it is
LEMMA ServerStands ==
    ASSUME FrontOK, UNCHANGED <<versions, activeOf, dataRows, launched>>
    PROVE  ServerOK' /\ Onward /\ VersionIds' = VersionIds
<1>1. ServerOK /\ VersionIds' = VersionIds
    BY DEF FrontOK, CoreOK, VersionIds
<1>2. ServerOK'
    BY <1>1 DEF ServerOK, OfProject
<1> QED BY <1>1, <1>2, VersionsStand

LEMMA DialogKeeps ==
    ASSUME FrontOK, page = "training", NEW y, DialogOK(y), Become(y), Onward,
           UNCHANGED <<page, activeProject>>
    PROVE  UiOK'
<1>1. ui \in TrainingUis
    BY DEF FrontOK, UiOK, TrainingUiOK
<1>2. ui' \in TrainingUis /\ ui'.yaml = y
    BY <1>1 DEF Become, DialogOK, TrainingUis
<1>3. DialogOK(y)'
    BY DialogOnward
<1>4. TrainingUiOK'
    BY <1>2, <1>3 DEF TrainingUiOK
<1> QED BY <1>4, OnePage

LEMMA TextValidatedKeeps ==
    ASSUME FrontOK, NEW s \in saves, TextValidated(s) PROVE FrontOK'
<1>1. SaveOK(s)
    BY DEF FrontOK, CoreOK, SavesOK
<1>2. /\ UNCHANGED <<tour, page, activeProject, launches, writes, cfg, followed, ui>>
      /\ UNCHANGED <<versions, activeOf, dataRows, launched>> /\ Counted
    BY DEF Counted, TextValidated, Quiet, configVars
<1>3. ServerOK' /\ Onward
    BY <1>2, ServerStands
<1> DEFINE sent == [s EXCEPT !.phase = "sent"]
<1>4. /\ sent \in SaveRequests /\ sent.phase = "sent" /\ sent.version = s.version
      /\ sent.shown = s.shown /\ sent.watched = s.watched /\ sent.by = s.by
      /\ sent.content = s.content /\ s.phase = "validating"
    BY <1>1 DEF SaveOK, SaveRequests, Phases, TextValidated
<1>5. saves' \subseteq saves \cup {sent}
    BY DEF TextValidated, Replaced
<1> HIDE DEF sent
<1>6. SaveOK(sent)
    BY <1>1, <1>4 DEF SaveOK
<1>7. SavesOK'
    BY <1>2, <1>3, <1>5, <1>6, FrontOnward DEF SavesOK, FrontOK, CoreOK
<1> QED BY <1>2, <1>3, <1>7, FrontOnward DEF FrontOK, CoreOK

LEMMA TextSavedKeeps ==
    ASSUME FrontOK, NEW s \in saves, TextSaved(s) PROVE FrontOK'
<1>1. SaveOK(s) /\ TextSaved(s)
    BY DEF FrontOK, CoreOK, SavesOK
<1>2. /\ UNCHANGED <<tour, page, activeProject, launches, writes>>
      /\ UNCHANGED <<versions, activeOf, dataRows, launched>> /\ Counted
    BY DEF Counted, TextSaved, configVars
<1>3. ServerOK' /\ Onward
    BY <1>2, ServerStands
<1>4. CfgOK'
    BY <1>2, FollowedKeeps DEF TextSaved
<1>5. UiOK'
    <2>1. CASE s.watched /\ s.phase = "ok"
        <3> DEFINE y == [yaml EXCEPT !.mode = "view", !.rollback = 0]
        <3>1. page = "training"
            BY <1>1, <2>1 DEF SaveOK, TextSaved, SavePage
        <3>2. DialogOK(ui.yaml) /\ ui.yaml \in Dialogs
            BY <3>1 DEF FrontOK, UiOK, TrainingUiOK, DialogOK
        <3>3. DialogOK(y)
            BY <3>2 DEF DialogOK, Dialogs, yaml
        <3>4. Become(y)
            BY <2>1 DEF TextSaved
        <3> QED BY <1>2, <1>3, <3>1, <3>3, <3>4, DialogKeeps
    <2>2. CASE ~(s.watched /\ s.phase = "ok")
        <3>1. ui' = ui
            BY <2>2 DEF TextSaved
        <3> QED BY <1>2, <1>3, <3>1, FrontOnward
    <2> QED BY <2>1, <2>2
<1>6. SavesOK'
    BY <1>2, <1>3, FrontOnward DEF TextSaved, FrontOK, CoreOK, SavesOK
<1> QED BY <1>2, <1>3, <1>4, <1>5, <1>6, FrontOnward DEF FrontOK, CoreOK

LEMMA LaunchAnsweredKeeps ==
    ASSUME FrontOK, NEW l \in launches, LaunchAnswered(l) PROVE FrontOK'
<1>1. LaunchOK(l)
    BY DEF FrontOK, CoreOK, LaunchesOK
<1>2. /\ UNCHANGED <<tour, page, activeProject, saves, writes, cfg, followed>>
      /\ UNCHANGED <<versions, activeOf, dataRows, launched>> /\ Counted
    BY DEF Counted, LaunchAnswered, configVars
<1>3. ServerOK' /\ Onward
    BY <1>2, ServerStands
<1>4. UiOK'
    <2>1. CASE l.watched /\ l.phase = "ok"
        <3>1. page = "training" /\ ui \in TrainingUis /\ DialogOK(ui.yaml)
            BY <1>1, <2>1 DEF LaunchOK, FrontOK, UiOK, TrainingUiOK
        <3>2. ui' \in TrainingUis /\ ui'.yaml = ui.yaml
            BY <2>1, <3>1 DEF LaunchAnswered, TrainingUis
        <3> PICK y : y = ui.yaml
            OBVIOUS
        <3>3. DialogOK(y)'
            BY <1>2, <1>3, <3>1, DialogOnward
        <3>4. TrainingUiOK'
            BY <3>2, <3>3 DEF TrainingUiOK
        <3> QED BY <1>2, <3>1, <3>4, OnePage
    <2>2. CASE ~(l.watched /\ l.phase = "ok")
        <3>1. ui' = ui
            BY <2>2 DEF LaunchAnswered
        <3> QED BY <1>2, <1>3, <3>1, FrontOnward
    <2> QED BY <2>1, <2>2
<1>5. LaunchesOK'
    BY <1>2, <1>3, FrontOnward DEF LaunchAnswered, FrontOK, CoreOK, LaunchesOK
<1> QED BY <1>2, <1>3, <1>4, <1>5, FrontOnward DEF FrontOK, CoreOK

\* the entry of one project is replaced by one that fits
LEMMA EntryReplaced ==
    ASSUME CfgOK, NEW p \in Projects, NEW e, ConfigEntryOK(e, p, followed[p]),
           cfg' = [cfg EXCEPT ![p] = e], UNCHANGED <<versions, activeOf, followed>>
    PROVE  CfgOK'
<1>1. /\ DOMAIN cfg' = Projects /\ cfg' = [q \in Projects |-> cfg'[q]]
      /\ cfg'[p] = e /\ \A q \in Projects : q # p => cfg'[q] = cfg[q]
    BY DEF CfgOK
<1>2. \A q \in Projects : ConfigEntryOK(cfg'[q], q, followed[q])
    BY <1>1 DEF CfgOK
<1>3. \A q \in Projects : ConfigEntryOK(cfg[q], q, followed[q])'
    BY <1>2 DEF ConfigEntryOK, OfProject, VersionIds
<1> QED BY <1>1, <1>3 DEF CfgOK

LEMMA FetchConfigKeeps ==
    ASSUME FrontOK, NEW p \in Projects, FetchConfig(p) PROVE FrontOK'
<1>1. CfgOK /\ ServerOK /\ ConfigEntryOK(cfg[p], p, followed[p])
    BY DEF FrontOK, CoreOK, CfgOK
<1>2. /\ UNCHANGED <<tour, page, activeProject, saves, launches, writes, followed, ui>>
      /\ UNCHANGED <<versions, activeOf, dataRows, launched>> /\ Counted
    BY DEF Counted, FetchConfig, configVars, requestVars
<1>3. ServerOK' /\ Onward
    BY <1>2, ServerStands
<1> DEFINE v == activeOf[p]
<1>4. v \in VersionIds /\ OfProject(v, p) /\ followed[p] <= v
    BY <1>1 DEF ServerOK, OfProject, CfgOK
<1> HIDE DEF v
<1>5. /\ Asked(cfg[p], v) \in Entry(VersionIds)
      /\ Asked(cfg[p], v).data = cfg[p].data /\ Asked(cfg[p], v).stale = cfg[p].stale
      /\ Asked(cfg[p], v).flight = {v}
    BY <1>1, <1>4, EntryAsked DEF ConfigEntryOK
<1>6. v >= followed[p]
    <2>1. v \in Nat /\ followed[p] \in Nat
        BY <1>1, <1>4, ContentFits DEF CfgOK
    <2> QED BY <1>4, <2>1
<1>7. ConfigEntryOK(Asked(cfg[p], v), p, followed[p])
    BY <1>1, <1>4, <1>5, <1>6 DEF ConfigEntryOK
<1>8. cfg' = [cfg EXCEPT ![p] = Asked(cfg[p], v)]
    BY DEF FetchConfig, v
<1>9. CfgOK'
    BY <1>1, <1>2, <1>7, <1>8, EntryReplaced
<1> QED BY <1>2, <1>3, <1>9, FrontOnward DEF FrontOK, CoreOK

LEMMA ConfigAnsweredKeeps ==
    ASSUME FrontOK, NEW p \in Projects, ConfigAnswered(p) PROVE FrontOK'
<1>1. CfgOK /\ ServerOK /\ ConfigEntryOK(cfg[p], p, followed[p]) /\ activeProject \in Projects
    BY DEF FrontOK, CoreOK, CfgOK, PlaceOK
<1>2. /\ UNCHANGED <<tour, page, activeProject, saves, launches, writes, followed>>
      /\ UNCHANGED <<versions, activeOf, dataRows, launched>> /\ Counted
    BY DEF Counted, ConfigAnswered, configVars, requestVars
<1>3. ServerOK' /\ Onward /\ VersionIds' = VersionIds
    BY <1>2, ServerStands
<1>4. /\ Answered(cfg[p]) \in Entry(VersionIds)
      /\ Answered(cfg[p]).data = cfg[p].flight /\ Answered(cfg[p]).flight = {}
    BY <1>1, EntryAnswered DEF ConfigEntryOK
<1>5. ConfigEntryOK(Answered(cfg[p]), p, followed[p])
    BY <1>1, <1>4 DEF ConfigEntryOK
<1>6. CfgOK'
    BY <1>1, <1>2, <1>5, EntryReplaced DEF ConfigAnswered
<1>7. UiOK'
    <2>1. CASE p # activeProject
        BY <1>2, <1>3, <2>1, FrontOnward DEF ConfigAnswered
    <2>2. CASE p = activeProject
        <3> PICK c : c = cfg'
            OBVIOUS
        <3>1. CachedOK(c, p)
            <4>1. ConfigEntryOK(cfg[p], p, followed[p])'
                BY <1>6 DEF CfgOK
            <4> QED BY <1>3, <4>1 DEF CachedOK, ConfigEntryOK, Entry
        <3>2. ui' = Settled(ui, page, p, c)
            BY <2>2 DEF ConfigAnswered
        <3>3. CASE page = "training"
            <4> DEFINE u == TrainingSettled(ui, p, c)
            <4>1. ui \in TrainingUis /\ DialogOK(ui.yaml)
                BY <3>3 DEF FrontOK, UiOK, TrainingUiOK
            <4>2. u \in TrainingUis /\ DialogOK(u.yaml)
                BY <1>1, <3>1, <4>1, TrainingSettles
            <4>3. ui' = u
                BY <3>2, <3>3 DEF Settled
            <4> HIDE DEF u
            <4> PICK y : y = u.yaml
                OBVIOUS
            <4>4. DialogOK(y)'
                BY <1>2, <1>3, <4>2, DialogOnward
            <4>5. TrainingUiOK'
                BY <4>2, <4>3, <4>4 DEF TrainingUiOK
            <4> QED BY <1>2, <3>3, <4>5, OnePage
        <3>4. CASE page = "adapters"
            <4>1. ui \in AdaptersUis
                BY <3>4 DEF FrontOK, UiOK, AdaptersUiOK
            <4>2. AdaptersSettled(ui, p, c) \in AdaptersUis
                BY <1>1, <3>1, <4>1, AdaptersSettles
            <4>3. ui' = AdaptersSettled(ui, p, c)
                BY <3>2, <3>4 DEF Settled
            <4>4. AdaptersUiOK'
                BY <4>2, <4>3 DEF AdaptersUiOK
            <4> QED BY <1>2, <3>4, <4>4, OnePage
        <3>5. CASE page \notin {"training", "adapters", "weights"}
            <4>1. ui' = ui
                BY <3>2, <3>5 DEF Settled
            <4> QED BY <1>2, <1>3, <4>1, FrontOnward
        <3>6. CASE page = "weights"
            BY <1>2, <3>6, OnePage
        <3> QED BY <3>3, <3>4, <3>5, <3>6
    <2> QED BY <2>1, <2>2
<1> QED BY <1>2, <1>3, <1>6, <1>7, FrontOnward DEF FrontOK, CoreOK

-----------------------------------------------------------------------------
(* The dialog over the text, the training, adapters and form pages. *)

LEMMA YamlStands ==
    ASSUME Yaml PROVE /\ page = "training" /\ Counted
                      /\ UNCHANGED <<versions, activeOf, dataRows, launched, tour, page,
                                     activeProject, cfg, launches, writes, followed>>
<1>1. ASSUME OnlyDialog
      PROVE  UNCHANGED <<versions, activeOf, dataRows, launched, tour, page,
                         activeProject, cfg, launches, writes, followed>>
    BY <1>1 DEF OnlyDialog, Quiet, configVars
<1>2. CASE EditClick \/ HandleViewClick \/ HandleCloseRequest
    BY <1>1, <1>2 DEF EditClick, HandleViewClick, HandleCloseRequest, InDialog, Counted
<1>3. CASE HandlePendingConfirm \/ KeepEditing
    BY <1>1, <1>3 DEF HandlePendingConfirm, KeepEditing, Counted
<1>4. CASE SaveText
    BY <1>4 DEF SaveText, InDialog, Counted, Quiet, configVars
<1>5. CASE \E s \in Sections : TypeText(s)
    BY <1>1, <1>5 DEF TypeText, InDialog, Counted
<1>6. CASE \E v \in VersionIds : HandleRestoreRequest(v) \/ VersionLoaded(v)
    BY <1>1, <1>6 DEF HandleRestoreRequest, VersionLoaded, InDialog, Counted
<1> QED BY <1>2, <1>3, <1>4, <1>5, <1>6 DEF Yaml

\* what a dialog becomes still fits
LEMMA DialogMoves ==
    ASSUME ServerOK, NEW y, DialogOK(y)
    PROVE  /\ \A mode \in {"view", "edit"} : DialogOK([y EXCEPT !.mode = mode])
           /\ \A text \in Contents : DialogOK([y EXCEPT !.text = text])
           /\ \A v \in VersionIds :
                OfProject(v, activeProject) =>
                    /\ DialogOK([y EXCEPT !.asking = v])
                    /\ DialogOK([y EXCEPT !.loads = @ \cup {v}])
           /\ DialogOK([y EXCEPT !.asking = Closing])
           /\ DialogOK([y EXCEPT !.asking = Nothing])
           /\ DialogOK([y EXCEPT !.rollback = 0])
           /\ DialogOK([y EXCEPT !.open = FALSE])
           /\ \A v : DialogOK([y EXCEPT !.loads = @ \ {v}])
<1>1. y \in Dialogs
    BY DEF DialogOK
<1>2. \A mode \in {"view", "edit"} : DialogOK([y EXCEPT !.mode = mode])
    BY <1>1 DEF DialogOK, Dialogs
<1>3. \A text \in Contents : DialogOK([y EXCEPT !.text = text])
    BY <1>1 DEF DialogOK, Dialogs
<1>4. ASSUME NEW v \in VersionIds, OfProject(v, activeProject)
      PROVE  /\ DialogOK([y EXCEPT !.asking = v])
             /\ DialogOK([y EXCEPT !.loads = @ \cup {v}])
    <2>1. v \in Nat /\ v \in Int
        BY ContentFits
    <2>2. DialogOK([y EXCEPT !.asking = v])
        BY <1>1, <1>4, <2>1 DEF DialogOK, Dialogs
    <2>3. DialogOK([y EXCEPT !.loads = @ \cup {v}])
        BY <1>1, <1>4, <2>1 DEF DialogOK, Dialogs
    <2> QED BY <2>2, <2>3
<1>5. DialogOK([y EXCEPT !.asking = Closing])
    BY <1>1 DEF DialogOK, Dialogs, Closing
<1>6. DialogOK([y EXCEPT !.asking = Nothing])
    BY <1>1 DEF DialogOK, Dialogs, Nothing
<1>7. DialogOK([y EXCEPT !.rollback = 0])
    BY <1>1 DEF DialogOK, Dialogs
<1>8. DialogOK([y EXCEPT !.open = FALSE])
    BY <1>1 DEF DialogOK, Dialogs
<1>9. \A v : DialogOK([y EXCEPT !.loads = @ \ {v}])
    BY <1>1 DEF DialogOK, Dialogs
<1> QED BY <1>2, <1>3, <1>4, <1>5, <1>6, <1>7, <1>8, <1>9

LEMMA YamlBecomes ==
    ASSUME FrontOK, Yaml, ~SaveText
    PROVE  saves' = saves /\ \E y : Become(y) /\ DialogOK(y)
<1>0. page = "training" /\ ServerOK /\ DialogOK(yaml) /\ yaml \in Dialogs
    <2>1. page = "training"
        BY YamlStands
    <2> QED BY <2>1 DEF FrontOK, CoreOK, UiOK, TrainingUiOK, DialogOK, yaml
<1> HIDE DEF yaml
<1>1. saves' = saves
    <2>1. OnlyDialog
        BY DEF Yaml, EditClick, HandleViewClick, HandleCloseRequest, HandlePendingConfirm,
               KeepEditing, TypeText, HandleRestoreRequest, VersionLoaded
    <2> QED BY <2>1 DEF OnlyDialog
<1>2. CASE EditClick
    <2>1. yaml.initial \in Contents
        BY <1>0 DEF Dialogs
    <2> DEFINE y == [yaml EXCEPT !.mode = "edit", !.text = yaml.initial]
    <2>2. DialogOK(y) /\ Become(y)
        BY <1>0, <1>2, <2>1, DialogMoves DEF EditClick
    <2> QED BY <1>1, <2>2
<1>3. ASSUME NEW ask, NEW y, Guarded(ask, y), DialogOK(y), DialogOK([yaml EXCEPT !.asking = ask])
      PROVE  \E z : Become(z) /\ DialogOK(z)
    BY <1>3 DEF Guarded
<1>4. CASE HandleViewClick
    <2> DEFINE y == [yaml EXCEPT !.mode = "view", !.rollback = 0]
    <2>1. DialogOK(y) /\ DialogOK([yaml EXCEPT !.asking = Closing])
        BY <1>0, DialogMoves
    <2>2. Guarded(Closing, y)
        BY <1>4 DEF HandleViewClick
    <2> HIDE DEF y
    <2> QED BY <1>1, <1>3, <2>1, <2>2
<1>5. CASE HandleCloseRequest
    <2> DEFINE y == [yaml EXCEPT !.open = FALSE]
    <2>1. DialogOK(y) /\ DialogOK([yaml EXCEPT !.asking = Closing])
        BY <1>0, DialogMoves
    <2>2. Guarded(Closing, y)
        BY <1>5 DEF HandleCloseRequest
    <2> HIDE DEF y
    <2> QED BY <1>1, <1>3, <2>1, <2>2
<1>6. ASSUME NEW v \in VersionIds, HandleRestoreRequest(v)
      PROVE  \E z : Become(z) /\ DialogOK(z)
    <2> DEFINE y == [yaml EXCEPT !.loads = @ \cup {v}]
    <2>1. OfProject(v, activeProject)
        BY <1>6 DEF HandleRestoreRequest, Restorable, OfProject
    <2>2. DialogOK(y) /\ DialogOK([yaml EXCEPT !.asking = v])
        BY <1>0, <2>1, DialogMoves
    <2>3. Guarded(v, y)
        BY <1>6 DEF HandleRestoreRequest
    <2> HIDE DEF y
    <2> QED BY <1>3, <2>2, <2>3
<1>7. CASE HandlePendingConfirm
    <2>1. CASE yaml.asking = Closing
        <3> DEFINE y == [yaml EXCEPT !.asking = Nothing, !.open = FALSE]
        <3>1. DialogOK(y) /\ Become(y)
            BY <1>0, <1>7, <2>1, DialogMoves DEF HandlePendingConfirm
        <3> QED BY <1>1, <3>1
    <2>2. CASE yaml.asking # Closing
        <3> DEFINE loads == yaml.loads \cup {yaml.asking}
        <3> DEFINE y == [yaml EXCEPT !.asking = Nothing, !.loads = loads]
        <3>1. Become(y)
            BY <1>7, <2>2 DEF HandlePendingConfirm
        <3>2. yaml.asking \in VersionIds /\ (yaml.open => OfProject(yaml.asking, activeProject))
            BY <1>0, <1>7, <2>2 DEF HandlePendingConfirm, DialogOK
        <3>3. yaml.asking \in Nat
            BY <1>0, <3>2, ContentFits
        <3>0. loads \in SUBSET Nat /\ Nothing \in Int
            BY <1>0, <3>3 DEF Dialogs, Nothing
        <3>4. /\ y \in Dialogs /\ y.asking = Nothing /\ y.loads = yaml.loads \cup {yaml.asking}
              /\ y.open = yaml.open /\ y.rollback = yaml.rollback /\ y.initial = yaml.initial
            <4> HIDE DEF loads
            <4>1. y \in Dialogs
                BY <1>0, <3>0 DEF Dialogs
            <4>2. /\ y.asking = Nothing /\ y.loads = loads /\ y.open = yaml.open
                  /\ y.rollback = yaml.rollback /\ y.initial = yaml.initial
                BY <1>0 DEF Dialogs
            <4> QED BY <4>1, <4>2 DEF loads
        <3> HIDE DEF y, loads
        <3>5. DialogOK(y)
            BY <1>0, <3>2, <3>4 DEF DialogOK
        <3> QED BY <1>1, <3>1, <3>5
    <2> QED BY <2>1, <2>2
<1>8. CASE KeepEditing
    BY <1>0, <1>1, <1>8, DialogMoves DEF KeepEditing
<1>9. ASSUME NEW s \in Sections, TypeText(s) PROVE \E z : Become(z) /\ DialogOK(z)
    <2> DEFINE text == [yaml.text EXCEPT ![s] = Flip(yaml.text[s])]
    <2>1. text \in Contents
        BY <1>0 DEF Dialogs, Contents, Values, Flip
    <2>2. Become([yaml EXCEPT !.text = text])
        BY <1>9 DEF TypeText
    <2> HIDE DEF text
    <2> QED BY <1>0, <2>1, <2>2, DialogMoves
<1>10. ASSUME NEW v \in VersionIds, VersionLoaded(v) PROVE \E z : Become(z) /\ DialogOK(z)
    <2>1. CASE Become([yaml EXCEPT !.loads = @ \ {v}])
        BY <1>0, <2>1, DialogMoves
    <2>2. CASE LoadVersionIntoEditor(v)
        <3> DEFINE loaded == versions[v].content
        <3> DEFINE keeps == yaml.mode = "edit" /\ loaded = yaml.initial
        <3> DEFINE text == IF keeps THEN yaml.text ELSE loaded
        <3> DEFINE y == [yaml EXCEPT !.loads = @ \ {v}, !.mode = "edit", !.rollback = v,
                            !.initial = loaded, !.text = text]
        <3>1. Become(y)
            BY <2>2 DEF LoadVersionIntoEditor
        <3>2. loaded \in Contents /\ v \in Nat
            BY <1>0, ContentFits
        <3>3. text \in Contents
            BY <1>0, <3>2 DEF Dialogs
        <3>4. yaml.open => OfProject(v, activeProject)
            BY <1>0, <1>10 DEF VersionLoaded, DialogOK
        <3> HIDE DEF text
        <3>5. /\ y \in Dialogs /\ y.rollback = v /\ y.initial = versions[v].content
              /\ y.asking = yaml.asking /\ y.open = yaml.open /\ y.loads = yaml.loads \ {v}
            BY <1>0, <3>2, <3>3 DEF Dialogs
        <3> HIDE DEF y
        <3>6. DialogOK(y)
            BY <1>0, <3>4, <3>5 DEF DialogOK
        <3> QED BY <3>1, <3>6
    <2> QED BY <1>10, <2>1, <2>2 DEF VersionLoaded
<1> QED BY <1>1, <1>2, <1>4, <1>5, <1>6, <1>7, <1>8, <1>9, <1>10 DEF Yaml

\* a save that is sent from the page in front
LEMMA SaveSent ==
    ASSUME FrontOK, NEW by \in {"form", "launch", "adapters", "yaml"}, page = SavePage(by),
           NEW content \in Contents, NEW phase \in {"sent", "validating"},
           NEW restored \in 0 .. MaxVersions
    PROVE  SaveOK([SaveRequest(by, content, content) EXCEPT !.phase = phase,
                                                           !.restored = restored])
<1> DEFINE s == [SaveRequest(by, content, content) EXCEPT !.phase = phase,
                                                         !.restored = restored]
<1>1. activeProject \in Projects
    BY DEF FrontOK, PlaceOK
<1>2. s \in SaveRequests
    BY <1>1 DEF SaveRequest, SaveRequests, Phases
<1>3. /\ s.shown = content /\ s.content = content /\ s.phase = phase /\ s.version = 0
      /\ s.by = by
    BY DEF SaveRequest
<1> HIDE DEF s
<1>4. SaveOK(s)
    BY <1>2, <1>3 DEF SaveOK
<1> QED BY <1>4 DEF s

LEMMA YamlKeeps == ASSUME FrontOK, Yaml PROVE FrontOK'
<1>1. /\ page = "training" /\ Counted
      /\ UNCHANGED <<versions, activeOf, dataRows, launched, tour, page,
                     activeProject, cfg, launches, writes, followed>>
    BY YamlStands
<1>2. ServerOK' /\ Onward
    BY <1>1, ServerStands
<1>3. CASE SaveText
    <2>1. DialogOK(yaml) /\ yaml \in Dialogs /\ ServerOK
        BY <1>1 DEF FrontOK, CoreOK, UiOK, TrainingUiOK, DialogOK, yaml
    <2>2. yaml.text \in Contents /\ yaml.rollback \in 0 .. MaxVersions
        <3>1. yaml.rollback = 0 \/ yaml.rollback \in 1 .. Len(versions)
            BY <2>1 DEF DialogOK, VersionIds, ServerOK
        <3> QED BY <2>1, <3>1 DEF Dialogs, ServerOK, ConfigAssumption
    <2> DEFINE s == [SaveRequest("yaml", yaml.text, yaml.text) EXCEPT
                        !.phase = "validating", !.restored = yaml.rollback]
    <2>3. SaveOK(s)
        BY <1>1, <2>2, SaveSent DEF SavePage
    <2>4. saves' = saves \cup {s} /\ ui' = ui
        BY <1>3 DEF SaveText
    <2> HIDE DEF s
    <2>5. SavesOK'
        BY <1>1, <1>2, <2>3, <2>4, FrontOnward DEF SavesOK, FrontOK, CoreOK
    <2> QED BY <1>1, <1>2, <2>4, <2>5, FrontOnward DEF FrontOK, CoreOK
<1>4. CASE ~SaveText
    <2>1. saves' = saves /\ UiOK'
        BY <1>1, <1>2, <1>4, YamlBecomes, DialogKeeps
    <2> QED BY <1>1, <1>2, <2>1, FrontOnward DEF FrontOK, CoreOK
<1> QED BY <1>3, <1>4

\* a step of the training page that leaves its dialog as it is
LEMMA TrainingUiMoves ==
    ASSUME FrontOK, page = "training", Onward, UNCHANGED <<page, activeProject>>,
           ui' \in TrainingUis, ui'.yaml = ui.yaml
    PROVE  UiOK'
<1> PICK y : y = ui.yaml
    OBVIOUS
<1>1. DialogOK(y)
    BY DEF FrontOK, UiOK, TrainingUiOK
<1>2. DialogOK(y)'
    BY <1>1, DialogOnward
<1>3. TrainingUiOK'
    BY <1>2 DEF TrainingUiOK
<1> QED BY <1>3, OnePage

\* what the form would save
LEMMA Composable ==
    ASSUME FrontOK, page = "training"
    PROVE  /\ Composed \subseteq Contents
           /\ \A v \in ConfigVersion(cfg, activeProject) :
                v \in VersionIds /\ OfProject(v, activeProject)
<1>1. /\ ServerOK /\ activeProject \in Projects /\ ui \in TrainingUis
      /\ ConfigEntryOK(cfg[activeProject], activeProject, followed[activeProject])
    BY DEF FrontOK, CoreOK, CfgOK, PlaceOK, UiOK, TrainingUiOK
<1>2. CachedOK(cfg, activeProject)
    BY <1>1 DEF ConfigEntryOK, Entry, CachedOK
<1>3. ui.slice \subseteq Slices
    BY <1>1 DEF TrainingUis
<1>4. Composed \subseteq Contents
    BY <1>1, <1>2, <1>3, PreviewFits DEF Composed
<1>5. \A v \in ConfigVersion(cfg, activeProject) : OfProject(v, activeProject)
    BY <1>1 DEF ConfigVersion, NoAnswer, ConfigEntryOK
<1> QED BY <1>4, <1>5 DEF OfProject

LEMMA PlainSaveSent ==
    ASSUME FrontOK, NEW by \in {"form", "launch", "adapters", "yaml"}, page = SavePage(by),
           NEW content \in Contents
    PROVE  SaveOK(SaveRequest(by, content, content))
<1> DEFINE s == SaveRequest(by, content, content)
<1>1. activeProject \in Projects /\ 0 \in 0 .. MaxVersions
    BY DEF FrontOK, PlaceOK, ConfigAssumption
<1>2. s \in SaveRequests
    BY <1>1 DEF SaveRequest, SaveRequests, Phases
<1>3. /\ s.shown = content /\ s.content = content /\ s.phase = "sent" /\ s.version = 0
      /\ s.by = by
    BY DEF SaveRequest
<1> HIDE DEF s
<1>4. SaveOK(s)
    BY <1>2, <1>3 DEF SaveOK
<1> QED BY <1>4 DEF s

LEMMA TrainingKeeps == ASSUME FrontOK, Training PROVE FrontOK'
<1>1. ASSUME Quiet
      PROVE  UNCHANGED <<versions, activeOf, dataRows, launched, tour, page,
                         activeProject, cfg, launches, writes, followed>>
    BY <1>1 DEF Quiet, configVars
<1>2. page = "training" => ui \in TrainingUis
    BY DEF FrontOK, UiOK, TrainingUiOK
<1>3. CASE HandleFormSave
    <2>1. /\ page = "training" /\ Counted /\ ui' = ui
          /\ UNCHANGED <<versions, activeOf, dataRows, launched, tour, page,
                         activeProject, cfg, launches, writes, followed>>
        BY <1>1, <1>3 DEF HandleFormSave, CanSave, PageFree, Counted
    <2>2. ServerOK' /\ Onward
        BY <2>1, ServerStands
    <2>3. PICK composed \in Composed : saves' = saves \cup {SaveRequest("form", composed, composed)}
        BY <1>3 DEF HandleFormSave
    <2> DEFINE s == SaveRequest("form", composed, composed)
    <2>4. SaveOK(s)
        BY <2>1, <2>3, Composable, PlainSaveSent DEF SavePage
    <2> HIDE DEF s
    <2>5. SavesOK'
        BY <2>1, <2>2, <2>3, <2>4, FrontOnward DEF SavesOK, FrontOK, CoreOK, s
    <2> QED BY <2>1, <2>2, <2>5, FrontOnward DEF FrontOK, CoreOK
<1>4. CASE OpenYaml
    <2>1. /\ page = "training" /\ Counted /\ saves' = saves
          /\ UNCHANGED <<versions, activeOf, dataRows, launched, tour, page,
                         activeProject, cfg, launches, writes, followed>>
        BY <1>1, <1>4 DEF OpenYaml, PageFree, Counted, OnlyDialog
    <2>2. ServerOK' /\ Onward
        BY <2>1, ServerStands
    <2>3. PICK preview \in Composed : Become(ResetDialog(preview))
        BY <1>4 DEF OpenYaml
    <2> DEFINE y == ResetDialog(preview)
    <2>4. preview \in Contents
        BY <2>1, Composable
    <2>5. DialogOK(y)
        BY <2>4 DEF ResetDialog, DialogOK, Dialogs, Nothing
    <2> HIDE DEF y
    <2>6. UiOK'
        BY <2>1, <2>2, <2>3, <2>5, DialogKeeps DEF y
    <2> QED BY <2>1, <2>2, <2>6, FrontOnward DEF FrontOK, CoreOK
<1>5. CASE OpenLaunch \/ CloseLaunch
    <2>1. /\ page = "training" /\ Counted /\ saves' = saves
          /\ UNCHANGED <<versions, activeOf, dataRows, launched, tour, page,
                         activeProject, cfg, launches, writes, followed>>
        BY <1>1, <1>5 DEF OpenLaunch, CloseLaunch, CanLaunch, PageFree, Counted, OnlyDialog
    <2>2. ServerOK' /\ Onward
        BY <2>1, ServerStands
    <2>3. PICK b \in BOOLEAN : ui' = [ui EXCEPT !.launch = b]
        BY <1>5 DEF OpenLaunch, CloseLaunch
    <2>4. ui' \in TrainingUis /\ ui'.yaml = ui.yaml
        BY <1>2, <2>1, <2>3 DEF TrainingUis
    <2>5. UiOK'
        BY <2>1, <2>2, <2>4, TrainingUiMoves
    <2> QED BY <2>1, <2>2, <2>5, FrontOnward DEF FrontOK, CoreOK
<1>6. CASE HandleLaunchClick
    <2>1. /\ page = "training" /\ Counted /\ ui' = ui
          /\ UNCHANGED <<versions, activeOf, dataRows, launched, tour, page,
                         activeProject, cfg, writes, followed>>
        BY <1>6 DEF HandleLaunchClick, configVars, Counted
    <2>2. ServerOK' /\ Onward
        BY <2>1, ServerStands
    <2>3. PICK composed \in Composed, v \in ConfigVersion(cfg, activeProject) :
            \/ /\ composed = versions[v].content
               /\ launches' = launches \cup {LaunchRequest(activeProject, v, composed)}
               /\ UNCHANGED saves
            \/ /\ saves' = saves \cup {SaveRequest("launch", composed, composed)}
               /\ UNCHANGED launches
        BY <1>6 DEF HandleLaunchClick
    <2>4. composed \in Contents /\ v \in VersionIds /\ activeProject \in Projects
        BY <2>1, <2>3, Composable DEF FrontOK, PlaceOK
    <2>5. CASE /\ composed = versions[v].content
               /\ launches' = launches \cup {LaunchRequest(activeProject, v, composed)}
               /\ UNCHANGED saves
        <3> DEFINE l == LaunchRequest(activeProject, v, composed)
        <3>1. v \in Nat
            BY <2>4, ContentFits DEF FrontOK, CoreOK
        <3>2. l \in LaunchRequests /\ l.version = v /\ l.shown = composed
            BY <2>4, <3>1 DEF LaunchRequest, LaunchRequests, Phases
        <3> HIDE DEF l
        <3>3. LaunchOK(l)
            BY <2>1, <2>4, <2>5, <3>2 DEF LaunchOK
        <3>4. LaunchesOK'
            BY <2>1, <2>2, <2>5, <3>3, FrontOnward DEF LaunchesOK, FrontOK, CoreOK, l
        <3> QED BY <2>1, <2>2, <2>5, <3>4, FrontOnward DEF FrontOK, CoreOK
    <2>6. CASE /\ saves' = saves \cup {SaveRequest("launch", composed, composed)}
               /\ UNCHANGED launches
        <3> DEFINE s == SaveRequest("launch", composed, composed)
        <3>1. SaveOK(s)
            BY <2>1, <2>4, PlainSaveSent DEF SavePage
        <3> HIDE DEF s
        <3>2. SavesOK'
            BY <2>1, <2>2, <2>6, <3>1, FrontOnward DEF SavesOK, FrontOK, CoreOK, s
        <3> QED BY <2>1, <2>2, <2>6, <3>2, FrontOnward DEF FrontOK, CoreOK
    <2> QED BY <2>3, <2>5, <2>6
<1>7. ASSUME NEW s \in Sections, HandleSliceChange(s) PROVE FrontOK'
    <2>1. /\ page = "training" /\ Counted /\ saves' = saves
          /\ UNCHANGED <<versions, activeOf, dataRows, launched, tour, page,
                         activeProject, cfg, launches, writes, followed>>
        BY <1>1, <1>7 DEF HandleSliceChange, PageFree, Counted, OnlyDialog
    <2>2. ServerOK' /\ Onward
        BY <2>1, ServerStands
    <2> DEFINE slices == {[sl EXCEPT ![s] = Flip(@)] : sl \in ui.slice}
    <2>3. ui.slice \subseteq Slices /\ s \in {"training", "adapters"}
        BY <1>2, <1>7, <2>1 DEF TrainingUis, HandleSliceChange
    <2>4. slices \subseteq Slices
        BY <2>3 DEF Slices, Values, Flip
    <2>5. ui' = [ui EXCEPT !.touched = TRUE, !.slice = slices]
        BY <1>7 DEF HandleSliceChange
    <2> HIDE DEF slices
    <2>6. ui' \in TrainingUis /\ ui'.yaml = ui.yaml
        BY <1>2, <2>1, <2>4, <2>5 DEF TrainingUis
    <2>7. UiOK'
        BY <2>1, <2>2, <2>6, TrainingUiMoves
    <2> QED BY <2>1, <2>2, <2>7, FrontOnward DEF FrontOK, CoreOK
<1> QED BY <1>3, <1>4, <1>5, <1>6, <1>7 DEF Training

LEMMA AdaptersKeeps == ASSUME FrontOK, Adapters PROVE FrontOK'
<1>1. /\ page = "adapters" /\ Counted
      /\ UNCHANGED <<versions, activeOf, dataRows, launched, tour, page,
                     activeProject, cfg, launches, writes, followed>>
    BY DEF Adapters, ChangeLocal, HandleResetToParsed, HandleAdaptersSave, OnPage, Unsent,
           configVars, Counted
<1>2. ServerOK' /\ Onward
    BY <1>1, ServerStands
<1>3. ui \in AdaptersUis /\ ServerOK /\ activeProject \in Projects
    BY <1>1 DEF FrontOK, UiOK, AdaptersUiOK, CoreOK, PlaceOK
<1>4. CachedOK(cfg, activeProject)
    BY <1>3 DEF FrontOK, CoreOK, CfgOK, ConfigEntryOK, Entry, CachedOK
<1>5. ASSUME NEW local \in SUBSET [Owned -> Values], ui' = [ui EXCEPT !.local = local],
             saves' = saves
      PROVE  FrontOK'
    <2>1. AdaptersUiOK'
        BY <1>3, <1>5 DEF AdaptersUiOK, AdaptersUis
    <2>2. UiOK'
        BY <1>1, <2>1, OnePage
    <2> QED BY <1>1, <1>2, <1>5, <2>2, FrontOnward DEF FrontOK, CoreOK
<1>6. ASSUME NEW S \in SUBSET Owned, ChangeLocal(S) PROVE FrontOK'
    <2> DEFINE local == {[s \in Owned |-> IF s \in S THEN Flip(l[s]) ELSE l[s]] : l \in ui.local}
    <2>1. ui.local \subseteq [Owned -> Values]
        BY <1>3 DEF AdaptersUis
    <2>2. local \in SUBSET [Owned -> Values]
        <3>1. \A l \in ui.local : [s \in Owned |-> IF s \in S THEN Flip(l[s]) ELSE l[s]]
                                    \in [Owned -> Values]
            BY <2>1 DEF Flip, Values
        <3> QED BY <3>1
    <2>3. ui' = [ui EXCEPT !.local = local] /\ saves' = saves
        BY <1>6 DEF ChangeLocal
    <2> HIDE DEF local
    <2> QED BY <1>5, <2>2, <2>3
<1>7. CASE HandleResetToParsed
    <2>1. LocalsOf(cfg, activeProject) \in SUBSET [Owned -> Values]
        BY <1>3, <1>4, LocalsFit
    <2> QED BY <1>5, <1>7, <2>1 DEF HandleResetToParsed
<1>8. CASE HandleAdaptersSave
    <2>1. PICK v \in ConfigVersion(cfg, activeProject), l \in ui.local :
            saves' = saves \cup {SaveRequest("adapters", Composes(versions[v].content, l),
                                             Composes(versions[v].content, l))}
        BY <1>8 DEF HandleAdaptersSave
    <2> DEFINE composed == Composes(versions[v].content, l)
    <2>2. versions[v].content \in Contents /\ l \in [Owned -> Values]
        BY <1>3, <1>4, <2>1, ParsedFits, ContentFits DEF AdaptersUis
    <2>3. composed \in Contents
        BY <2>2 DEF Composes, Recased, Contents, Values
    <2> HIDE DEF composed
    <2> DEFINE s == SaveRequest("adapters", composed, composed)
    <2>4. SaveOK(s)
        BY <1>1, <2>3, PlainSaveSent DEF SavePage
    <2> HIDE DEF s
    <2>5. saves' = saves \cup {s} /\ ui' = ui
        BY <1>8, <2>1 DEF s, composed, HandleAdaptersSave
    <2>6. SavesOK'
        BY <1>1, <1>2, <2>4, <2>5, FrontOnward DEF SavesOK, FrontOK, CoreOK
    <2> QED BY <1>1, <1>2, <2>5, <2>6, FrontOnward DEF FrontOK, CoreOK
<1> QED BY <1>6, <1>7, <1>8 DEF Adapters

LEMMA TabsFit ==
    ASSUME NEW f \in FormConfig
    PROVE  /\ TrainingConfigTab(f) \subseteq FormConfig
           /\ TrainingScheduleTab(f) \subseteq FormConfig
           /\ TrainingEnvironmentTab(f) \subseteq FormConfig
           /\ TrainingPresetsPanel(f) \subseteq FormConfig
           /\ LoRaSection(f) \subseteq FormConfig
           /\ QuantizationSection(f) \subseteq FormConfig
           /\ MemorySection(f) \subseteq FormConfig
<1>1. TrainingConfigTab(f) \subseteq FormConfig
    <2>1. \A m \in Methods : MethodUpdate(f, m) \in FormConfig
        BY DEF Methods, MethodUpdate, FormConfig
    <2>2. \A p \in {"no", "bf16"} : [f EXCEPT !.mixedPrecision = p] \in FormConfig
        BY DEF FormConfig
    <2>3. \A n \in {1, 10} : [f EXCEPT !.epochs = n] \in FormConfig
        BY DEF FormConfig
    <2> QED BY <2>1, <2>2, <2>3 DEF TrainingConfigTab
<1>2. TrainingScheduleTab(f) \subseteq FormConfig
    <2>1. \A s \in {"cosine", "linear", "constant"} : [f EXCEPT !.scheduler = s] \in FormConfig
        BY DEF FormConfig
    <2>2. \A n \in {0, MAX_WARMUP} : [f EXCEPT !.warmupSteps = n] \in FormConfig
        BY DEF FormConfig
    <2> QED BY <2>1, <2>2 DEF TrainingScheduleTab
<1>3. TrainingEnvironmentTab(f) \subseteq FormConfig
    <2>1. \A e \in {"local", "modal"} :
            [f EXCEPT !.environment = e, !.dataPolicy = PolicyForEnvironment(e)] \in FormConfig
        <3> TAKE e \in {"local", "modal"}
        <3>1. PolicyForEnvironment(e) \in {"local_raw", "sanitized_cloud"}
            BY DEF PolicyForEnvironment
        <3> QED BY <3>1 DEF FormConfig
    <2> QED BY <2>1 DEF TrainingEnvironmentTab
<1>4. TrainingPresetsPanel(f) \subseteq FormConfig
    BY DEF TrainingPresetsPanel, FormConfig
<1>5. LoRaSection(f) \subseteq FormConfig
    <2>1. \A b \in BOOLEAN : [f EXCEPT !.enabled = b] \in FormConfig
        BY DEF FormConfig
    <2>2. \A t \in {"lora", "qlora"} : [f EXCEPT !.type = t] \in FormConfig
        BY DEF FormConfig
    <2>3. \A m \in TARGET_MODULE_PRESETS : ToggleTargetModule(f, m) \in FormConfig
        BY DEF ToggleTargetModule, FormConfig
    <2> QED BY <2>1, <2>2, <2>3 DEF LoRaSection
<1>6. QuantizationSection(f) \subseteq FormConfig
    BY DEF QuantizationSection, FormConfig
<1>7. MemorySection(f) \subseteq FormConfig
    BY DEF MemorySection, FormConfig
<1> QED BY <1>1, <1>2, <1>3, <1>4, <1>5, <1>6, <1>7

\* a preset leaves a configuration that the trainer reads as it says
LEMMA PresetSets ==
    ASSUME NEW f \in FormConfig, NEW name \in ADAPTERS_PRESETS
    PROVE  /\ ApplyPreset(f, name) \in FormConfig
           /\ TrainedAs(ApplyPreset(f, name)).method = Promised.method[name]
           /\ TrainedAs(ApplyPreset(f, name)).bits = Promised.bits[name]
<1> DEFINE g == ApplyPreset(f, name)
<1>1. CASE name = "LoRA Minimal"
    <2>1. g = [f EXCEPT !.enabled = TRUE, !.type = "lora", !.modules = {"q_proj"},
                        !.quantized = FALSE]
        BY <1>1 DEF ApplyPreset
    <2> HIDE DEF g
    <2>2. g \in FormConfig /\ g.enabled = TRUE /\ g.type = "lora" /\ g.quantized = FALSE
        BY <2>1 DEF FormConfig, TARGET_MODULE_PRESETS
    <2>3. TrainedAs(g).method = "lora" /\ TrainedAs(g).bits = "16bit"
        BY <2>2 DEF TrainedAs, ResolveMethod
    <2>4. Promised.method[name] = "lora" /\ Promised.bits[name] = "16bit"
        BY <1>1 DEF Promised
    <2> QED BY <2>2, <2>3, <2>4 DEF g
<1>2. CASE name = "QLoRA 4-bit"
    <2>1. g = [f EXCEPT !.enabled = TRUE, !.type = "qlora",
                      !.modules = {"q_proj", "k_proj"}, !.checkpointing = TRUE,
                      !.mixedPrecision = "bf16", !.quantized = TRUE, !.mode = "4bit"]
        BY <1>2 DEF ApplyPreset
    <2> HIDE DEF g
    <2>2. g \in FormConfig /\ g.enabled = TRUE /\ g.type = "qlora" /\ g.mode = "4bit"
        BY <2>1 DEF FormConfig, TARGET_MODULE_PRESETS
    <2>3. TrainedAs(g).method = "qlora" /\ TrainedAs(g).bits = "4bit"
        BY <2>2 DEF TrainedAs, ResolveMethod
    <2>4. Promised.method[name] = "qlora" /\ Promised.bits[name] = "4bit"
        BY <1>2 DEF Promised
    <2> QED BY <2>2, <2>3, <2>4 DEF g
<1>3. CASE name = "Full LoRA"
    <2>1. g = [f EXCEPT !.enabled = TRUE, !.type = "lora",
                      !.modules = TARGET_MODULE_PRESETS, !.quantized = FALSE]
        BY <1>3 DEF ApplyPreset
    <2> HIDE DEF g
    <2>2. g \in FormConfig /\ g.enabled = TRUE /\ g.type = "lora" /\ g.quantized = FALSE
        BY <2>1 DEF FormConfig
    <2>3. TrainedAs(g).method = "lora" /\ TrainedAs(g).bits = "16bit"
        BY <2>2 DEF TrainedAs, ResolveMethod
    <2>4. Promised.method[name] = "lora" /\ Promised.bits[name] = "16bit"
        BY <1>3 DEF Promised
    <2> QED BY <2>2, <2>3, <2>4 DEF g
<1> QED BY <1>1, <1>2, <1>3 DEF ADAPTERS_PRESETS

LEMMA FormKeeps == ASSUME FrontOK, UseControl \/ UsePreset PROVE FrontOK'
<1>1. page = "form" /\ Stands /\ Counted /\ writes' = writes
    BY DEF UseControl, UsePreset, FormRest, Stands, Counted, configVars, requestVars
<1>2. ui.form \in FormConfig
    BY <1>1 DEF FrontOK, UiOK, FormUiOK
<1>3. FormUiOK'
    <2>1. CASE UseControl
        <3>1. PICK f \in Controls(ui.form) : ui' = [form |-> f, preset |-> ""]
            BY <2>1 DEF UseControl
        <3>2. f \in FormConfig
            BY <1>2, <3>1, TabsFit DEF Controls
        <3> QED BY <3>1, <3>2 DEF FormUiOK
    <2>2. CASE UsePreset
        <3>1. PICK name \in ADAPTERS_PRESETS :
                ui' = [form |-> ApplyPreset(ui.form, name), preset |-> name]
            BY <2>2 DEF UsePreset
        <3> DEFINE f == ui.form
        <3>2. /\ ApplyPreset(f, name) \in FormConfig
              /\ TrainedAs(ApplyPreset(f, name)).method = Promised.method[name]
              /\ TrainedAs(ApplyPreset(f, name)).bits = Promised.bits[name]
            BY <1>2, <3>1, PresetSets
        <3> QED BY <3>1, <3>2 DEF FormUiOK
    <2> QED BY <2>1, <2>2
<1>4. UiOK'
    BY <1>1, <1>3, OnePage DEF Stands
<1> QED BY <1>1, <1>4, StandsKeeps DEF FrontOK

LEMMA PagesStay ==
    ASSUME Requests \/ Yaml \/ Training \/ Adapters \/ UseControl \/ UsePreset PROVE page' = page
<1>1. CASE Requests
    BY <1>1 DEF Requests, HandleSave, SaveAnswered, TextValidated, TextSaved,
                HandleWrite, HandleLaunch, LaunchAnswered, FetchConfig, Quiet
<1>2. CASE Yaml
    BY <1>2, YamlStands
<1>3. CASE Training
    BY <1>3 DEF Training, HandleFormSave, OpenYaml, OpenLaunch, CloseLaunch,
                HandleLaunchClick, HandleSliceChange, OnlyDialog, Quiet
<1>4. CASE Adapters
    BY <1>4 DEF Adapters, ChangeLocal, HandleResetToParsed, HandleAdaptersSave, Unsent
<1>5. CASE UseControl \/ UsePreset
    BY <1>5 DEF UseControl, UsePreset, FormRest
<1> QED BY <1>1, <1>2, <1>3, <1>4, <1>5

\* the steps over the configuration, the requests and the forms
LEMMA PagesKeep ==
    ASSUME FrontOK, RestOK,
           \/ Requests \/ Yaml \/ Training \/ Adapters \/ UseControl \/ UsePreset,
           UNCHANGED <<tableVars, ownVars>>
    PROVE  FrontOK' /\ RestOK'
<1>1. FrontOK'
    <2>1. CASE Requests
        BY <2>1, HandleSaveKeeps, SaveAnsweredKeeps, TextValidatedKeeps, TextSavedKeeps,
           HandleWriteKeeps, HandleLaunchKeeps, LaunchAnsweredKeeps, FetchConfigKeeps
           DEF Requests
    <2> QED BY <2>1, YamlKeeps, TrainingKeeps, AdaptersKeeps, FormKeeps
<1>2. page' = page
    BY PagesStay
<1>3. RestOK'
    BY <1>2, RestKept DEF RestOK, ownVars
<1> QED BY <1>1, <1>3

\* an answer of the configuration changes no list and nothing of one page
LEMMA AnswerKeeps ==
    ASSUME FrontOK, RestOK, NEW p \in Projects, ConfigAnswered(p) PROVE FrontOK' /\ RestOK'
BY ConfigAnsweredKeeps, RestKept DEF ConfigAnswered, RestOK, ownVars

-----------------------------------------------------------------------------
(* The lists. *)

LEMMA MinFits == ASSUME NEW T \in SUBSET Rows, T # {} PROVE Min(T) \in T
<1>1. \E x \in T : \A y \in T : x <= y
    BY LeastElement DEF Rows, TableAssumption
<1> QED BY <1>1 DEF Min

LEMMA KindsAre ==
    /\ Kinds = {"register", "merge", "generate", "send", "create", "unmerge", "reject",
                "erase", "remove", "markRead", "cleanup", "rules"}
    /\ \A k \in DOMAIN AddsTo : AddsTo[k] \in Tabled /\ k # "rules"
    /\ \A k \in DOMAIN RemovesFrom : RemovesFrom[k] \in Tabled /\ k # "rules"
    /\ DOMAIN RemovesFrom = {"unmerge", "reject", "erase", "remove", "markRead"}
    /\ DOMAIN AddsTo \cap DOMAIN RemovesFrom = {}
BY DEF Kinds, AddsTo, RemovesFrom, Tabled

LEMMA CallMoves ==
    ASSUME NEW c, CallOK(c)
    PROVE  /\ \A phase \in Phases : CallOK([c EXCEPT !.phase = phase])
           /\ CallOK([c EXCEPT !.watched = FALSE])
           /\ c.kind # "rules" =>
                \A phase \in Phases, row \in Rows :
                    CallOK([c EXCEPT !.phase = phase, !.row = row])
<1>1. \A phase \in Phases : CallOK([c EXCEPT !.phase = phase])
    BY DEF CallOK, Calls
<1>2. CallOK([c EXCEPT !.watched = FALSE])
    BY DEF CallOK, Calls
<1>3. ASSUME c.kind # "rules", NEW phase \in Phases, NEW row \in Rows
      PROVE  CallOK([c EXCEPT !.phase = phase, !.row = row])
    <2>1. row \in 0 .. MaxRows
        BY DEF Rows, TableAssumption
    <2>2. [c EXCEPT !.phase = phase, !.row = row] \in Calls
        BY <2>1 DEF CallOK, Calls
    <2>3. /\ [c EXCEPT !.phase = phase, !.row = row].kind = c.kind
          /\ [c EXCEPT !.phase = phase, !.row = row].row = row
        BY DEF CallOK, Calls
    <2> QED BY <1>3, <2>2, <2>3 DEF CallOK
<1> QED BY <1>1, <1>2, <1>3

LEMMA CallAdded ==
    ASSUME TablesOK, NEW c, CallOK(c), calls' \subseteq calls \cup {c},
           UNCHANGED <<tables, lists, told>>
    PROVE  TablesOK'
BY DEF TablesOK

LEMMA CallSent ==
    ASSUME TablesOK, NEW kind \in Kinds, NEW row \in 0 .. MaxRows, Send(kind, row),
           kind = "rules" => row \in Values, kind \in DOMAIN RemovesFrom => row \in Rows
    PROVE  TablesOK' /\ Counted
<1> DEFINE c == [kind |-> kind, row |-> row, watched |-> TRUE, phase |-> "sent"]
<1>1. c \in Calls /\ c.kind = kind /\ c.row = row
    BY DEF Calls, Phases
<1>2. calls' = calls \cup {c} /\ UNCHANGED <<tables, lists, told>> /\ Counted
    BY DEF Send, Counted
<1> HIDE DEF c
<1>3. CallOK(c)
    BY <1>1 DEF CallOK
<1> QED BY <1>2, <1>3, CallAdded

\* the server changes rows, and with them what was told of them
LEMMA RowsChange ==
    ASSUME TablesOK, tables' \in [Tabled -> SUBSET Rows], told' \subseteq told,
           lists' = lists, \A c \in calls' : CallOK(c),
           \A n \in told' : n[3] \in tables'[n[1]] <=> n[3] \in tables[n[1]]
    PROVE  TablesOK'
BY DEF TablesOK

LEMMA ListedFits == ASSUME TablesOK, NEW t \in Tabled PROVE Listed(t) \subseteq Rows
<1>1. lists[t] \in Entry(SUBSET Rows) /\ {} \in SUBSET Rows
    BY DEF TablesOK
<1> QED BY <1>1, DataOrFits DEF Listed

LEMMA CallHandledKeeps ==
    ASSUME TablesOK, NEW c \in calls, CallHandled(c) PROVE TablesOK'
<1>1. CallOK(c) /\ c.kind # "rules" /\ lists' = lists /\ c.kind \in Kinds
    BY DEF TablesOK, CallHandled, CallOK, Calls
<1>2. ASSUME NEW t \in Tabled, NEW row \in Rows, NEW rows \in SUBSET Rows,
             \A r \in Rows : r # row => (r \in rows <=> r \in tables[t]),
             tables' = [tables EXCEPT ![t] = rows],
             told' \subseteq told, \A n \in told' : n[1] # t \/ n[3] # row,
             NEW d, CallOK(d), calls' = Replaced(calls, c, d)
      PROVE  TablesOK'
    <2>2. \A e \in calls' : CallOK(e)
        BY <1>2 DEF Replaced, TablesOK
    <2>3. tables' \in [Tabled -> SUBSET Rows] /\ told' \subseteq told
        BY <1>2 DEF TablesOK
    <2>4. \A n \in told' : n[3] \in tables'[n[1]] <=> n[3] \in tables[n[1]]
        <3> TAKE n \in told'
        <3>1. n[1] \in Tabled /\ n[3] \in Rows /\ (n[1] # t \/ n[3] # row)
            BY <1>2 DEF TablesOK
        <3>2. tables \in [Tabled -> SUBSET Rows]
            BY DEF TablesOK
        <3>3. CASE n[1] # t
            BY <1>2, <3>1, <3>2, <3>3
        <3>4. CASE n[1] = t
            BY <1>2, <3>1, <3>2, <3>4
        <3> QED BY <3>3, <3>4
    <2> QED BY <1>1, <2>2, <2>3, <2>4, RowsChange
<1>4. ASSUME c.kind \in DOMAIN AddsTo, Missing(AddsTo[c.kind]) # {},
             LET t == AddsTo[c.kind]
                 row == Min(Missing(t))
             IN  /\ tables' = [tables EXCEPT ![t] = tables[t] \cup {row}]
                 /\ told' = {n \in told : n[1] # t \/ n[3] # row}
                 /\ calls' = Replaced(calls, c, [c EXCEPT !.phase = "ok", !.row = row])
      PROVE  TablesOK'
    <2> PICK t : t = AddsTo[c.kind]
        OBVIOUS
    <2> PICK row : row = Min(Missing(t))
        OBVIOUS
    <2>1. t \in Tabled
        BY <1>4, KindsAre
    <2>2. tables[t] \in SUBSET Rows
        BY <2>1 DEF TablesOK
    <2>3. row \in Rows
        BY <1>4, <2>2, MinFits DEF Missing
    <2> DEFINE rows == tables[t] \cup {row}
    <2>4. rows \in SUBSET Rows /\ \A r \in Rows : r # row => (r \in rows <=> r \in tables[t])
        BY <2>2, <2>3
    <2>5. /\ tables' = [tables EXCEPT ![t] = rows]
          /\ told' \subseteq told /\ \A n \in told' : n[1] # t \/ n[3] # row
          /\ calls' = Replaced(calls, c, [c EXCEPT !.phase = "ok", !.row = row])
        BY <1>4
    <2> DEFINE d == [c EXCEPT !.phase = "ok", !.row = row]
    <2>6. CallOK(d)
        BY <1>1, <2>3, CallMoves DEF Phases
    <2>7. calls' = Replaced(calls, c, d)
        BY <2>5
    <2> HIDE DEF rows, d
    <2> QED BY <1>2, <2>1, <2>3, <2>4, <2>5, <2>6, <2>7
<1>5. ASSUME c.kind \in DOMAIN RemovesFrom,
             LET t == RemovesFrom[c.kind]
             IN  /\ tables' = [tables EXCEPT ![t] = tables[t] \ {c.row}]
                 /\ told' = {n \in told : n[1] # t \/ n[3] # c.row}
                 /\ calls' = Replaced(calls, c, [c EXCEPT !.phase = "ok", !.row = c.row])
      PROVE  TablesOK'
    <2>t. PICK t : t = RemovesFrom[c.kind]
        OBVIOUS
    <2>row. PICK row : row = c.row
        OBVIOUS
    <2>1. t \in Tabled /\ row \in Rows
        BY <1>1, <1>5, <2>t, <2>row, KindsAre DEF CallOK
    <2>2. tables[t] \in SUBSET Rows
        BY <2>1 DEF TablesOK
    <2> DEFINE rows == tables[t] \ {row}
    <2>3. rows \in SUBSET Rows /\ \A r \in Rows : r # row => (r \in rows <=> r \in tables[t])
        BY <2>2
    <2> DEFINE d == [c EXCEPT !.phase = "ok", !.row = row]
    <2>4. CallOK(d)
        BY <1>1, <2>1, CallMoves DEF Phases
    <2>5. /\ tables' = [tables EXCEPT ![t] = rows]
          /\ told' \subseteq told /\ \A n \in told' : n[1] # t \/ n[3] # row
        BY <1>5, <2>t, <2>row
    <2>6. calls' = Replaced(calls, c, d)
        BY <1>5, <2>t, <2>row
    <2> HIDE DEF rows, d
    <2> QED BY <1>2, <2>1, <2>3, <2>4, <2>5, <2>6
<1>6. CASE /\ calls' = Replaced(calls, c, [c EXCEPT !.phase = "failed"])
           /\ UNCHANGED <<tables, told>>
    <2> DEFINE d == [c EXCEPT !.phase = "failed"]
    <2>1. CallOK(d)
        BY <1>1, CallMoves DEF Phases
    <2> HIDE DEF d
    <2> QED BY <1>1, <1>6, <2>1, CallAdded DEF Replaced, d
<1> QED BY <1>4, <1>5, <1>6 DEF CallHandled

\* what the lists hold is what the server had, or known to be old
LEMMA ListReplaced ==
    ASSUME TablesOK, NEW t \in Tabled, NEW e \in Entry(SUBSET Rows),
           lists' = [lists EXCEPT ![t] = e], UNCHANGED <<tables, calls, told>>,
           \A rows \in e.flight : rows = tables[t] \/ rows \in lists[t].flight,
           \/ e.stale = lists[t].stale /\ e.data = lists[t].data
           \/ e.data = lists[t].flight
    PROVE  TablesOK'
<1>1. lists' \in [Tabled -> Entry(SUBSET Rows)]
    BY DEF TablesOK
<1>2. \A n \in told : /\ \A rows \in lists'[n[1]].flight : n[3] \in rows <=> n[2]
                      /\ \/ lists'[n[1]].stale
                         \/ \A rows \in lists'[n[1]].data : n[3] \in rows <=> n[2]
    <2> TAKE n \in told
    <2>1. /\ n[1] \in Tabled /\ n[3] \in Rows /\ lists \in [Tabled -> Entry(SUBSET Rows)]
          /\ n[3] \in tables[n[1]] <=> n[2]
          /\ \A rows \in lists[n[1]].flight : n[3] \in rows <=> n[2]
          /\ \/ lists[n[1]].stale
             \/ \A rows \in lists[n[1]].data : n[3] \in rows <=> n[2]
        BY DEF TablesOK
    <2>2. CASE n[1] # t
        BY <2>1, <2>2
    <2>3. CASE n[1] = t
        <3>1. lists'[t] = e
            BY <2>1
        <3> QED BY <2>1, <2>3, <3>1
    <2> QED BY <2>2, <2>3
<1> QED BY <1>1, <1>2 DEF TablesOK

LEMMA FetchListKeeps == ASSUME TablesOK, NEW t \in Tabled, FetchList(t) PROVE TablesOK' /\ Counted
<1>1. lists[t] \in Entry(SUBSET Rows) /\ tables[t] \in SUBSET Rows
    BY DEF TablesOK
<1>2. /\ Asked(lists[t], tables[t]) \in Entry(SUBSET Rows)
      /\ Asked(lists[t], tables[t]).data = lists[t].data
      /\ Asked(lists[t], tables[t]).stale = lists[t].stale
      /\ Asked(lists[t], tables[t]).flight = {tables[t]}
    BY <1>1, EntryAsked
<1>3. lists' = [lists EXCEPT ![t] = Asked(lists[t], tables[t])]
    BY DEF FetchList
<1>4. UNCHANGED <<tables, calls, told>> /\ Counted
    BY DEF FetchList, Counted
<1> QED BY <1>2, <1>3, <1>4, ListReplaced

LEMMA ListAnsweredKeeps ==
    ASSUME TablesOK, NEW t \in Tabled, ListAnswered(t) PROVE TablesOK' /\ Counted
<1>1. lists[t] \in Entry(SUBSET Rows)
    BY DEF TablesOK
<1>2. /\ Answered(lists[t]) \in Entry(SUBSET Rows)
      /\ Answered(lists[t]).data = lists[t].flight /\ Answered(lists[t]).flight = {}
    BY <1>1, EntryAnswered
<1>3. UNCHANGED <<tables, calls, told>> /\ Counted
      /\ lists' = [lists EXCEPT ![t] = Answered(lists[t])]
    BY DEF ListAnswered, Counted
<1> QED BY <1>2, <1>3, ListReplaced

\* lists are invalidated, and what is told of them is so on the server
LEMMA ListsInvalidated ==
    ASSUME TablesOK, NEW keys \in SUBSET Tabled, NEW shown \in SUBSET Tabled, NEW new,
           lists' = InvalidatedAll(lists, keys, shown), told' = told \cup new,
           tables' = tables, calls' \subseteq calls,
           \A n \in new : /\ n \in Tabled \X BOOLEAN \X Rows
                          /\ n[1] \in keys \cap shown /\ lists[n[1]].data # NoAnswer
                          /\ n[3] \in tables[n[1]] <=> n[2]
    PROVE  TablesOK'
<1>0. lists \in [Tabled -> Entry(SUBSET Rows)]
    BY DEF TablesOK
<1> DEFINE Is(t) == t \in shown
<1>1. \A t \in Tabled :
        /\ lists'[t] = IF t \in keys THEN Invalidated(lists[t], t \in shown) ELSE lists[t]
        /\ lists'[t] \in Entry(SUBSET Rows)
        /\ lists'[t].data = lists[t].data /\ lists'[t].flight \subseteq lists[t].flight
        /\ lists[t].stale => lists'[t].stale
        /\ (t \in keys \cap shown /\ lists[t].data # NoAnswer) =>
                lists'[t].stale /\ lists'[t].flight = {}
    <2> TAKE t \in Tabled
    <2>1. lists'[t] = IF t \in keys THEN Invalidated(lists[t], t \in shown) ELSE lists[t]
        BY <1>0 DEF InvalidatedAll
    <2>5. t \in keys => lists'[t] = Invalidated(lists[t], Is(t))
        BY <2>1
    <2>2. lists[t] \in Entry(SUBSET Rows)
        BY <1>0
    <2>3. CASE t \in keys
        <3> PICK e : e = lists[t]
            OBVIOUS
        <3> HIDE DEF Is
        <3>1. /\ Invalidated(e, Is(t)) \in Entry(SUBSET Rows)
              /\ Invalidated(e, Is(t)).data = e.data
              /\ Invalidated(e, Is(t)).flight \subseteq e.flight
              /\ e.stale => Invalidated(e, Is(t)).stale
              /\ e.data # NoAnswer => Invalidated(e, Is(t)).stale
              /\ e.data # NoAnswer /\ Is(t) => Invalidated(e, Is(t)).flight = {}
            BY <2>2, EntryInvalidated
        <3>2. lists'[t] = Invalidated(e, Is(t))
            BY <2>3, <2>5
        <3> QED BY <2>1, <3>1, <3>2 DEF Is
    <2>4. CASE t \notin keys
        BY <2>1, <2>2, <2>4
    <2> QED BY <2>1, <2>3, <2>4
<1>2. lists' \in [Tabled -> Entry(SUBSET Rows)]
    <2>1. lists' = [t \in Tabled |-> lists'[t]]
        BY <1>0 DEF InvalidatedAll
    <2> QED BY <1>1, <2>1
<1>3. \A n \in told' :
        /\ n \in Tabled \X BOOLEAN \X Rows
        /\ n[3] \in tables[n[1]] <=> n[2]
        /\ \A rows \in lists'[n[1]].flight : n[3] \in rows <=> n[2]
        /\ \/ lists'[n[1]].stale
           \/ \A rows \in lists'[n[1]].data : n[3] \in rows <=> n[2]
    <2> TAKE n \in told'
    <2>1. CASE n \in told
        <3>1. /\ n \in Tabled \X BOOLEAN \X Rows
              /\ n[3] \in tables[n[1]] <=> n[2]
              /\ \A rows \in lists[n[1]].flight : n[3] \in rows <=> n[2]
              /\ \/ lists[n[1]].stale
                 \/ \A rows \in lists[n[1]].data : n[3] \in rows <=> n[2]
            BY <2>1 DEF TablesOK
        <3>2. n[1] \in Tabled
            BY <3>1
        <3> QED BY <1>1, <3>1, <3>2
    <2>2. CASE n \in new
        <3>1. n[1] \in Tabled
            BY <2>2
        <3> QED BY <1>1, <2>2, <3>1
    <2> QED BY <2>1, <2>2
<1>4. \A c \in calls' : CallOK(c)
    BY DEF TablesOK
<1>5. tables' \in [Tabled -> SUBSET Rows]
    BY DEF TablesOK
<1> QED BY <1>2, <1>3, <1>4, <1>5 DEF TablesOK

LEMMA CallAnsweredKeeps ==
    ASSUME TablesOK, NEW c \in calls, NEW shown \in SUBSET Tabled, CallAnswered(c, shown)
    PROVE  TablesOK'
<1>1. CallOK(c) /\ calls' \subseteq calls /\ tables' = tables
    BY DEF CallAnswered, TablesOK
<1>2. CASE c.phase = "failed"
    <2>1. UNCHANGED <<lists, told, tables>>
        BY <1>2 DEF CallAnswered
    <2> QED BY <1>1, <2>1, CallAdded
<1>3. CASE c.phase # "failed"
    <2> DEFINE keys == Touched(c.kind)
    <2> DEFINE new == Told(c, shown)
    <2>1. keys \in SUBSET Tabled
        BY KindsAre DEF Touched, Tabled
    <2>2. lists' = InvalidatedAll(lists, keys, shown) /\ told' = told \cup new
        BY <1>3 DEF CallAnswered
    <2>3. \A n \in new : /\ n \in Tabled \X BOOLEAN \X Rows
                         /\ n[1] \in keys \cap shown /\ lists[n[1]].data # NoAnswer
                         /\ n[3] \in tables[n[1]] <=> n[2]
        <3> TAKE n \in new
        <3>1. /\ n \in shown \X BOOLEAN \X {c.row}
              /\ lists[n[1]].data # NoAnswer
              /\ n[2] = (c.row \in tables[n[1]])
              /\ \/ n[2] /\ c.kind \in DOMAIN AddsTo /\ AddsTo[c.kind] = n[1]
                 \/ ~n[2] /\ c.kind \in DOMAIN RemovesFrom /\ RemovesFrom[c.kind] = n[1]
            BY DEF Told
        <3>2. n[1] \in Tabled /\ n[3] = c.row /\ n[1] \in shown
            BY <3>1
        <3>3. tables[n[1]] \subseteq Rows
            BY <3>2 DEF TablesOK
        <3>4. c.row \in Rows
            BY <1>1, <3>1, <3>3 DEF CallOK
        <3>5. n[1] \in keys
            BY <3>1, KindsAre DEF Touched
        <3>6. n \in Tabled \X BOOLEAN \X Rows
            BY <3>1, <3>4
        <3> QED BY <3>1, <3>2, <3>5, <3>6
    <2> HIDE DEF keys, new
    <2> QED BY <1>1, <2>1, <2>2, <2>3, ListsInvalidated
<1> QED BY <1>2, <1>3

-----------------------------------------------------------------------------
(* The artifacts, projects and models pages. *)

\* a page of which nothing is to be kept
LEMMA PlainPage ==
    ASSUME FrontOK, page' = page,
           page \notin {"training", "adapters", "models", "datasets", "suggestions",
                        "form", "voice", "shell"}
    PROVE  UiOK'
BY OnePage

\* a step of a list page: the configuration and its requests stay
LEMMA ListPageKeeps ==
    ASSUME FrontOK, RestOK, Stands, Counted, writes' = writes, UiOK', TablesOK',
           UNCHANGED ownVars
    PROVE  FrontOK' /\ RestOK'
<1>1. FrontOK'
    BY StandsKeeps DEF FrontOK
<1>2. RestOK'
    BY RestKept DEF RestOK, ownVars, Stands
<1> QED BY <1>1, <1>2

LEMMA ArtifactsKeep ==
    ASSUME FrontOK, RestOK, Artifacts, UNCHANGED ownVars PROVE FrontOK' /\ RestOK'
<1>1. Stands /\ Counted /\ writes' = writes
    <2>1. ASSUME ArtifactsRest PROVE Stands /\ writes' = writes
        BY <2>1 DEF ArtifactsRest, Stands, configVars
    <2>2. ASSUME NEW r \in Rows, SelectArtifact(r) \/ AskDelete(r) \/ HandleMergeCheckpoint(r)
          PROVE  Stands /\ Counted /\ writes' = writes
        BY <2>1, <2>2 DEF SelectArtifact, AskDelete, HandleMergeCheckpoint, Counted, Send,
                          OnlyArtifactsUi, OnlyArtifactsCall
    <2>3. CASE CloseArtifact \/ AskCleanup \/ CancelAsking
        BY <2>1, <2>3 DEF CloseArtifact, AskCleanup, CancelAsking, Counted, OnlyArtifactsUi
    <2>4. CASE HandleDelete \/ HandleCleanup
        BY <2>1, <2>4 DEF HandleDelete, HandleCleanup, Counted
    <2>5. ASSUME NEW c \in calls, CleanupHandled(c) PROVE Stands /\ Counted /\ writes' = writes
        BY <2>1, <2>5 DEF CleanupHandled, Counted
    <2> QED BY <2>2, <2>3, <2>4, <2>5 DEF Artifacts
<1>2. UiOK'
    <2>1. CASE page = "artifacts"
        BY <1>1, <2>1, PlainPage DEF Stands
    <2>2. CASE page # "artifacts"
        <3>1. ui' = ui
            BY <2>2 DEF Artifacts, SelectArtifact, AskDelete, HandleMergeCheckpoint, CloseArtifact,
                        AskCleanup, CancelAsking, HandleDelete, HandleCleanup, CleanupHandled,
                        ArtifactsFree, OnArtifacts
        <3> QED BY <1>1, <3>1, StandsKeeps
    <2> QED BY <2>1, <2>2
<1>3. TablesOK'
    <2>0. TablesOK /\ Listed("artifacts") \subseteq Rows /\ Rows \subseteq 0 .. MaxRows
        BY ListedFits DEF RestOK, Rows, Tabled, TableAssumption
    <2>1. ASSUME NEW r \in Rows, HandleMergeCheckpoint(r) PROVE TablesOK'
        <3>1. "merge" \in Kinds /\ "merge" \notin DOMAIN RemovesFrom
            BY KindsAre
        <3> QED BY <2>0, <2>1, <3>1, CallSent DEF HandleMergeCheckpoint
    <2>2. ASSUME UNCHANGED tableVars PROVE TablesOK'
        BY <2>2, RestKept
    <2>3. CASE HandleDelete
        <3> DEFINE c == [kind |-> "erase", row |-> ui.asking, watched |-> TRUE, phase |-> "sent"]
        <3>1. ui.asking \in Rows
            BY <2>0, <2>3 DEF HandleDelete
        <3>2. "erase" \in Kinds
            BY KindsAre
        <3>3. CallOK(c)
            BY <2>0, <3>1, <3>2 DEF CallOK, Calls, Phases
        <3>4. calls' \subseteq calls \cup {c} /\ UNCHANGED <<tables, lists, told>>
            BY <2>3 DEF HandleDelete
        <3> HIDE DEF c
        <3> QED BY <2>0, <3>3, <3>4, CallAdded
    <2>4. CASE HandleCleanup
        <3> DEFINE c == [kind |-> "cleanup", row |-> 0, watched |-> TRUE, phase |-> "sent"]
        <3>1. "cleanup" \in Kinds /\ "cleanup" \notin DOMAIN RemovesFrom /\ 0 \in 0 .. MaxRows
            BY KindsAre DEF TableAssumption
        <3>2. CallOK(c)
            BY <3>1 DEF CallOK, Calls, Phases
        <3>3. calls' \subseteq calls \cup {c} /\ UNCHANGED <<tables, lists, told>>
            BY <2>4 DEF HandleCleanup
        <3> HIDE DEF c
        <3> QED BY <2>0, <3>2, <3>3, CallAdded
    <2>5. ASSUME NEW c \in calls, CleanupHandled(c) PROVE TablesOK'
        <3>1. CallOK(c) /\ lists' = lists
            BY <2>0, <2>5 DEF TablesOK, CleanupHandled
        <3>2. PICK phase \in {"ok", "failed"} : calls' = Replaced(calls, c, [c EXCEPT !.phase = phase])
            BY <2>5 DEF CleanupHandled
        <3> DEFINE d == [c EXCEPT !.phase = phase]
        <3>3. CallOK(d)
            BY <3>1, CallMoves DEF Phases
        <3>4. \A e \in calls' : CallOK(e)
            <4> HIDE DEF d
            <4>1. calls' = Replaced(calls, c, d)
                BY <3>2 DEF d
            <4> QED BY <2>0, <3>3, <4>1 DEF Replaced, TablesOK
        <3> DEFINE kept == RetainedOf(tables["artifacts"])
        <3>5. kept \subseteq tables["artifacts"]
            BY DEF RetainedOf, RetainedLast
        <3>6. tables \in [Tabled -> SUBSET Rows] /\ "artifacts" \in Tabled
            BY <2>0 DEF TablesOK, Tabled
        <3>7. \/ UNCHANGED <<tables, told>>
              \/ /\ tables' = [tables EXCEPT !["artifacts"] = kept]
                 /\ told' = {n \in told : n[1] # "artifacts" \/ n[3] \in kept}
            BY <2>5 DEF CleanupHandled
        <3> HIDE DEF kept
        <3>8. tables' \in [Tabled -> SUBSET Rows] /\ told' \subseteq told
            BY <3>5, <3>6, <3>7
        <3>9. \A n \in told' : n[3] \in tables'[n[1]] <=> n[3] \in tables[n[1]]
            <4> TAKE n \in told'
            <4>1. n \in told /\ n[1] \in Tabled
                BY <2>0, <3>8 DEF TablesOK
            <4>2. CASE n[1] # "artifacts"
                BY <3>6, <3>7, <4>1, <4>2
            <4>3. CASE n[1] = "artifacts"
                BY <3>5, <3>6, <3>7, <4>1, <4>3
            <4> QED BY <4>2, <4>3
        <3> QED BY <2>0, <3>1, <3>4, <3>8, <3>9, RowsChange
    <2>6. CASE CloseArtifact \/ AskCleanup \/ CancelAsking
        BY <2>2, <2>6 DEF CloseArtifact, AskCleanup, CancelAsking, OnlyArtifactsUi
    <2>7. ASSUME NEW r \in Rows, SelectArtifact(r) \/ AskDelete(r) PROVE TablesOK'
        BY <2>2, <2>7 DEF SelectArtifact, AskDelete, OnlyArtifactsUi
    <2> QED BY <2>1, <2>3, <2>4, <2>5, <2>6, <2>7 DEF Artifacts
<1> QED BY <1>1, <1>2, <1>3, ListPageKeeps

LEMMA ProjectListKeeps ==
    ASSUME FrontOK, RestOK, ProjectList, UNCHANGED ownVars PROVE FrontOK' /\ RestOK'
<1>0. TablesOK /\ Listed("projects") \subseteq Rows /\ Rows \subseteq 0 .. MaxRows
    BY ListedFits DEF RestOK, Rows, Tabled, TableAssumption
<1>1. ASSUME ProjectsRest PROVE Stands /\ writes' = writes
    BY <1>1 DEF ProjectsRest, Stands, configVars
<1>2. ASSUME OnlyProjectsUi PROVE Stands /\ writes' = writes /\ TablesOK'
    BY <1>1, <1>2, RestKept DEF OnlyProjectsUi
<1>3. page = "projects" /\ Stands /\ Counted /\ writes' = writes /\ TablesOK'
    <2>1. ASSUME NEW r \in Rows, HandleSelectProject(r) \/ AskDeleteProject(r)
          PROVE  page = "projects" /\ Stands /\ Counted /\ writes' = writes /\ TablesOK'
        BY <1>2, <2>1 DEF HandleSelectProject, AskDeleteProject, ProjectsFree, OnProjects, Counted
    <2>2. CASE CloseDetail \/ OpenCreate
        BY <1>2, <2>2 DEF CloseDetail, OpenCreate, ProjectsFree, OnProjects, Counted
    <2>3. CASE TypeName \/ DismissCreate \/ CancelCreate \/ CancelDelete
        BY <1>2, <2>3 DEF TypeName, DismissCreate, CancelCreate, CancelDelete, OnProjects, Counted
    <2>4. CASE HandleCreateProject \/ HandleImport
        <3>1. "create" \in Kinds /\ "create" \notin DOMAIN RemovesFrom
              /\ 0 \in 0 .. MaxRows /\ 1 \in 0 .. MaxRows
            BY KindsAre DEF TableAssumption
        <3>2. page = "projects" /\ Stands /\ writes' = writes
            BY <1>1, <2>4 DEF HandleCreateProject, HandleImport, ProjectsFree, OnProjects
        <3>3. PICK row \in {0, 1} : Send("create", row)
            BY <2>4 DEF HandleCreateProject, HandleImport
        <3>4. TablesOK' /\ Counted
            BY <1>0, <3>1, <3>3, CallSent
        <3> QED BY <3>2, <3>4
    <2>5. CASE HandleDeleteConfirm
        <3> DEFINE was == ui.selected = ui.pendingDelete
        <3> DEFINE c == [kind |-> "remove", row |-> ui.pendingDelete, watched |-> TRUE,
                         phase |-> "sent", wasSelected |-> was]
        <3>1. ui.pendingDelete \in Rows /\ was \in BOOLEAN
            BY <1>0, <2>5 DEF HandleDeleteConfirm, DeleteOpen
        <3>2. calls' \subseteq calls \cup {c} /\ UNCHANGED <<tables, lists, told>>
            BY <2>5 DEF HandleDeleteConfirm
        <3>3. "remove" \in Kinds
            BY KindsAre
        <3> HIDE DEF was
        <3>4. CallOK(c)
            BY <1>0, <3>1, <3>3 DEF CallOK, Calls, Phases
        <3> HIDE DEF c
        <3>5. TablesOK'
            BY <1>0, <3>2, <3>4, CallAdded
        <3> QED BY <1>1, <2>5, <3>5 DEF HandleDeleteConfirm, OnProjects, Counted
    <2> QED BY <2>1, <2>2, <2>3, <2>4, <2>5 DEF ProjectList
<1>4. UiOK'
    BY <1>3, PlainPage DEF Stands
<1> QED BY <1>3, <1>4, ListPageKeeps

\* a request for a section that is sent from the page in front
LEMMA WriteSent ==
    ASSUME FrontOK, NEW by \in {"model", "dataset", "ingest", "accept"},
           by = "ingest" => page = "datasets", NEW section \in Sections,
           NEW value \in Values, NEW row \in 0 .. MaxRows, by = "accept" => row \in Rows,
           NEW ratios \in SplitRatios, NEW w,
           w = [project |-> activeProject, owner |-> activeProject, by |-> by,
                watched |-> TRUE, phase |-> "sent", section |-> section, value |-> value,
                row |-> row, ratios |-> ratios]
    PROVE  WriteOK(w)
<1>1. activeProject \in Projects
    BY DEF FrontOK, PlaceOK
<1>2. w \in WriteRequests
    BY <1>1 DEF WriteRequests, Phases
<1>3. w.by = by /\ w.row = row
    OBVIOUS
<1> QED BY <1>2, <1>3 DEF WriteOK

LEMMA NoRatiosFit == NoRatios \in SplitRatios /\ 0 \in 0 .. MaxRows
BY DEF NoRatios, SplitRatios, Unset, TableAssumption

\* the writes of a page change, the lists and the configuration stay
LEMMA PageWrites ==
    ASSUME FrontOK, Stands, Counted, NEW w, WriteOK(w), writes' \subseteq writes \cup {w}
    PROVE  WritesOK'
<1>1. \A v : WriteOK(v) => WriteOK(v)'
    BY StandsKeeps
<1> QED BY <1>1 DEF FrontOK, WritesOK

LEMMA FewerWrites ==
    ASSUME FrontOK, Stands, Counted, writes' \subseteq writes PROVE WritesOK'
<1>1. \A v : WriteOK(v) => WriteOK(v)'
    BY StandsKeeps
<1> QED BY <1>1 DEF FrontOK, WritesOK

LEMMA ModelsKeep ==
    ASSUME FrontOK, RestOK, Models, UNCHANGED <<serveVars, datasetVars, ruleVars, voiceVars, archs>>
    PROVE  FrontOK' /\ RestOK'
<1>0. /\ TablesOK /\ ModelOK /\ activeProject \in Projects /\ Rows \subseteq 0 .. MaxRows
      /\ Listed("merged") \subseteq Rows /\ 0 \in 0 .. MaxRows
    BY ListedFits DEF RestOK, FrontOK, PlaceOK, Rows, Tabled, TableAssumption
<1>1. ASSUME KeepServer PROVE Stands
    BY <1>1 DEF KeepServer, Stands, configVars
<1>2. ASSUME Stands, Counted, writes' = writes, UiOK', TablesOK', ModelOK'
      PROVE  FrontOK' /\ RestOK'
    BY <1>2, StandsKeeps, RestKept DEF FrontOK, RestOK, Stands
<1>3. ASSUME UNCHANGED tableVars PROVE TablesOK'
    BY <1>3, RestKept
<1>4. ASSUME UNCHANGED modelVars PROVE ModelOK'
    BY <1>4, RestKept
<1>5. page = "models" => ModelsUiOK
    BY DEF FrontOK, UiOK
<1>6. ASSUME page = "models", OnlyModelsUi, Counted, ModelsUiOK' PROVE FrontOK' /\ RestOK'
    <2>1. Stands /\ writes' = writes /\ TablesOK' /\ ModelOK'
        BY <1>1, <1>3, <1>4, <1>6 DEF OnlyModelsUi, KeepWrites
    <2>2. UiOK'
        BY <1>6, <2>1, OnePage DEF Stands
    <2> QED BY <1>2, <1>6, <2>1, <2>2
<1>7. ASSUME NEW kind \in Kinds, NEW row \in 0 .. MaxRows, Send(kind, row), kind # "rules",
             kind \in DOMAIN RemovesFrom => row \in Rows, KeepWrites, UNCHANGED <<ui, modelVars>>
      PROVE  FrontOK' /\ RestOK'
    <2>1. TablesOK' /\ Counted
        BY <1>0, <1>7, CallSent
    <2>2. Stands /\ writes' = writes /\ ModelOK'
        BY <1>1, <1>4, <1>7 DEF KeepWrites
    <2>3. UiOK'
        BY <1>7, <2>1, <2>2, StandsKeeps
    <2> QED BY <1>2, <2>1, <2>2, <2>3
<1>8. ASSUME NEW id \in Values, SetModelForm(id) PROVE FrontOK' /\ RestOK'
    <2>1. Stands /\ writes' = writes /\ Counted /\ ui' = ui /\ TablesOK'
        BY <1>1, <1>3, <1>8 DEF SetModelForm, KeepWrites, Counted
    <2>2. ModelOK'
        BY <1>0, <1>8 DEF SetModelForm, ModelOK, Refilled
    <2> QED BY <1>2, <2>1, <2>2, StandsKeeps
<1>9. CASE HandleResolveModel
    <2>1. Stands /\ Counted /\ ui' = ui /\ TablesOK' /\ ModelOK'
        BY <1>1, <1>3, <1>4, <1>9 DEF HandleResolveModel, Counted
    <2> DEFINE w == WriteRequest("model", "model", modelForm)
    <2>2. modelForm \in Values /\ "model" \in Sections
        BY <1>0, <1>9 DEF HandleResolveModel, ModelOK, Sections
    <2>3. WriteOK(w)
        BY <2>2, NoRatiosFit, WriteSent DEF WriteRequest
    <2>4. writes' \subseteq writes \cup {w}
        BY <1>9 DEF HandleResolveModel
    <2> HIDE DEF w
    <2>5. WritesOK'
        BY <2>1, <2>3, <2>4, PageWrites
    <2> QED BY <2>1, <2>5, StandsKeeps, RestKept DEF FrontOK, RestOK, Stands
<1>10. ASSUME NEW w \in writes, ModelResolved(w) PROVE FrontOK' /\ RestOK'
    <2>1. Stands /\ Counted /\ ui' = ui /\ TablesOK' /\ writes' \subseteq writes
        BY <1>1, <1>3, <1>10 DEF ModelResolved, Counted
    <2>2. w.value \in Values /\ w.project \in Projects
        BY DEF FrontOK, WritesOK, WriteOK, WriteRequests
    <2>3. profile' \in [Projects -> Values \cup {0}]
        BY <1>0, <1>10, <2>2 DEF ModelResolved, ModelOK
    <2>4. ModelOK'
        BY <1>0, <1>10, <2>2, <2>3 DEF ModelResolved, ModelOK
    <2>5. WritesOK'
        BY <2>1, FewerWrites
    <2> QED BY <2>1, <2>4, <2>5, StandsKeeps, RestKept DEF FrontOK, RestOK, Stands
<1>11. CASE OpenRegister \/ TypeDraft \/ CloseRegister
    <2>1. page = "models" /\ OnlyModelsUi /\ Counted
        BY <1>11 DEF OpenRegister, TypeDraft, CloseRegister, OnModels, Counted
    <2>2. PICK r \in {"closed", "empty", "typed"} : ui' = [ui EXCEPT !.register = r]
        BY <1>11 DEF OpenRegister, TypeDraft, CloseRegister
    <2>3. ModelsUiOK'
        BY <1>5, <2>1, <2>2 DEF ModelsUiOK
    <2> QED BY <1>6, <2>1, <2>3
<1>12. CASE HandleRegister
    <2>1. "register" \in Kinds /\ "register" \notin DOMAIN RemovesFrom
        BY KindsAre
    <2> QED BY <1>0, <1>7, <1>12, <2>1 DEF HandleRegister
<1>13. CASE HandleOpenMergeDialog
    <2>1. page = "models" /\ OnlyModelsUi /\ Counted
        BY <1>13 DEF HandleOpenMergeDialog, OnModels, Counted
    <2> PICK r : r = Min(MergeableRuns)
        OBVIOUS
    <2>2. r \in Rows
        <3>1. 1 \in Rows
            BY DEF Rows, TableAssumption
        <3> QED BY <3>1, MinFits DEF MergeableRuns
    <2>3. ui' = [ui EXCEPT !.merging = TRUE, !.mergeRun = r]
        BY <1>13 DEF HandleOpenMergeDialog
    <2>4. ModelsUiOK'
        BY <1>0, <1>5, <2>1, <2>2, <2>3 DEF ModelsUiOK
    <2> QED BY <1>6, <2>1, <2>4
<1>14. ASSUME NEW r \in Rows, SelectMergeRun(r) PROVE FrontOK' /\ RestOK'
    <2>1. page = "models" /\ OnlyModelsUi /\ Counted
        BY <1>14 DEF SelectMergeRun, Counted
    <2>2. ModelsUiOK'
        BY <1>0, <1>5, <1>14, <2>1 DEF ModelsUiOK, SelectMergeRun
    <2> QED BY <1>6, <2>1, <2>2
<1>15. CASE CloseMergeDialog
    <2>1. page = "models" /\ OnlyModelsUi /\ Counted
        BY <1>15 DEF CloseMergeDialog, Counted
    <2>2. ModelsUiOK'
        BY <1>5, <1>15, <2>1 DEF ModelsUiOK, CloseMergeDialog
    <2> QED BY <1>6, <2>1, <2>2
<1>16. CASE HandleConfirmMerge
    <2>1. "merge" \in Kinds /\ "merge" \notin DOMAIN RemovesFrom
        BY KindsAre
    <2>2. ui.mergeRun \in 0 .. MaxRows
        BY <1>5, <1>16 DEF HandleConfirmMerge, ModelsUiOK
    <2> QED BY <1>0, <1>7, <1>16, <2>1, <2>2 DEF HandleConfirmMerge
<1>17. ASSUME NEW r \in Rows, HandleDeleteMerged(r) PROVE FrontOK' /\ RestOK'
    <2>1. "unmerge" \in Kinds
        BY KindsAre
    <2> QED BY <1>0, <1>7, <1>17, <2>1 DEF HandleDeleteMerged
<1> QED BY <1>8, <1>9, <1>10, <1>11, <1>12, <1>13, <1>14, <1>15, <1>16, <1>17 DEF Models

-----------------------------------------------------------------------------
(* Serving a model, and the pages that only draw. *)

LEMMA ServingKeeps ==
    ASSUME FrontOK, RestOK, ServingNext,
           UNCHANGED <<tableVars, modelVars, datasetVars, ruleVars, voiceVars, archs>>
    PROVE  FrontOK' /\ RestOK'
<1>1. Stands /\ Counted /\ UNCHANGED <<writes, ui>>
    <2>1. ASSUME ServeRest PROVE Stands /\ UNCHANGED <<writes, ui>>
        BY <2>1 DEF ServeRest, Stands, configVars, requestVars
    <2> QED BY <2>1 DEF ServingNext, ConversionFails, BeginServing, ServingReady,
                        StopServing, ServingAnswered, SubprocessDies, PollStatus, StatusAnswered, ClickServing, Counted
<1>2. /\ serve \in [Projects -> {"none", "alive", "dead"}]
      /\ lockHolder \subseteq Projects /\ serveQuery \in [Projects -> Entry(ServingStates)]
      /\ \A c \in serveCalls : c \in ServeCalls
    BY DEF RestOK, ServingOK
<1>3. Evicted \in [Projects -> {"none", "alive", "dead"}]
    BY <1>2 DEF Evicted
<1>4. ASSUME NEW c \in serveCalls, NEW phase \in Phases,
             serveCalls' = Replaced(serveCalls, c, [c EXCEPT !.phase = phase])
      PROVE  \A d \in serveCalls' : d \in ServeCalls
    <2> DEFINE d == [c EXCEPT !.phase = phase]
    <2>1. d \in ServeCalls
        BY <1>2 DEF ServeCalls
    <2> HIDE DEF d
    <2>2. serveCalls' = Replaced(serveCalls, c, d)
        BY <1>4 DEF d
    <2> QED BY <1>2, <2>1, <2>2 DEF Replaced
<1>5. ServingOK'
    <2>1. ASSUME NEW c \in serveCalls, BeginServing(c) PROVE ServingOK'
        <3>1. c.project \in Projects
            BY <1>2 DEF ServeCalls
        <3>2. PICK phase \in Phases : serveCalls' = Replaced(serveCalls, c, [c EXCEPT !.phase = phase])
            BY <2>1 DEF BeginServing, Phases
        <3>3. \A d \in serveCalls' : d \in ServeCalls
            BY <1>4, <3>2
        <3>4. /\ serve' \in [Projects -> {"none", "alive", "dead"}]
              /\ lockHolder' \subseteq Projects /\ serveQuery' = serveQuery
            BY <1>2, <1>3, <2>1, <3>1 DEF BeginServing
        <3> QED BY <1>2, <3>3, <3>4 DEF ServingOK
    <2>2. ASSUME NEW c \in serveCalls, ConversionFails(c) \/ ServingReady(c) \/ StopServing(c)
          PROVE  ServingOK'
        <3>1. PICK phase \in Phases : serveCalls' = Replaced(serveCalls, c, [c EXCEPT !.phase = phase])
            BY <2>2 DEF ConversionFails, ServingReady, StopServing, Phases
        <3>2. \A d \in serveCalls' : d \in ServeCalls
            BY <1>4, <3>1
        <3>3. /\ serve' \in [Projects -> {"none", "alive", "dead"}]
              /\ lockHolder' \subseteq Projects /\ serveQuery' = serveQuery
            BY <1>2, <2>2 DEF ConversionFails, ServingReady, StopServing
        <3> QED BY <1>2, <3>2, <3>3 DEF ServingOK
    <2>3. ASSUME NEW p \in Projects, SubprocessDies(p) PROVE ServingOK'
        BY <1>2, <2>3 DEF SubprocessDies, ServingOK
    <2>4. ASSUME NEW p \in Projects, PollStatus(p) PROVE ServingOK'
        <3> PICK state : state = GetStatus(p).state
            OBVIOUS
        <3>1. state \in ServingStates /\ GetStatus(p).serve \in [Projects -> {"none", "alive", "dead"}]
            BY <1>2 DEF GetStatus, ServingStates
        <3> PICK e : e = Asked(serveQuery[p], state)
            OBVIOUS
        <3>2. e \in Entry(ServingStates)
            BY <1>2, <3>1, EntryAsked
        <3>3. serveQuery' = [serveQuery EXCEPT ![p] = e]
            BY <2>4 DEF PollStatus
        <3>4. serveQuery' \in [Projects -> Entry(ServingStates)]
            BY <1>2, <3>2, <3>3
        <3> QED BY <1>2, <2>4, <3>1, <3>4 DEF PollStatus, ServingOK
    <2>5. ASSUME NEW p \in Projects, StatusAnswered(p) PROVE ServingOK'
        <3>1. Answered(serveQuery[p]) \in Entry(ServingStates)
            BY <1>2, EntryAnswered
        <3>2. serveQuery' \in [Projects -> Entry(ServingStates)]
            BY <1>2, <2>5, <3>1 DEF StatusAnswered
        <3> QED BY <1>2, <2>5, <3>2 DEF StatusAnswered, ServingOK
    <2>6. ASSUME NEW kind \in {"start", "stop"}, ClickServing(kind) PROVE ServingOK'
        <3> DEFINE c == [kind |-> kind, project |-> activeProject, watched |-> TRUE, phase |-> "sent"]
        <3>1. c \in ServeCalls
            BY DEF ServeCalls, Phases, FrontOK, PlaceOK
        <3>2. serveCalls' = serveCalls \cup {c} /\ UNCHANGED <<serve, lockHolder, serveQuery>>
            BY <2>6 DEF ClickServing
        <3> HIDE DEF c
        <3> QED BY <1>2, <3>1, <3>2 DEF ServingOK
    <2>7. ASSUME NEW c \in serveCalls, ServingAnswered(c) PROVE ServingOK'
        <3> PICK p : p = c.project
            OBVIOUS
        <3>1. p \in Projects
            BY <1>2 DEF ServeCalls
        <3> DEFINE shown == OnServing /\ activeProject = p
        <3> DEFINE e == Invalidated(serveQuery[p], shown)
        <3>2. e \in Entry(ServingStates)
            <4> HIDE DEF shown
            <4> QED BY <1>2, <3>1, EntryInvalidated
        <3>3. serveQuery' = serveQuery \/ serveQuery' = [serveQuery EXCEPT ![p] = e]
            BY <2>7 DEF ServingAnswered
        <3> HIDE DEF e
        <3>4. serveQuery' \in [Projects -> Entry(ServingStates)]
            BY <1>2, <3>1, <3>2, <3>3
        <3>5. serveCalls' \subseteq serveCalls /\ UNCHANGED <<serve, lockHolder>>
            BY <2>7 DEF ServingAnswered
        <3> QED BY <1>2, <3>4, <3>5 DEF ServingOK
    <2> QED BY <2>1, <2>2, <2>3, <2>4, <2>5, <2>6, <2>7 DEF ServingNext
<1> QED BY <1>1, <1>5, StandsKeeps, RestKept DEF FrontOK, RestOK, Stands

-----------------------------------------------------------------------------
(* The datasets page. *)

LEMMA SplitsFit ==
    /\ NaturalSplits \subseteq SplitRatios
    /\ DefaultDatasetForm.ratios \in SplitRatios
<1>1. ASSUME NEW r \in NaturalSplits PROVE r \in SplitRatios
    BY DEF NaturalSplits, SplitRatios, SplitFields, Unset
<1>2. DefaultDatasetForm.ratios \in SplitRatios
    BY DEF DefaultDatasetForm, SplitRatios, SplitFields, Unset
<1> QED BY <1>1, <1>2

LEMMA RatiosEntered ==
    ASSUME NEW ratios \in SplitRatios, NEW field \in SplitFields, NEW entered \in Ratios
    PROVE  HandleRatioChange(ratios, field, entered) \in SplitRatios
<1> DEFINE next == [ratios EXCEPT ![field] = entered]
<1> DEFINE left(a, b) == Clamp(100 - next[a] - next[b])
<1>1. next \in SplitRatios
    BY DEF SplitRatios, Ratios, PercentsAssumption
<1> HIDE DEF next
<1>2. \A f \in SplitFields : next[f] \in Int
    BY <1>1 DEF SplitRatios, Unset
<1>3. \A a, b \in SplitFields : left(a, b) \in 0 .. 100
    BY <1>2 DEF Clamp
<1>4. \A f \in SplitFields, n \in 0 .. 100 : [next EXCEPT ![f] = n] \in SplitRatios
    BY <1>1 DEF SplitRatios
<1>5. {"train", "val", "test"} = SplitFields
    BY DEF SplitFields
<1>6. HandleRatioChange(ratios, field, entered) \in
        {next, [next EXCEPT !["test"] = left("train", "val")],
         [next EXCEPT !["val"] = left("train", "test")],
         [next EXCEPT !["train"] = left("val", "test")]}
    BY DEF HandleRatioChange, next
<1> HIDE DEF left
<1> QED BY <1>1, <1>3, <1>4, <1>5, <1>6

LEMMA SplitsAccepted ==
    ASSUME NEW r \in SplitRatios
    PROVE  /\ ToSanitizeSplitRatios(r) \in Splits
           /\ RatiosAccepted(ToSanitizeSplitRatios(r))
<1> DEFINE part(f) == IF r[f] = Unset THEN 0 ELSE r[f]
<1> DEFINE total == part("train") + part("val") + part("test")
<1>1. \A f \in SplitFields : part(f) \in Int
    BY DEF SplitRatios, Unset
<1>2. part("train") \in Int /\ part("val") \in Int /\ part("test") \in Int
    BY <1>1 DEF SplitFields
<1>3. CASE total <= 0
    BY <1>3 DEF ToSanitizeSplitRatios, RatiosAccepted, Splits
<1>4. CASE ~(total <= 0)
    BY <1>2, <1>4 DEF ToSanitizeSplitRatios, RatiosAccepted, Splits
<1> QED BY <1>3, <1>4

\* a request goes on, or its page is left
LEMMA SanitizeMoves ==
    ASSUME NEW s, SanitizeOK(s)
    PROVE  /\ \A phase \in Phases : SanitizeOK([s EXCEPT !.phase = phase])
           /\ SanitizeOK([s EXCEPT !.watched = FALSE])
BY DEF SanitizeOK, SanitizeRequests

LEMMA FormFilled ==
    ASSUME NEW form \in DatasetForms, NEW e \in Entry(Values \cup {0})
    PROVE  FilledForm(form, e) \in DatasetForms
<1>1. DataOr(e, 0) \in Values \cup {0}
    BY DataOrFits
<1> HIDE DEF Values
<1> QED BY <1>1 DEF FilledForm, DatasetForms

\* a request for a dataset: with the splits of the form, or with none
LEMMA ResolveSent ==
    ASSUME FrontOK, NEW by \in {"dataset", "ingest"}, by = "ingest" => page = "datasets",
           NEW id \in Values, NEW ratios \in SplitRatios
    PROVE  WriteOK(ResolveRequest(by, id, ratios))
<1> DEFINE w == WriteRequest(by, "dataset", id)
<1>1. "dataset" \in Sections
    BY DEF Sections
<1>2. WriteOK(w)
    BY <1>1, NoRatiosFit, WriteSent DEF WriteRequest
<1> HIDE DEF w
<1>3. WriteOK([w EXCEPT !.ratios = ratios])
    BY <1>2 DEF WriteOK, WriteRequests
<1> QED BY <1>3 DEF ResolveRequest, w

LEMMA ResolvedKeeps ==
    ASSUME FrontOK, DatasetsOK, NEW w \in writes, DatasetResolved(w)
    PROVE  DatasetsOK' /\ UiOK'
<1>1. WriteOK(w) /\ w \in WriteRequests
    BY DEF FrontOK, WritesOK, WriteOK
<1>2. /\ w.value \in Values /\ w.owner \in Projects /\ w.ratios \in SplitRatios
      /\ activeProject \in Projects
    BY <1>1 DEF WriteRequests, FrontOK, PlaceOK
<1>3. Stands /\ Counted /\ sanitizes' = sanitizes
    BY DEF DatasetResolved, DatasetsRest, Stands, configVars, Counted
<1>4. datasetForm \in DatasetForms /\ datasetProfile \in [Projects -> Entry(Values \cup {0})]
    BY DEF DatasetsOK
<1>5. datasetProfile' \in [Projects -> Entry(Values \cup {0})]
    <2>1. CASE datasetProfile' = datasetProfile
        BY <1>4, <2>1
    <2>2. CASE datasetProfile' = [datasetProfile EXCEPT ![w.owner].data = {w.value},
                                                        ![w.owner].stale = FALSE]
        <3> PICK o : o = w.owner
            OBVIOUS
        <3> PICK v : v = w.value
            OBVIOUS
        <3> DEFINE e == [[datasetProfile[o] EXCEPT !.data = {v}] EXCEPT !.stale = FALSE]
        <3>1. datasetProfile[o] \in Entry(Values \cup {0}) /\ v \in Values /\ o \in Projects
            BY <1>2, <1>4
        <3>2. e \in Entry(Values \cup {0})
            BY <3>1 DEF Entry
        <3>3. datasetProfile' = [datasetProfile EXCEPT ![o] = e]
            BY <1>4, <2>2, <3>1
        <3> HIDE DEF e
        <3> QED BY <1>4, <3>1, <3>2, <3>3
    <2> QED BY <2>1, <2>2 DEF DatasetResolved
<1>6. datasetForm' \in DatasetForms
    <2> DEFINE splits == IF w.ratios.train = Unset THEN NaturalSplits ELSE {w.ratios}
    <2> DEFINE forms == {[datasetForm EXCEPT !.ratios = s] : s \in splits} \cup {datasetForm}
    <2>1. splits \subseteq SplitRatios
        BY <1>2, SplitsFit
    <2> HIDE DEF splits
    <2>2. \A s \in SplitRatios : [datasetForm EXCEPT !.ratios = s] \in DatasetForms
        BY <1>4 DEF DatasetForms
    <2>3. forms \subseteq DatasetForms
        BY <1>4, <2>1, <2>2
    <2>4. PICK form \in forms :
            datasetForm' = IF OnDatasets THEN FilledForm(form, datasetProfile'[activeProject])
                           ELSE form
        BY DEF DatasetResolved, splits
    <2> HIDE DEF forms
    <2> PICK e : e = datasetProfile'[activeProject]
        OBVIOUS
    <2>5. form \in DatasetForms /\ e \in Entry(Values \cup {0})
        BY <1>2, <1>5, <2>3, <2>4
    <2> QED BY <2>4, <2>5, FormFilled
<1>7. DatasetsOK'
    BY <1>3, <1>5, <1>6 DEF DatasetsOK
<1>8. UiOK'
    <2>1. CASE ui' = ui
        BY <1>3, <2>1, StandsKeeps
    <2>2. CASE ui' # ui
        <3>1. /\ w.watched /\ w.by = "ingest"
              /\ ui' = [ui EXCEPT !.dialog = "none", !.draft = 0]
            BY <2>2 DEF DatasetResolved
        <3>2. page = "datasets"
            BY <1>1, <3>1 DEF WriteOK
        <3>3. DatasetsUiOK'
            BY <3>1, <3>2 DEF FrontOK, UiOK, DatasetsUiOK
        <3> QED BY <1>3, <3>2, <3>3, OnePage DEF Stands
    <2> QED BY <2>1, <2>2
<1> QED BY <1>7, <1>8

LEMMA DatasetsKeep ==
    ASSUME FrontOK, RestOK, Datasets,
           UNCHANGED <<tableVars, modelVars, serveVars, ruleVars, voiceVars, archs>>
    PROVE  FrontOK' /\ RestOK'
<1>0. /\ DatasetsOK /\ datasetForm \in DatasetForms /\ activeProject \in Projects
      /\ datasetProfile \in [Projects -> Entry(Values \cup {0})]
      /\ page = "datasets" => DatasetsUiOK
    BY DEF RestOK, DatasetsOK, FrontOK, PlaceOK, UiOK
<1>1. ASSUME DatasetsRest PROVE Stands
    BY <1>1 DEF DatasetsRest, Stands, configVars
<1>2. ASSUME Stands, Counted, WritesOK', UiOK', DatasetsOK' PROVE FrontOK' /\ RestOK'
    BY <1>2, StandsKeeps, RestKept DEF FrontOK, RestOK, Stands
<1>3. ASSUME Stands, Counted, UNCHANGED <<writes, ui>>, DatasetsOK' PROVE FrontOK' /\ RestOK'
    BY <1>2, <1>3, StandsKeeps
<1>4. ASSUME OnlyForm, Counted, datasetForm' \in DatasetForms PROVE FrontOK' /\ RestOK'
    <2>1. Stands /\ UNCHANGED <<writes, ui>>
        BY <1>1, <1>4 DEF OnlyForm
    <2>2. DatasetsOK'
        BY <1>0, <1>4 DEF DatasetsOK, OnlyForm
    <2> QED BY <1>3, <1>4, <2>1, <2>2
<1>5. ASSUME DatasetsRest, Counted, UNCHANGED <<writes, datasetVars>>, page = "datasets",
             DatasetsUiOK'
      PROVE  FrontOK' /\ RestOK'
    <2>1. Stands /\ DatasetsOK'
        BY <1>1, <1>5, RestKept
    <2>2. UiOK' /\ WritesOK'
        BY <1>5, <2>1, OnePage, StandsKeeps DEF Stands
    <2> QED BY <1>2, <1>5, <2>1, <2>2
<1>6. ASSUME NEW f \in SplitFields, NEW n \in Ratios, EnterRatio(f, n)
      PROVE  FrontOK' /\ RestOK'
    <2> PICK ratios : ratios = HandleRatioChange(datasetForm.ratios, f, n)
        OBVIOUS
    <2>1. ratios \in SplitRatios
        <3>1. datasetForm.ratios \in SplitRatios
            BY <1>0 DEF DatasetForms
        <3> QED BY <3>1, RatiosEntered
    <2>2. datasetForm' = [datasetForm EXCEPT !.ratios = ratios]
        BY <1>0, <1>6 DEF EnterRatio, DatasetForms
    <2>3. datasetForm' \in DatasetForms
        BY <1>0, <2>1, <2>2 DEF DatasetForms
    <2> QED BY <1>4, <1>6, <2>3 DEF EnterRatio, Counted
<1>7. ASSUME NEW id \in Values \cup {0}, SetDataset(id) PROVE FrontOK' /\ RestOK'
    <2> DEFINE form == [datasetForm EXCEPT !.id = id]
    <2>1. form \in DatasetForms
        BY <1>0 DEF DatasetForms
    <2> HIDE DEF form
    <2>2. FilledForm(form, datasetProfile[activeProject]) \in DatasetForms
        BY <1>0, <2>1, FormFilled
    <2>3. datasetForm' \in DatasetForms
        BY <1>7, <2>2 DEF SetDataset, form
    <2> QED BY <1>4, <1>7, <2>3 DEF SetDataset, Counted
<1>8. ASSUME NEW format \in {"default", "custom"}, SetFormat(format) PROVE FrontOK' /\ RestOK'
    <2>1. datasetForm' \in DatasetForms
        BY <1>0, <1>8 DEF SetFormat, DatasetForms
    <2> QED BY <1>4, <1>8, <2>1 DEF SetFormat, Counted
<1>9. CASE HandleResolve
    <2> PICK w : w = ResolveRequest("dataset", datasetForm.id, datasetForm.ratios)
        OBVIOUS
    <2>1. WriteOK(w)
        <3>1. datasetForm.id \in Values /\ datasetForm.ratios \in SplitRatios
            BY <1>0, <1>9 DEF HandleResolve, DatasetForms
        <3> QED BY <3>1, ResolveSent
    <2>2. Stands /\ Counted /\ ui' = ui /\ DatasetsOK' /\ writes' \subseteq writes \cup {w}
        BY <1>1, <1>9, RestKept DEF HandleResolve, Counted
    <2>3. WritesOK' /\ UiOK'
        BY <2>1, <2>2, PageWrites, StandsKeeps
    <2> QED BY <1>2, <2>2, <2>3
<1>10. CASE HandleIngestSubmit
    <2> PICK w : w = ResolveRequest("ingest", ui.draft, NoRatios)
        OBVIOUS
    <2>1. WriteOK(w)
        <3>1. ui.draft \in Values /\ page = "datasets"
            BY <1>0, <1>10 DEF HandleIngestSubmit, DatasetsUiOK
        <3> QED BY <3>1, ResolveSent, NoRatiosFit
    <2>2. Stands /\ Counted /\ ui' = ui /\ DatasetsOK' /\ writes' \subseteq writes \cup {w}
        BY <1>1, <1>10, RestKept DEF HandleIngestSubmit, Counted
    <2>3. WritesOK' /\ UiOK'
        BY <2>1, <2>2, PageWrites, StandsKeeps
    <2> QED BY <1>2, <2>2, <2>3
<1>11. ASSUME NEW dialog \in {"add", "validate", "inspect"}, OpenDatasetDialog(dialog)
       PROVE  FrontOK' /\ RestOK'
    <2>1. DatasetsUiOK' /\ page = "datasets"
        BY <1>0, <1>11 DEF OpenDatasetDialog, DatasetsUiOK, DatasetFree, OnDatasets
    <2> QED BY <1>5, <1>11, <2>1 DEF OpenDatasetDialog, Counted
<1>12. ASSUME NEW id \in Values \cup {0}, TypePath(id) PROVE FrontOK' /\ RestOK'
    <2>1. DatasetsUiOK' /\ page = "datasets"
        BY <1>0, <1>12 DEF TypePath, DatasetsUiOK
    <2> QED BY <1>5, <1>12, <2>1 DEF TypePath, Counted
<1>13. CASE CloseDatasetDialog
    <2>1. DatasetsUiOK' /\ page = "datasets"
        BY <1>0, <1>13 DEF CloseDatasetDialog, DatasetsUiOK
    <2> QED BY <1>5, <1>13, <2>1 DEF CloseDatasetDialog, Counted
<1>14. ASSUME NEW w \in writes, DatasetResolved(w) PROVE FrontOK' /\ RestOK'
    <2>1. Stands /\ Counted /\ writes' \subseteq writes
        BY <1>1, <1>14 DEF DatasetResolved, Counted
    <2>2. DatasetsOK' /\ UiOK'
        BY <1>0, <1>14, ResolvedKeeps
    <2> QED BY <1>2, <2>1, <2>2, FewerWrites
<1>15. ASSUME NEW p \in Projects, FetchProfile(p) PROVE FrontOK' /\ RestOK'
    <2>1. Stands /\ Counted /\ UNCHANGED <<writes, ui, datasetForm, sanitizes>>
        BY <1>1, <1>15 DEF FetchProfile, Counted
    <2> PICK e : e = Asked(datasetProfile[p], dataRows[p])
        OBVIOUS
    <2>2. e \in Entry(Values \cup {0})
        <3>1. dataRows[p] \in Values \cup {0}
            BY DEF FrontOK, CoreOK, ServerOK
        <3> QED BY <1>0, <3>1, EntryAsked
    <2>3. datasetProfile' = [datasetProfile EXCEPT ![p] = e]
        BY <1>15 DEF FetchProfile
    <2>4. DatasetsOK'
        BY <1>0, <2>1, <2>2, <2>3 DEF DatasetsOK
    <2> QED BY <1>3, <2>1, <2>4
<1>16. ASSUME NEW p \in Projects, ProfileAnswered(p) PROVE FrontOK' /\ RestOK'
    <2>1. Stands /\ Counted /\ UNCHANGED <<writes, ui, sanitizes>>
        BY <1>1, <1>16 DEF ProfileAnswered, Counted
    <2> PICK e : e = Answered(datasetProfile[p])
        OBVIOUS
    <2>2. e \in Entry(Values \cup {0})
        BY <1>0, EntryAnswered
    <2>3. datasetProfile' = [datasetProfile EXCEPT ![p] = e] /\ datasetProfile'[p] = e
        BY <1>0, <1>16 DEF ProfileAnswered
    <2>4. datasetForm' \in {datasetForm, FilledForm(datasetForm, e)}
        BY <1>16, <2>3 DEF ProfileAnswered
    <2>5. datasetForm' \in DatasetForms
        BY <1>0, <2>2, <2>4, FormFilled
    <2>6. DatasetsOK'
        BY <1>0, <2>1, <2>2, <2>3, <2>5 DEF DatasetsOK
    <2> QED BY <1>3, <2>1, <2>6
<1>17. CASE HandleSanitize
    <2>1. Stands /\ Counted /\ UNCHANGED <<writes, ui, datasetForm, datasetProfile>>
        BY <1>1, <1>17 DEF HandleSanitize, Counted
    <2> PICK ratios : ratios = ToSanitizeSplitRatios(datasetForm.ratios)
        OBVIOUS
    <2>2. RatiosAccepted(ratios) /\ ratios \in Splits
        BY <1>0, SplitsAccepted DEF DatasetForms
    <2>0. /\ activeProject \in Projects
          /\ ToSanitizeSourceFormat(datasetForm.format) \in {"default"}
        BY <1>0 DEF DatasetForms, ToSanitizeSourceFormat, FrontOK, PlaceOK
    <2> DEFINE s == [project |-> activeProject, watched |-> TRUE, phase |-> "sent",
                     ratios |-> ratios, format |-> ToSanitizeSourceFormat(datasetForm.format)]
    <2>3. sanitizes' = sanitizes \cup {s} /\ s.ratios = ratios
        BY <1>17 DEF HandleSanitize
    <2>5. SanitizeOK(s)
        BY <2>0, <2>2 DEF SanitizeOK, SanitizeRequests, Phases
    <2> HIDE DEF s
    <2>4. DatasetsOK'
        BY <1>0, <2>1, <2>3, <2>5 DEF DatasetsOK
    <2> QED BY <1>3, <2>1, <2>4
<1>18. ASSUME NEW s \in sanitizes, SanitizeHandled(s) PROVE FrontOK' /\ RestOK'
    <2>1. Stands /\ Counted /\ UNCHANGED <<writes, ui, datasetForm, datasetProfile>>
        BY <1>18 DEF SanitizeHandled, SanitizeDataset, Stands, Counted, configVars, requestVars
    <2>2. PICK phase \in {"ok", "failed"} :
            sanitizes' = Replaced(sanitizes, s, [s EXCEPT !.phase = phase])
        BY <1>18 DEF SanitizeHandled
    <2> DEFINE new == [s EXCEPT !.phase = phase]
    <2>3. sanitizes' \subseteq sanitizes \cup {new} /\ SanitizeOK(new)
        BY <1>0, <2>2, SanitizeMoves DEF Replaced, DatasetsOK, Phases
    <2> HIDE DEF new
    <2>4. DatasetsOK'
        BY <1>0, <2>1, <2>3 DEF DatasetsOK
    <2> QED BY <1>3, <2>1, <2>4
<1>19. ASSUME DatasetsRest, steps' = steps, UNCHANGED <<writes, ui, datasetForm, datasetProfile>>,
              sanitizes' \subseteq sanitizes
       PROVE  FrontOK' /\ RestOK'
    <2>1. DatasetsOK'
        BY <1>0, <1>19 DEF DatasetsOK
    <2> QED BY <1>1, <1>3, <1>19, <2>1 DEF Counted
<1>20. ASSUME NEW s \in sanitizes, SanitizeAnswered(s) PROVE FrontOK' /\ RestOK'
    BY <1>19, <1>20 DEF SanitizeAnswered
<1>21. ASSUME NEW p \in Projects, FetchSanitizeStatus(p) \/ SanitizeStatusAnswered(p)
       PROVE  FrontOK' /\ RestOK'
    BY <1>19, <1>21 DEF FetchSanitizeStatus, SanitizeStatusAnswered
<1> QED BY <1>6, <1>7, <1>8, <1>9, <1>10, <1>11, <1>12, <1>13, <1>14, <1>15, <1>16, <1>17,
           <1>18, <1>20, <1>21 DEF Datasets

-----------------------------------------------------------------------------
(* The suggestions page. *)

LEMMA SelectingFits ==
    ASSUME SuggestionsUiOK, NEW id \in 0 .. MaxRows PROVE Selecting(id) \in SuggestionsUis
<1> DEFINE same == id = ui.selected
<1>1. same \in BOOLEAN
    OBVIOUS
<1>2. Selecting(id) = [ui EXCEPT !.selected = id, !.chat = ui.chat /\ same,
                                 !.chatDraft = ui.chatDraft /\ same]
    BY DEF Selecting, SuggestionsUiOK, SuggestionsUis
<1> HIDE DEF same
<1> DEFINE chat == ui.chat /\ same
<1> DEFINE draft == ui.chatDraft /\ same
<1>3. chat \in BOOLEAN /\ draft \in BOOLEAN
    OBVIOUS
<1> HIDE DEF chat, draft
<1>4. Selecting(id) = [ui EXCEPT !.selected = id, !.chat = chat, !.chatDraft = draft]
    BY <1>2 DEF chat, draft
<1> QED BY <1>3, <1>4 DEF SuggestionsUiOK, SuggestionsUis

\* what the user does on the page, without a request
SuggestionClicks ==
    \/ \E r \in 0 .. 1 : SelectSource(r)
    \/ \E id \in Rows : SelectSuggestion(id)
    \/ ClearSelection \/ ToggleChat \/ TypeMessage \/ OpenRules \/ ToggleRule \/ CloseRules

LEMMA SuggestionClicksFit ==
    ASSUME UiOK, RulesOK, SuggestionClicks
    PROVE  page = "suggestions" /\ OnlySuggestionsUi /\ Counted /\ ui' \in SuggestionsUis
<1>0. page = "suggestions" => SuggestionsUiOK
    BY DEF UiOK
<1>1. ASSUME NEW r \in 0 .. 1, SelectSource(r)
      PROVE  page = "suggestions" /\ OnlySuggestionsUi /\ Counted /\ ui' \in SuggestionsUis
    <2>1. page = "suggestions" /\ OnlySuggestionsUi /\ Counted
        BY <1>1 DEF SelectSource, OnSuggestions, Counted
    <2>2. ui' = [ui EXCEPT !.run = r]
        BY <1>1 DEF SelectSource
    <2> QED BY <1>0, <2>1, <2>2 DEF SuggestionsUiOK, SuggestionsUis
<1>2. ASSUME NEW id \in Rows, SelectSuggestion(id)
      PROVE  page = "suggestions" /\ OnlySuggestionsUi /\ Counted /\ ui' \in SuggestionsUis
    <2>1. page = "suggestions" /\ OnlySuggestionsUi /\ Counted
        BY <1>2 DEF SelectSuggestion, OnSuggestions, Counted
    <2>2. id \in 0 .. MaxRows
        BY DEF Rows, TableAssumption
    <2> QED BY <1>0, <1>2, <2>1, <2>2, SelectingFits DEF SelectSuggestion
<1>3. CASE ClearSelection
    <2>1. page = "suggestions" /\ OnlySuggestionsUi /\ Counted
        BY <1>3 DEF ClearSelection, OnSuggestions, Counted
    <2>2. 0 \in 0 .. MaxRows
        BY DEF TableAssumption
    <2> QED BY <1>0, <1>3, <2>1, <2>2, SelectingFits DEF ClearSelection
<1>4. CASE ToggleChat
    <2>1. page = "suggestions" /\ OnlySuggestionsUi /\ Counted
        BY <1>4 DEF ToggleChat, OnSuggestions, Counted
    <2> PICK chat : chat = ~ui.chat
        OBVIOUS
    <2>2. chat \in BOOLEAN
        OBVIOUS
    <2>3. ui' = [ui EXCEPT !.chat = chat, !.chatDraft = FALSE]
        BY <1>4 DEF ToggleChat
    <2> QED BY <1>0, <2>1, <2>2, <2>3 DEF SuggestionsUiOK, SuggestionsUis
<1>5. CASE TypeMessage
    BY <1>0, <1>5 DEF TypeMessage, OnSuggestions, Counted, SuggestionsUiOK, SuggestionsUis
<1>6. CASE OpenRules
    BY <1>0, <1>6 DEF OpenRules, OnSuggestions, Counted, SuggestionsUiOK, SuggestionsUis, RulesOK
<1>7. CASE ToggleRule
    <2>1. page = "suggestions" /\ OnlySuggestionsUi /\ Counted
        BY <1>7 DEF ToggleRule, Counted
    <2> DEFINE rules == {Flip(d) : d \in ui.rules}
    <2>2. rules \in SUBSET Values
        BY <1>0, <2>1 DEF SuggestionsUiOK, SuggestionsUis, Values, Flip
    <2>3. ui' = [ui EXCEPT !.rules = rules]
        BY <1>7 DEF ToggleRule
    <2> HIDE DEF rules
    <2> QED BY <1>0, <2>1, <2>2, <2>3 DEF SuggestionsUiOK, SuggestionsUis
<1>8. CASE CloseRules
    BY <1>0, <1>8 DEF CloseRules, OnSuggestions, Counted, SuggestionsUiOK, SuggestionsUis
<1> QED BY <1>1, <1>2, <1>3, <1>4, <1>5, <1>6, <1>7, <1>8 DEF SuggestionClicks

\* a suggestion is accepted: it is a row of the list
LEMMA AcceptSent ==
    ASSUME FrontOK, NEW row \in Rows
    PROVE  WriteOK([WriteRequest("accept", "training", 2) EXCEPT !.row = row])
<1> DEFINE w == WriteRequest("accept", "training", 2)
<1>1. w \in WriteRequests
    BY NoRatiosFit DEF WriteRequest, WriteRequests, Phases, Sections, Values, FrontOK, PlaceOK
<1> HIDE DEF w
<1>2. row \in 0 .. MaxRows
    BY DEF Rows, TableAssumption
<1>3. [w EXCEPT !.row = row] \in WriteRequests /\ [w EXCEPT !.row = row].row = row
    BY <1>1, <1>2 DEF WriteRequests
<1>4. [w EXCEPT !.row = row].by = w.by /\ w.by = "accept"
    BY <1>1 DEF WriteRequests, w, WriteRequest
<1> QED BY <1>3, <1>4 DEF WriteOK, w

\* a configuration with the suggestion in it, and the suggestion is pending no more
LEMMA AcceptedKeeps ==
    ASSUME FrontOK, RestOK, NEW w \in writes, SuggestionAccepted(w),
           UNCHANGED <<modelVars, serveVars, datasetVars, voiceVars, archs>>
    PROVE  FrontOK' /\ RestOK'
<1>1. WriteOK(w) /\ w \in WriteRequests /\ ServerOK /\ TablesOK
    BY DEF FrontOK, CoreOK, WritesOK, WriteOK, RestOK
<1>2. /\ Counted
      /\ UNCHANGED <<tour, page, activeProject, launches, saves, cfg, followed, ui, lists,
                     calls, ruleVars>>
    BY DEF Counted, SuggestionAccepted
<1>3. PICK phase \in {"ok", "failed"} : writes' = Replaced(writes, w, [w EXCEPT !.phase = phase])
    BY DEF SuggestionAccepted
<1>4. ServerOK' /\ Onward
    <2>1. CASE WriteSection(w.project, w.section, w.value)
        BY <1>1, <2>1, SectionWritten DEF WriteRequests
    <2>2. CASE UNCHANGED configVars
        BY <1>1, <2>2, VersionsStand DEF configVars, ServerOK, VersionIds, OfProject
    <2> QED BY <2>1, <2>2 DEF SuggestionAccepted
<1>5. WriteOK([w EXCEPT !.phase = phase])
    BY <1>1, WriteReplaced DEF Phases
<1>6. WritesOK'
    BY <1>2, <1>3, <1>4, <1>5, FrontOnward DEF WritesOK, Replaced, FrontOK
<1>7. FrontOK'
    BY <1>2, <1>4, <1>6, FrontOnward DEF FrontOK, CoreOK
<1>8. TablesOK'
    <2>1. tables \in [Tabled -> SUBSET Rows] /\ "pending" \in Tabled
        BY <1>1 DEF TablesOK, Tabled
    <2>2. \/ UNCHANGED <<tables, told>>
          \/ /\ tables' = [tables EXCEPT !["pending"] = tables["pending"] \ {w.row}]
             /\ told' = {n \in told : n[1] # "pending" \/ n[3] # w.row}
        BY DEF SuggestionAccepted
    <2>3. tables' \in [Tabled -> SUBSET Rows] /\ told' \subseteq told
        <3>1. tables["pending"] \ {w.row} \in SUBSET Rows
            BY <2>1
        <3> QED BY <2>1, <2>2, <3>1
    <2>4. \A n \in told' : n[3] \in tables'[n[1]] <=> n[3] \in tables[n[1]]
        <3> TAKE n \in told'
        <3>1. n \in told /\ n[1] \in Tabled
            BY <1>1, <2>3 DEF TablesOK
        <3>2. CASE n[1] # "pending"
            BY <2>1, <2>2, <3>1, <3>2
        <3>3. CASE n[1] = "pending"
            BY <2>1, <2>2, <3>1, <3>3
        <3> QED BY <3>2, <3>3
    <2>5. \A c \in calls' : CallOK(c)
        BY <1>1, <1>2 DEF TablesOK
    <2> QED BY <1>1, <1>2, <2>3, <2>4, <2>5, RowsChange
<1>9. RestOK'
    BY <1>2, <1>8, RestKept DEF RestOK
<1> QED BY <1>7, <1>9

\* the page was told that the suggestion is not pending any more
LEMMA AcceptAnswerFits ==
    ASSUME TablesOK, NEW w, WriteOK(w), AcceptAnswered(w) PROVE TablesOK'
<1>1. CASE w.phase = "failed"
    BY <1>1, CallAdded DEF AcceptAnswered, CallOK, TablesOK
<1>2. CASE w.phase # "failed"
    <2> DEFINE shown == IF page = "suggestions" THEN {"pending"} ELSE {}
    <2> DEFINE new == {<<t, FALSE, w.row>> :
                        t \in {u \in shown : /\ lists[u].data # NoAnswer
                                             /\ w.row \notin tables[u]}}
    <2> DEFINE keys == {"pending"}
    <2>1. /\ lists' = InvalidatedAll(lists, keys, shown)
          /\ told' = told \cup new
        BY <1>2 DEF AcceptAnswered
    <2>2. tables' = tables /\ calls' \subseteq calls /\ w.by = "accept"
        BY DEF AcceptAnswered
    <2>3. shown \in SUBSET Tabled /\ shown \subseteq keys /\ keys \in SUBSET Tabled
        BY DEF Tabled
    <2> HIDE DEF shown, keys
    <2>4. \A n \in new : /\ n \in Tabled \X BOOLEAN \X Rows
                         /\ n[1] \in keys \cap shown /\ lists[n[1]].data # NoAnswer
                         /\ n[3] \in tables[n[1]] <=> n[2]
        <3> TAKE n \in new
        <3>1. PICK t \in shown : /\ n = <<t, FALSE, w.row>>
                                 /\ lists[t].data # NoAnswer /\ w.row \notin tables[t]
            OBVIOUS
        <3>2. w.row \in Rows /\ t \in Tabled
            BY <2>2, <2>3 DEF WriteOK
        <3>3. n[1] = t /\ n[2] = FALSE /\ n[3] = w.row
            BY <3>1
        <3>4. n \in Tabled \X BOOLEAN \X Rows
            BY <3>1, <3>2
        <3> QED BY <2>3, <3>1, <3>3, <3>4
    <2> HIDE DEF new
    <2> QED BY <2>1, <2>2, <2>3, <2>4, ListsInvalidated
<1> QED BY <1>1, <1>2

LEMMA SuggestionsKeep ==
    ASSUME FrontOK, RestOK, Suggestions,
           UNCHANGED <<modelVars, serveVars, datasetVars, voiceVars, archs>>
    PROVE  FrontOK' /\ RestOK'
<1>0. /\ TablesOK /\ RulesOK /\ UiOK /\ (page = "suggestions" => SuggestionsUiOK)
      /\ Rows \subseteq 0 .. MaxRows /\ 0 .. 1 \subseteq 0 .. MaxRows
      /\ Values \subseteq 0 .. MaxRows /\ Listed("pending") \subseteq Rows
    BY ListedFits DEF RestOK, FrontOK, UiOK, Rows, Tabled, TableAssumption, Values
<1>1. ASSUME SuggestionRest PROVE Stands
    BY <1>1 DEF SuggestionRest, Stands, configVars
<1>2. ASSUME Stands, Counted, WritesOK', UiOK', TablesOK', RulesOK' PROVE FrontOK' /\ RestOK'
    BY <1>2, StandsKeeps, RestKept DEF FrontOK, RestOK, Stands
<1>3. ASSUME SuggestionRest, page = "suggestions", ui' \in SuggestionsUis PROVE UiOK'
    BY <1>3, OnePage DEF SuggestionsUiOK, SuggestionRest
<1>4. CASE SuggestionClicks
    <2>1. page = "suggestions" /\ OnlySuggestionsUi /\ Counted /\ ui' \in SuggestionsUis
        BY <1>0, <1>4, SuggestionClicksFit
    <2>2. Stands /\ UiOK'
        BY <1>1, <1>3, <2>1 DEF OnlySuggestionsUi
    <2>3. TablesOK' /\ RulesOK' /\ WritesOK'
        BY <2>1, <2>2, RestKept, StandsKeeps DEF OnlySuggestionsUi
    <2> QED BY <1>2, <2>1, <2>2, <2>3
<1>5. ASSUME NEW kind \in Kinds, NEW row \in 0 .. MaxRows, Send(kind, row), OnlyCall,
             kind = "rules" => row \in Values, kind \in DOMAIN RemovesFrom => row \in Rows
      PROVE  FrontOK' /\ RestOK'
    <2>1. TablesOK' /\ Counted
        BY <1>0, <1>5, CallSent
    <2>2. Stands
        BY <1>1, <1>5 DEF OnlyCall
    <2>3. WritesOK' /\ UiOK' /\ RulesOK'
        BY <1>5, <2>1, <2>2, StandsKeeps, RestKept DEF OnlyCall
    <2> QED BY <1>2, <2>1, <2>2, <2>3
<1>6. CASE HandleGenerate
    <2>1. "generate" \in Kinds /\ "generate" \notin DOMAIN RemovesFrom
        BY KindsAre
    <2>2. ui.run \in 0 .. MaxRows
        BY <1>0, <1>6 DEF HandleGenerate, OnSuggestions, SuggestionsUiOK, SuggestionsUis
    <2> QED BY <1>5, <1>6, <2>1, <2>2 DEF HandleGenerate
<1>7. CASE HandleRejectClick
    <2>1. "reject" \in Kinds
        BY KindsAre
    <2>2. ui.selected \in Rows
        BY <1>0, <1>7 DEF HandleRejectClick, CanAct
    <2> QED BY <1>0, <1>5, <1>7, <2>1, <2>2 DEF HandleRejectClick
<1>8. CASE HandleSendMessage
    <2>1. "send" \in Kinds /\ "send" \notin DOMAIN RemovesFrom
        BY KindsAre
    <2>2. ui.selected \in 0 .. MaxRows
        BY <1>0, <1>8 DEF HandleSendMessage, OnSuggestions, SuggestionsUiOK, SuggestionsUis
    <2> QED BY <1>5, <1>8, <2>1, <2>2 DEF HandleSendMessage
<1>9. CASE HandleSaveRuleSettings
    <2>1. "rules" \in Kinds /\ "rules" \notin DOMAIN RemovesFrom
        BY KindsAre
    <2>2. PICK draft \in ui.rules : Send("rules", draft)
        BY <1>9 DEF HandleSaveRuleSettings
    <2>3. draft \in Values
        BY <1>0, <1>9 DEF HandleSaveRuleSettings, SuggestionsUiOK, SuggestionsUis
    <2> QED BY <1>0, <1>5, <1>9, <2>1, <2>2, <2>3 DEF HandleSaveRuleSettings
<1>10. CASE HandleAcceptClick
    <2> PICK row : row = ui.selected
        OBVIOUS
    <2> PICK w : w = [WriteRequest("accept", "training", 2) EXCEPT !.row = row]
        OBVIOUS
    <2>1. row \in Rows
        BY <1>0, <1>10 DEF HandleAcceptClick, CanAct
    <2>2. WriteOK(w)
        BY <2>1, AcceptSent
    <2>3. /\ writes' \subseteq writes \cup {w} /\ Stands /\ Counted
          /\ UNCHANGED <<ui, tableVars, ruleVars>>
        BY <1>1, <1>10 DEF HandleAcceptClick, Counted
    <2>4. WritesOK' /\ UiOK' /\ TablesOK' /\ RulesOK'
        BY <2>2, <2>3, PageWrites, StandsKeeps, RestKept
    <2> QED BY <1>2, <2>3, <2>4
<1>11. CASE RulesFetched
    <2>1. Stands /\ Counted /\ UNCHANGED <<writes, tableVars>> /\ page = "suggestions"
        BY <1>1, <1>11 DEF RulesFetched, Counted
    <2>2. RulesOK' /\ ui' \in SuggestionsUis
        BY <1>0, <1>11 DEF RulesFetched, RulesOK, SuggestionsUiOK, SuggestionsUis
    <2>3. UiOK' /\ WritesOK' /\ TablesOK'
        BY <1>3, <1>11, <2>1, <2>2, StandsKeeps, RestKept DEF RulesFetched
    <2> QED BY <1>2, <2>1, <2>2, <2>3
<1>12. ASSUME NEW w \in writes, SuggestionAccepted(w) PROVE FrontOK' /\ RestOK'
    BY <1>12, AcceptedKeeps
<1>13. ASSUME NEW w \in writes, AcceptAnswered(w) PROVE FrontOK' /\ RestOK'
    <2>1. Stands /\ Counted /\ UNCHANGED <<ui, ruleVars>> /\ writes' \subseteq writes
        BY <1>1, <1>13 DEF AcceptAnswered, Counted
    <2>2. WriteOK(w)
        BY DEF FrontOK, WritesOK
    <2>3. TablesOK'
        BY <1>0, <1>13, <2>2, AcceptAnswerFits
    <2> QED BY <1>2, <2>1, <2>3, FewerWrites, StandsKeeps, RestKept
<1>14. ASSUME NEW c \in calls, RulesHandled(c) PROVE FrontOK' /\ RestOK'
    <2>1. Stands /\ Counted /\ UNCHANGED <<ui, writes, tables, lists, told, shownRules>>
        BY <1>1, <1>14 DEF RulesHandled, Counted
    <2>2. CallOK(c) /\ c.kind = "rules"
        BY <1>0, <1>14 DEF TablesOK, RulesHandled
    <2>3. RulesOK'
        BY <1>0, <1>14, <2>2 DEF RulesOK, RulesHandled, CallOK
    <2>4. PICK phase \in {"ok", "failed"} : calls' = Replaced(calls, c, [c EXCEPT !.phase = phase])
        BY <1>14 DEF RulesHandled
    <2> DEFINE d == [c EXCEPT !.phase = phase]
    <2>5. CallOK(d)
        BY <2>2, CallMoves DEF Phases
    <2>6. calls' \subseteq calls \cup {d}
        BY <2>4 DEF Replaced
    <2> HIDE DEF d
    <2>7. TablesOK'
        BY <1>0, <2>1, <2>5, <2>6, CallAdded
    <2> QED BY <1>2, <2>1, <2>3, <2>7, StandsKeeps
<1> QED BY <1>4, <1>6, <1>7, <1>8, <1>9, <1>10, <1>11, <1>12, <1>13, <1>14
        DEF Suggestions, SuggestionClicks

-----------------------------------------------------------------------------
(* The frame: its toasts, and the rest. *)

LEMMA ShellLooks ==
    ASSUME NEW u, ShellFits(u), NEW v \in ShellUis, v.toasts = u.toasts,
           v.removals = u.removals, v.nextId = u.nextId
    PROVE  ShellFits(v)
BY DEF ShellFits

\* at most one toast, so its place is the first
LEMMA OneToast ==
    ASSUME NEW u, ShellFits(u)
    PROVE  /\ u.toasts \in Seq(Toasts) /\ u.nextId \in Nat /\ u.removals \subseteq Nat
           /\ DOMAIN u.toasts \subseteq {1}
           /\ \A i \in DOMAIN u.toasts : u.toasts[i] \in Toasts /\ i = 1
           /\ u.toasts = <<>> \/ (DOMAIN u.toasts = {1} /\ Len(u.toasts) = 1)
<1>1. u.toasts \in Seq(Toasts) /\ u.nextId \in Nat /\ u.removals \subseteq Nat
    BY DEF ShellFits, ShellUis
<1>2. /\ Len(u.toasts) \in Nat /\ Len(u.toasts) <= 1
      /\ DOMAIN u.toasts = 1 .. Len(u.toasts)
    BY <1>1, LenProperties DEF ShellFits
<1>3. \A i \in DOMAIN u.toasts : u.toasts[i] \in Toasts /\ i = 1
    BY <1>1, <1>2, ElementOfSeq
<1>4. u.toasts = <<>> \/ (DOMAIN u.toasts = {1} /\ Len(u.toasts) = 1)
    <2>s. PICK s : s = u.toasts
        OBVIOUS
    <2>1. s \in Seq(Toasts) /\ Len(s) \in Nat /\ Len(s) <= 1 /\ DOMAIN s = 1 .. Len(s)
        BY <1>1, <1>2, <2>s
    <2>2. CASE s = <<>>
        BY <2>2, <2>s
    <2>3. CASE s # <<>>
        <3>1. Len(s) \in Nat \ {0}
            BY <2>1, <2>3, EmptySeq
        <3>n. PICK n : n = Len(s)
            OBVIOUS
        <3>2. n \in Nat /\ n # 0 /\ n <= 1
            BY <2>1, <3>1, <3>n
        <3>3. n = 1
            BY <3>2
        <3>4. 1 .. 1 = {1}
            OBVIOUS
        <3>5. DOMAIN s = {1} /\ Len(s) = 1
            BY <2>1, <3>n, <3>3, <3>4
        <3> QED BY <2>s, <3>5
    <2> QED BY <2>2, <2>3
<1> QED BY <1>1, <1>2, <1>3, <1>4

LEMMA ToastsSet ==
    ASSUME NEW u \in ShellUis, NEW s \in Seq(Toasts), NEW n \in Nat, NEW r \in SUBSET Nat,
           NEW v, \/ v = [u EXCEPT !.toasts = s, !.nextId = n]
                  \/ v = [u EXCEPT !.toasts = s, !.removals = r]
    PROVE  v \in ShellUis
<1>1. [u EXCEPT !.toasts = s, !.nextId = n] \in ShellUis
    BY DEF ShellUis
<1>2. [u EXCEPT !.toasts = s, !.removals = r] \in ShellUis
    BY DEF ShellUis
<1> QED BY <1>1, <1>2

LEMMA ToastedFits ==
    ASSUME NEW u, ShellFits(u)
    PROVE  ShellFits(Toasted(u)) /\ Toasted(u).toasts # <<>>
<1> DEFINE t == [id |-> u.nextId, open |-> TRUE]
<1> DEFINE all == <<t>> \o u.toasts
<1> DEFINE v == Toasted(u)
<1>1. t \in Toasts /\ t.id = u.nextId /\ u.nextId \in Nat
    BY OneToast DEF Toasts
<1> HIDE DEF t
<1>2. /\ <<t>> \in Seq(Toasts) /\ Len(<<t>>) = 1 /\ <<t>>[1] = t
      /\ u.toasts \in Seq(Toasts) /\ Len(u.toasts) \in Nat
    BY <1>1, OneToast, LenProperties
<1>3. all \in Seq(Toasts) /\ all[1] = t /\ Len(all) \in Nat /\ Len(all) >= 1
    BY <1>2, ConcatProperties
<1>4. \A i \in 1 .. 1 : all[i] \in Toasts
    BY <1>1, <1>3
<1> HIDE DEF all
<1>5. /\ SubSeq(all, 1, 1) \in Seq(Toasts) /\ Len(SubSeq(all, 1, 1)) = 1
      /\ SubSeq(all, 1, 1)[1] = t
    BY <1>3, <1>4, SubSeqProperties
<1>s. PICK s : s = SubSeq(all, 1, 1)
    OBVIOUS
<1>n. PICK n : n = u.nextId + 1
    OBVIOUS
<1>6. v = [u EXCEPT !.toasts = s, !.nextId = n]
    BY <1>s, <1>n DEF Toasted, all, t, ShellFits, ShellUis
<1>7. u \in ShellUis /\ s \in Seq(Toasts) /\ n \in Nat
    BY <1>1, <1>5, <1>s, <1>n DEF ShellFits
<1>8. v \in ShellUis
    <2> HIDE DEF v
    <2> QED BY <1>6, <1>7, ToastsSet
<1>9. v.toasts = s /\ v.nextId = u.nextId + 1 /\ v.removals = u.removals
    BY <1>6, <1>7, <1>n DEF ShellUis
<1> HIDE DEF v
<1>10. DOMAIN s = {1} /\ s[1] = t /\ Len(s) = 1 /\ s # <<>>
    <2>1. s[1] = t /\ Len(s) = 1
        BY <1>5, <1>s
    <2>2. DOMAIN s = 1 .. 1
        BY <1>7, <2>1, LenProperties
    <2>3. s # <<>>
        BY <2>1, EmptySeq
    <2> QED BY <2>1, <2>2, <2>3
<1>11. \A id \in v.removals : id < v.nextId /\ id # u.nextId
    BY <1>1, <1>9, OneToast DEF ShellFits
<1>12. \A i \in DOMAIN v.toasts : /\ v.toasts[i].id < v.nextId
                                  /\ v.toasts[i].id \notin v.removals
    BY <1>1, <1>9, <1>10, <1>11
<1> QED BY <1>8, <1>9, <1>10, <1>11, <1>12 DEF ShellFits, v

\* the timer of another toast takes nothing away from one that is shown
LEMMA WithoutFits ==
    ASSUME NEW u, ShellFits(u), NEW id \in Nat
    PROVE  /\ WithoutToast(u.toasts, id) \in {u.toasts, <<>>}
           /\ (\E i \in DOMAIN u.toasts : u.toasts[i].open) /\ id \in u.removals =>
                WithoutToast(u.toasts, id) = u.toasts
<1> DEFINE removed == {i \in DOMAIN u.toasts : u.toasts[i].id = id}
<1>1. CASE removed = {}
    BY <1>1 DEF WithoutToast
<1>2. CASE removed # {}
    <2> PICK j : j = CHOOSE i \in removed : TRUE
        OBVIOUS
    <2>1. j \in DOMAIN u.toasts /\ u.toasts[j].id = id
        BY <1>2
    <2>2. j = 1 /\ u.toasts[1].id = id /\ Len(u.toasts) = 1
        <3>1. u.toasts # <<>>
            BY <2>1, EmptySeq
        <3> QED BY <2>1, <3>1, OneToast
    <2>3. WithoutToast(u.toasts, id) = RemoveAt(u.toasts, 1)
        BY <1>2, <2>2 DEF WithoutToast
    <2>4. SubSeq(u.toasts, 1, 1 - 1) = <<>> /\ SubSeq(u.toasts, 1 + 1, 1) = <<>>
        BY SubSeqEmpty
    <2>5. RemoveAt(u.toasts, 1) = <<>> \o <<>>
        BY <2>2, <2>4 DEF RemoveAt
    <2>6. <<>> \o <<>> = <<>>
        BY ConcatEmptySeq, EmptySeq
    <2>7. \A i \in DOMAIN u.toasts : u.toasts[i].id = id
        BY <2>2, OneToast
    <2>8. \A i \in DOMAIN u.toasts : ~(u.toasts[i].open /\ id \in u.removals)
        BY <2>7 DEF ShellFits
    <2> QED BY <2>3, <2>5, <2>6, <2>8
<1> QED BY <1>1, <1>2

LEMMA MigrateFits == ASSUME NEW saved \in EarlierStores PROVE Migrate(saved) \in SplitRatios
<1> DEFINE ratios == DefaultDatasetForm.ratios
<1>1. ratios \in SplitRatios
    BY SplitsFit
<1>2. CASE saved = [version |-> 1, ratios |-> [f \in SplitFields |-> Absent]]
    BY <1>1, <1>2 DEF Migrate
<1>3. CASE saved = [version |-> 2, ratios |-> NoRatios]
    <2>1. saved.version = 2 /\ saved.ratios = NoRatios
        BY <1>3
    <2>2. Migrate(saved) = [f \in SplitFields |-> ratios[f]]
        BY <2>1 DEF Migrate, NoRatios
    <2> HIDE DEF ratios
    <2> QED BY <1>1, <2>2 DEF SplitRatios
<1>4. CASE saved = [version |-> 3, ratios |-> [ratios EXCEPT !["val"] = Unset]]
    <2>1. Migrate(saved) = [ratios EXCEPT !["val"] = Unset]
        BY <1>4 DEF Migrate
    <2> HIDE DEF ratios
    <2> QED BY <1>1, <2>1 DEF SplitRatios, Unset
<1> QED BY <1>2, <1>3, <1>4 DEF EarlierStores

\* v is u with something else of its look
Dressed(u, v) ==
    \/ \E b \in BOOLEAN :
        v \in {[u EXCEPT !.palette = b], [u EXCEPT !.tweaks = b],
              [u EXCEPT !.sidebar = b], [u EXCEPT !.drawer = b],
              [u EXCEPT !.bottom = b]}
    \/ \E closed \in SUBSET NavGroups : v = [u EXCEPT !.closed = closed]
    \/ \E height \in PanelHeights : v = [u EXCEPT !.height = height]
    \/ \E theme \in Themes :
        v \in {[u EXCEPT !.dom = theme, !.stored = theme],
              [u EXCEPT !.theme = theme, !.dom = theme, !.stored = theme],
              [u EXCEPT !.booted = TRUE, !.dom = theme, !.theme = theme]}

LEMMA LooksFit ==
    ASSUME NEW u, ShellFits(u), NEW v, Dressed(u, v)
    PROVE  ShellFits(v) /\ v.toasts = u.toasts
<1>1. u \in ShellUis
    BY DEF ShellFits
<1>2. v.toasts = u.toasts /\ v.removals = u.removals /\ v.nextId = u.nextId
    BY <1>1 DEF ShellUis, Dressed
<1>3. v \in ShellUis
    BY <1>1 DEF ShellUis, Dressed
<1> QED BY <1>2, <1>3, ShellLooks

LEMMA ShellStarts ==
    ASSUME NEW u, NEW sidebar \in BOOLEAN, NEW closed \in SUBSET NavGroups, NEW theme \in Themes,
           \/ u = ShellUi
           \/ u = [ShellUi EXCEPT !.booted = TRUE, !.sidebar = sidebar, !.closed = closed,
                                  !.dom = theme, !.stored = theme, !.theme = theme]
    PROVE  ShellFits(u)
<1>1. <<>> \in Seq(Toasts) /\ Len(<<>>) = 0 /\ DOMAIN <<>> = {}
    BY EmptySeq
<1>2. 200 \in PanelHeights /\ 1 \in Nat
    BY DEF PanelHeights
<1>w. PICK w : w = ShellUi
    OBVIOUS
<1>3. w \in ShellUis
    BY <1>w, <1>1, <1>2 DEF ShellUi, ShellUis, Themes
<1>4. w.toasts = <<>> /\ w.removals = {}
    BY <1>w DEF ShellUi
<1>5. u \in ShellUis
    <2>1. [w EXCEPT !.booted = TRUE, !.sidebar = sidebar, !.closed = closed,
                    !.dom = theme, !.stored = theme, !.theme = theme] \in ShellUis
        BY <1>3 DEF ShellUis
    <2> QED BY <1>w, <1>3, <2>1
<1>6. u.toasts = <<>> /\ u.removals = {}
    <2>1. \/ u = w
          \/ u = [w EXCEPT !.booted = TRUE, !.sidebar = sidebar, !.closed = closed,
                            !.dom = theme, !.stored = theme, !.theme = theme]
        BY <1>w
    <2> QED BY <1>3, <1>4, <2>1 DEF ShellUis
<1>7. Len(u.toasts) <= 1 /\ DOMAIN u.toasts = {}
    BY <1>1, <1>6
<1> QED BY <1>5, <1>6, <1>7 DEF ShellFits

LEMMA DismissFits ==
    ASSUME ShellUiOK, DismissToast PROVE ShellFits(ui') /\ ui'.toasts # <<>>
<1>i. PICK i \in DOMAIN ui.toasts :
        ui' = [ui EXCEPT !.toasts[i].open = FALSE,
                         !.removals = ui.removals \cup {ui.toasts[i].id}]
    BY DEF DismissToast, Becomes
<1>1. /\ ui \in ShellUis /\ ui.toasts \in Seq(Toasts) /\ i = 1 /\ ui.toasts[1] \in Toasts
      /\ Len(ui.toasts) = 1 /\ ui.removals \subseteq Nat
    <2>1. ui.toasts # <<>>
        BY EmptySeq
    <2> QED BY <2>1, OneToast DEF ShellUiOK, ShellFits
<1> DEFINE t == [ui.toasts[1] EXCEPT !.open = FALSE]
<1> DEFINE s == [ui.toasts EXCEPT ![1] = t]
<1> DEFINE r == ui.removals \cup {ui.toasts[1].id}
<1>2. t \in Toasts /\ t.id = ui.toasts[1].id /\ ~t.open /\ t.id \in Nat
    BY <1>1 DEF Toasts
<1>3. ui' = [ui EXCEPT !.toasts = s, !.removals = r]
    BY <1>i, <1>1 DEF ShellUis
<1> HIDE DEF t
<1>4. s \in Seq(Toasts) /\ Len(s) = 1 /\ s[1] = t
    BY <1>1, <1>2, ExceptSeq
<1>5. r \in SUBSET Nat
    BY <1>1, <1>2
<1>6. \A id \in r : id < ui.nextId
    BY <1>1 DEF ShellUiOK, ShellFits
<1> HIDE DEF s, r
<1>7. ui' \in ShellUis
    BY <1>1, <1>3, <1>4, <1>5, ToastsSet DEF ShellUis
<1>8. ui'.toasts = s /\ ui'.removals = r /\ ui'.nextId = ui.nextId
    BY <1>1, <1>3 DEF ShellUis
<1>9. DOMAIN s = {1}
    <2>1. DOMAIN s = 1 .. 1
        BY <1>4, LenProperties
    <2> QED BY <2>1
<1>10. t.id < ui.nextId
    BY <1>1, <1>2, <1>i DEF ShellUiOK, ShellFits
<1>11. \A i2 \in DOMAIN s : s[i2].id < ui.nextId /\ ~s[i2].open
    BY <1>2, <1>4, <1>9, <1>10
<1>12. Len(s) <= 1 /\ s # <<>>
    BY <1>4, EmptySeq
<1> HIDE DEF s
<1> QED BY <1>6, <1>7, <1>8, <1>11, <1>12 DEF ShellFits

LEMMA RemoveFits == ASSUME ShellUiOK, NEW id \in ui.removals, RemoveToast(id) PROVE ShellFits(ui')
<1>s. PICK s : s = WithoutToast(ui.toasts, id)
    OBVIOUS
<1>r. PICK r : r = ui.removals \ {id}
    OBVIOUS
<1>1. ui' = [ui EXCEPT !.toasts = s, !.removals = r] /\ ui \in ShellUis /\ id \in Nat
    BY <1>s, <1>r DEF RemoveToast, Becomes, ShellUiOK, ShellFits, ShellUis
<1>2. s \in {ui.toasts, <<>>}
    BY <1>s, <1>1, WithoutFits DEF ShellUiOK
<1>3. <<>> \in Seq(Toasts) /\ Len(<<>>) = 0 /\ ui.toasts \in Seq(Toasts)
    BY <1>1, EmptySeq DEF ShellUis
<1>4. s \in Seq(Toasts) /\ Len(s) <= 1 /\ (s = ui.toasts \/ DOMAIN s = {})
    <2>1. CASE s = ui.toasts
        BY <1>3, <2>1 DEF ShellUiOK, ShellFits
    <2>2. CASE s = <<>>
        <3>1. DOMAIN s = {} /\ s \in Seq(Toasts) /\ Len(s) = 0
            BY <1>3, <2>2
        <3> QED BY <3>1
    <2> QED BY <1>2, <2>1, <2>2
<1>5. r \in SUBSET Nat /\ r \subseteq ui.removals
    BY <1>1, <1>r DEF ShellUis
<1>6. ui' \in ShellUis
    BY <1>1, <1>4, <1>5, ToastsSet DEF ShellUis
<1>7. ui'.toasts = s /\ ui'.removals = r /\ ui'.nextId = ui.nextId
    BY <1>1 DEF ShellUis
<1> QED BY <1>4, <1>5, <1>6, <1>7 DEF ShellFits, ShellUiOK

LEMMA SelectFits ==
    ASSUME ShellUiOK, NEW command \in Commands, HandleSelect(command)
    PROVE  ShellFits(ui') /\ (ui.toasts # <<>> => ui'.toasts # <<>>)
<1>u. PICK u : u = [ui EXCEPT !.palette = FALSE]
    OBVIOUS
<1>1. ShellFits(u) /\ u \in ShellUis /\ u.toasts = ui.toasts
    <2>2. ShellFits(u) /\ u.toasts = ui.toasts
        BY <1>u, LooksFit DEF ShellUiOK, Dressed
    <2> QED BY <2>2 DEF ShellFits
<1>2. ui' = Ran(u, command)
    BY <1>u DEF HandleSelect, Becomes
<1>3. CASE command = "go"
    BY <1>1, <1>2, <1>3 DEF Ran
<1>4. CASE command = "pause"
    BY <1>1, <1>2, <1>4, ToastedFits DEF Ran
<1>5. CASE command = "theme"
    <2>t. PICK theme : theme = Other(u.dom)
        OBVIOUS
    <2>v. PICK v : v = [u EXCEPT !.dom = theme, !.stored = theme]
        OBVIOUS
    <2>1. theme \in Themes
        BY <2>t DEF Themes, Other
    <2>2. ShellFits(v)
        BY <1>1, <2>v, <2>1, LooksFit DEF Dressed
    <2>3. ui' = Toasted(v)
        BY <1>2, <1>5, <2>t, <2>v DEF Ran
    <2> QED BY <2>2, <2>3, ToastedFits
<1>6. CASE command = "tweaks"
    <2>2. ui' = [u EXCEPT !.tweaks = TRUE]
        BY <1>2, <1>6 DEF Ran
    <2> QED BY <1>1, <2>2, LooksFit DEF Dressed
<1> QED BY <1>3, <1>4, <1>5, <1>6 DEF Commands

LEMMA ShellKeep ==
    ASSUME FrontOK, RestOK, ShellNext,
           UNCHANGED <<modelVars, serveVars, ruleVars, voiceVars, archs>>
    PROVE  FrontOK' /\ RestOK'
<1>0. /\ TablesOK /\ DatasetsOK /\ (page = "shell" => ShellUiOK)
      /\ Rows \subseteq 0 .. MaxRows /\ Listed("unread") \subseteq Rows
      /\ datasetForm \in DatasetForms
    <2>1. page = "shell" => ShellUiOK
        BY DEF FrontOK, UiOK
    <2>2. TablesOK /\ DatasetsOK /\ datasetForm \in DatasetForms
        BY DEF RestOK, DatasetsOK
    <2>3. Listed("unread") \subseteq Rows
        BY <2>2, ListedFits DEF Tabled
    <2> QED BY <2>1, <2>2, <2>3 DEF Rows, TableAssumption
<1>1. ASSUME UNCHANGED <<configVars, tour, activeProject, page, cfg, requestVars, followed>>
      PROVE  Stands /\ writes' = writes
    BY <1>1 DEF Stands, configVars, requestVars
<1>2. ASSUME Stands, Counted, writes' = writes, UiOK', TablesOK', DatasetsOK'
      PROVE  FrontOK' /\ RestOK'
    BY <1>2, StandsKeeps, RestKept DEF FrontOK, RestOK, Stands
<1>3. ASSUME page = "shell", page' = page, ShellFits(ui') PROVE UiOK'
    BY <1>3, OnePage DEF ShellUiOK
<1>4. ASSUME page = "shell", ShellKeeps, Counted, ShellFits(ui') PROVE FrontOK' /\ RestOK'
    <2>1. Stands /\ writes' = writes /\ page' = page
        BY <1>1, <1>4 DEF ShellKeeps, ShellRest
    <2>2. UNCHANGED <<tableVars, datasetVars>>
        BY <1>4 DEF ShellKeeps, ShellRest, tableVars, datasetVars
    <2>3. TablesOK' /\ DatasetsOK' /\ UiOK'
        BY <1>3, <1>4, <2>1, <2>2, RestKept
    <2> QED BY <1>2, <1>4, <2>1, <2>3
<1>5. CASE Reload
    <2>1. /\ page = "shell" /\ Counted
          /\ UNCHANGED <<configVars, tour, activeProject, page, cfg, requestVars, followed,
                         tables, datasetVars>>
        BY <1>5 DEF Reload, OnShell, Counted
    <2>2. ShellFits(ui')
        <3>s. PICK sidebar : sidebar = ui.sidebar
            OBVIOUS
        <3>c. PICK closed : closed = ui.closed
            OBVIOUS
        <3>t. PICK theme : theme = ui.stored
            OBVIOUS
        <3>1. sidebar \in BOOLEAN /\ closed \in SUBSET NavGroups /\ theme \in Themes
            BY <1>0, <2>1, <3>s, <3>c, <3>t DEF ShellUiOK, ShellFits, ShellUis
        <3>2. ui' = [ShellUi EXCEPT !.booted = TRUE, !.sidebar = sidebar, !.closed = closed,
                                    !.dom = theme, !.stored = theme, !.theme = theme]
            BY <1>5, <3>s, <3>c, <3>t DEF Reload
        <3> QED BY <3>1, <3>2, ShellStarts
    <2>3. TablesOK'
        <3>1. lists' = [t \in Tabled |-> EmptyEntry] /\ told' = {} /\ calls' \subseteq calls
            BY <1>5 DEF Reload
        <3>2. lists' \in [Tabled -> Entry(SUBSET Rows)]
            BY <3>1, EntryEmpty
        <3> QED BY <1>0, <2>1, <3>1, <3>2 DEF TablesOK
    <2>4. Stands /\ writes' = writes
        BY <1>1, <2>1
    <2>5. UiOK' /\ DatasetsOK'
        BY <1>3, <2>1, <2>2, RestKept
    <2> QED BY <1>2, <2>1, <2>3, <2>4, <2>5
<1>6. CASE DismissToast
    <2>1. page = "shell" /\ ShellKeeps /\ Counted
        BY <1>6 DEF DismissToast, OnShell, Becomes, Counted
    <2> QED BY <1>0, <1>4, <1>6, <2>1, DismissFits
<1>7. ASSUME page = "shell", ShellKeeps, Counted, Dressed(ui, ui') PROVE FrontOK' /\ RestOK'
    <2>1. ShellFits(ui')
        BY <1>0, <1>7, LooksFit DEF ShellUiOK
    <2> QED BY <1>4, <1>7, <2>1
<1>8. CASE OpenPalette
    BY <1>7, <1>8 DEF Dressed, OpenPalette, OnShell, Becomes, Counted
<1>9. CASE ClosePalette \/ CloseTweaks
    BY <1>7, <1>9 DEF Dressed, ClosePalette, CloseTweaks, ShellFree, OnShell, Becomes, Counted
<1>10. CASE ToggleSidebar \/ HandleToggleRightDrawer \/ ToggleBottomPanel
    <2>1. page = "shell" /\ ShellKeeps /\ Counted
        BY <1>10 DEF ToggleSidebar, HandleToggleRightDrawer, ToggleBottomPanel, ShellFree,
                     OnShell, Becomes, Counted
    <2>2. PICK b \in BOOLEAN : ui' \in {[ui EXCEPT !.sidebar = b], [ui EXCEPT !.drawer = b],
                                        [ui EXCEPT !.bottom = b]}
        <3>a. PICK b1 : b1 = ~ui.sidebar
            OBVIOUS
        <3>b. PICK b2 : b2 = ~ui.drawer
            OBVIOUS
        <3>c. PICK b3 : b3 = ~ui.bottom
            OBVIOUS
        <3>1. b1 \in BOOLEAN /\ b2 \in BOOLEAN /\ b3 \in BOOLEAN
            BY <3>a, <3>b, <3>c
        <3>2. \/ ui' = [ui EXCEPT !.sidebar = b1] \/ ui' = [ui EXCEPT !.drawer = b2]
              \/ ui' = [ui EXCEPT !.bottom = b3]
            BY <1>10, <3>a, <3>b, <3>c
               DEF ToggleSidebar, HandleToggleRightDrawer, ToggleBottomPanel, Becomes
        <3> QED BY <3>1, <3>2
    <2> QED BY <1>7, <2>1, <2>2 DEF Dressed
<1>11. ASSUME NEW saved \in EarlierStores, Boot(saved) PROVE FrontOK' /\ RestOK'
    <2>1. /\ page = "shell" /\ Counted /\ calls' = calls
          /\ UNCHANGED <<configVars, tour, activeProject, page, cfg, requestVars, followed,
                         tables, lists, told, datasetProfile, sanitizes>>
        BY <1>11 DEF Boot, ShellRest, Counted
    <2>t. PICK theme : theme = ui.stored
        OBVIOUS
    <2>r. PICK ratios : ratios = Migrate(saved)
        OBVIOUS
    <2>2. ShellFits(ui')
        <3>1. theme \in Themes
            BY <1>0, <2>1, <2>t DEF ShellUiOK, ShellFits, ShellUis
        <3>2. ui' = [ui EXCEPT !.booted = TRUE, !.dom = theme, !.theme = theme]
            BY <1>11, <2>t DEF Boot
        <3> QED BY <1>0, <2>1, <3>1, <3>2, LooksFit DEF ShellUiOK, Dressed
    <2>3. ratios \in SplitRatios /\ datasetForm' = [datasetForm EXCEPT !.ratios = ratios]
        BY <1>11, <2>r, MigrateFits DEF Boot
    <2>4. datasetForm' \in DatasetForms
        BY <1>0, <2>3 DEF DatasetForms
    <2>5. DatasetsOK'
        BY <1>0, <2>1, <2>4 DEF DatasetsOK
    <2>6. Stands /\ writes' = writes /\ TablesOK' /\ UiOK'
        BY <1>1, <1>3, <2>1, <2>2, RestKept DEF tableVars
    <2> QED BY <1>2, <2>1, <2>5, <2>6
<1>12. ASSUME NEW command \in Commands, HandleSelect(command) PROVE FrontOK' /\ RestOK'
    <2>1. page = "shell" /\ ShellKeeps /\ Counted
        BY <1>12 DEF HandleSelect, OnShell, Becomes, Counted
    <2> QED BY <1>0, <1>4, <1>12, <2>1, SelectFits
<1>13. ASSUME NEW theme \in {"light", "dark"}, HandleThemeChange(theme) PROVE FrontOK' /\ RestOK'
    <2>1. page = "shell" /\ ShellKeeps /\ Counted /\ theme \in Themes
        BY <1>13 DEF HandleThemeChange, ShellFree, OnShell, Becomes, Counted, Themes
    <2>2. ui' = [ui EXCEPT !.theme = theme, !.dom = theme, !.stored = theme]
        BY <1>13 DEF HandleThemeChange, Becomes
    <2> QED BY <1>7, <2>1, <2>2 DEF Dressed
<1>14. ASSUME NEW g \in NavGroups, ToggleNavGroup(g) PROVE FrontOK' /\ RestOK'
    <2>1. page = "shell" /\ ShellKeeps /\ Counted
        BY <1>14 DEF ToggleNavGroup, ShellFree, OnShell, Becomes, Counted
    <2>c. PICK closed : closed = IF g \in ui.closed THEN ui.closed \ {g} ELSE ui.closed \cup {g}
        OBVIOUS
    <2>2. closed \in SUBSET NavGroups
        <3>1. ui.closed \in SUBSET NavGroups
            BY <1>0, <2>1 DEF ShellUiOK, ShellFits, ShellUis
        <3> QED BY <2>c, <3>1
    <2>3. ui' = [ui EXCEPT !.closed = closed]
        BY <1>14, <2>c DEF ToggleNavGroup, Becomes
    <2> QED BY <1>7, <2>1, <2>2, <2>3 DEF Dressed
<1>15. ASSUME NEW delta \in Deltas, HandleResize(delta) PROVE FrontOK' /\ RestOK'
    <2>1. page = "shell" /\ ShellKeeps /\ Counted
        BY <1>15 DEF HandleResize, ShellFree, OnShell, Becomes, Counted
    <2>n. PICK n : n = ui.height + delta
        OBVIOUS
    <2>h. PICK height : height = IF n < 100 THEN 100 ELSE IF n > 400 THEN 400 ELSE n
        OBVIOUS
    <2>2. n \in Int
        <3>1. ui.height \in PanelHeights
            BY <1>0, <2>1 DEF ShellUiOK, ShellFits, ShellUis
        <3>2. ui.height \in Int
            BY <3>1 DEF PanelHeights
        <3>3. delta \in Int
            BY DEF Deltas
        <3> QED BY <2>n, <3>2, <3>3
    <2>3. height \in Int /\ 100 <= height /\ height <= 400
        BY <2>2, <2>h
    <2>4. height \in PanelHeights
        BY <2>3 DEF PanelHeights
    <2>5. ui' = [ui EXCEPT !.height = height]
        BY <1>15, <2>n, <2>h DEF HandleResize, Becomes
    <2> QED BY <1>7, <2>1, <2>4, <2>5 DEF Dressed
<1>16. ASSUME NEW id \in ui.removals, RemoveToast(id) PROVE FrontOK' /\ RestOK'
    <2>1. page = "shell" /\ ShellKeeps /\ Counted
        BY <1>16 DEF RemoveToast, OnShell, Becomes, Counted
    <2> QED BY <1>0, <1>4, <1>16, <2>1, RemoveFits
<1>17. ASSUME NEW r \in Rows, HandleSelectNotification(r) PROVE FrontOK' /\ RestOK'
    <2>1. "markRead" \in Kinds /\ r \in 0 .. MaxRows
        BY <1>0, KindsAre
    <2>2. TablesOK' /\ Counted
        BY <1>0, <1>17, <2>1, CallSent DEF HandleSelectNotification
    <2>3. Stands /\ writes' = writes /\ UNCHANGED <<ui, datasetVars>>
        BY <1>1, <1>17 DEF HandleSelectNotification
    <2> QED BY <1>2, <2>2, <2>3, StandsKeeps, RestKept
<1> QED BY <1>5, <1>6, <1>8, <1>9, <1>10, <1>11, <1>12, <1>13, <1>14, <1>15, <1>16, <1>17
        DEF ShellNext

-----------------------------------------------------------------------------
(* The voice demo: its page. *)

LEMMA VoiceLooks ==
    ASSUME NEW u, VoiceFits(u), NEW v \in VoiceUis, v.transcript = u.transcript,
           v.cursor = u.cursor
    PROVE  VoiceFits(v)
BY DEF VoiceFits

LEMMA VoiceClears ==
    ASSUME NEW v \in VoiceUis, v.transcript = <<>> PROVE VoiceFits(v)
<1>1. DOMAIN v.transcript = {}
    BY EmptySeq
<1> QED BY <1>1 DEF VoiceFits

LEMMA ResetFits ==
    ASSUME NEW u, VoiceFits(u), NEW status \in Statuses, NEW s \in 0 .. MaxVoice, NEW v,
           \/ v = Reset(u, status)
           \/ v = [Reset(u, status) EXCEPT !.cursor = 0]
           \/ v = [Reset(u, status) EXCEPT !.ws = 0]
           \/ v = [Reset(u, status) EXCEPT !.capture = s]
    PROVE  VoiceFits(v)
<1>r. PICK r : r = Reset(u, status)
    OBVIOUS
<1>1. <<>> \in Seq(Entries) /\ 0 \in 0 .. MaxVoice
    BY EmptySeq DEF VoiceAssumption
<1>2. r \in VoiceUis /\ r.transcript = <<>>
    <2>1. u \in VoiceUis
        BY DEF VoiceFits
    <2>2. r = [u EXCEPT !.status = status, !.transcript = <<>>]
        BY <1>r DEF Reset
    <2> QED BY <1>1, <2>1, <2>2 DEF VoiceUis
<1>3. \/ v = r \/ v = [r EXCEPT !.cursor = 0] \/ v = [r EXCEPT !.ws = 0]
      \/ v = [r EXCEPT !.capture = s]
    BY <1>r
<1>4. v \in VoiceUis /\ v.transcript = <<>>
    BY <1>1, <1>2, <1>3 DEF VoiceUis
<1> QED BY <1>4, VoiceClears

LEMMA VoiceMoves ==
    ASSUME NEW u, VoiceFits(u), NEW status \in Statuses, NEW s \in Sessions, NEW v,
           \/ v = [u EXCEPT !.status = status]
           \/ v = [u EXCEPT !.status = status, !.ws = 0, !.capture = 0]
           \/ v = [u EXCEPT !.ws = s, !.mine = @ \cup {s}]
           \/ v = [u EXCEPT !.mine = @ \ {s}, !.status = status]
    PROVE  VoiceFits(v)
<1>1. u \in VoiceUis
    BY DEF VoiceFits
<1>2. 0 \in 0 .. MaxVoice /\ s \in 0 .. MaxVoice
    BY DEF VoiceAssumption, Sessions
<1>3. v \in VoiceUis /\ v.transcript = u.transcript /\ v.cursor = u.cursor
    <2>1. CASE v = [u EXCEPT !.status = status]
        BY <1>1, <2>1 DEF VoiceUis
    <2>2. CASE v = [u EXCEPT !.status = status, !.ws = 0, !.capture = 0]
        BY <1>1, <1>2, <2>2 DEF VoiceUis
    <2>3. CASE v = [u EXCEPT !.ws = s, !.mine = @ \cup {s}]
        BY <1>1, <1>2, <2>3 DEF VoiceUis
    <2>4. CASE v = [u EXCEPT !.mine = @ \ {s}, !.status = status]
        BY <1>1, <2>4 DEF VoiceUis
    <2> QED BY <2>1, <2>2, <2>3, <2>4
<1> QED BY <1>1, <1>3, VoiceLooks

\* an entry takes the index of the interim one it replaces, or the cursor, which
\* goes on
LEMMA AppendFits ==
    ASSUME NEW u, VoiceFits(u), NEW role \in {"user", "assistant"}, NEW interim \in BOOLEAN
    PROVE  VoiceFits(AppendTranscriptEntry(u,
                        [index |-> u.cursor, role |-> role, interim |-> interim]))
<1> DEFINE e == [index |-> u.cursor, role |-> role, interim |-> interim]
<1> DEFINE v == AppendTranscriptEntry(u, e)
<1>t. PICK t : t = u.transcript
    OBVIOUS
<1>n. PICK n : n = Len(t)
    OBVIOUS
<1>1. /\ u \in VoiceUis /\ t \in Seq(Entries) /\ u.cursor \in Nat /\ n \in Nat
      /\ DOMAIN t = 1 .. n
      /\ \A i \in 1 .. n : t[i] \in Entries /\ t[i].index < u.cursor
      /\ \A i, j \in 1 .. n : t[i].index = t[j].index => i = j
    <2>1. u \in VoiceUis /\ t \in Seq(Entries) /\ u.cursor \in Nat
        BY <1>t DEF VoiceFits, VoiceUis
    <2>2. n \in Nat /\ DOMAIN t = 1 .. n
        BY <2>1, <1>n, LenProperties
    <2>3. \A i \in 1 .. n : t[i] \in Entries
        BY <2>1, <2>2, <1>n, ElementOfSeq
    <2> QED BY <2>1, <2>2, <2>3, <1>t DEF VoiceFits
<1>2. e \in Entries /\ e.index = u.cursor /\ e.role = role
    BY <1>1 DEF Entries
<1> HIDE DEF e
<1>3. CASE n > 0 /\ t[n].role = e.role /\ t[n].interim
    <2>f. PICK f : f = [e EXCEPT !.index = t[n].index]
        OBVIOUS
    <2>s. PICK s : s = [t EXCEPT ![n] = f]
        OBVIOUS
    <2>1. v = [u EXCEPT !.transcript = s]
        BY <1>1, <1>3, <1>t, <1>n, <2>f, <2>s DEF AppendTranscriptEntry, VoiceUis
    <2>2. f \in Entries /\ f.index = t[n].index
        BY <1>1, <1>2, <1>3, <2>f DEF Entries
    <2>3. n \in 1 .. n
        BY <1>1, <1>3
    <2>4. /\ s \in Seq(Entries) /\ DOMAIN s = 1 .. n
          /\ \A i \in 1 .. n : s[i] = IF i = n THEN f ELSE t[i]
        <3>1. s \in Seq(Entries) /\ Len(s) = n
            BY <1>1, <1>n, <2>2, <2>3, <2>s, ExceptSeq
        <3>2. DOMAIN s = 1 .. n
            BY <3>1, LenProperties
        <3> QED BY <1>1, <2>s, <3>1, <3>2
    <2>5. \A i \in 1 .. n : s[i].index = t[i].index
        BY <2>2, <2>4
    <2>6. v \in VoiceUis /\ v.transcript = s /\ v.cursor = u.cursor
        BY <1>1, <2>1, <2>4 DEF VoiceUis
    <2> HIDE DEF v
    <2>7. VoiceFits(v)
        BY <1>1, <2>4, <2>5, <2>6 DEF VoiceFits
    <2> QED BY <2>7 DEF v, e
<1>4. CASE ~(n > 0 /\ t[n].role = e.role /\ t[n].interim)
    <2>s. PICK s : s = Append(t, e)
        OBVIOUS
    <2>c. PICK c : c = u.cursor + 1
        OBVIOUS
    <2>1. v = [u EXCEPT !.transcript = s, !.cursor = c]
        BY <1>1, <1>4, <1>t, <1>n, <2>s, <2>c DEF AppendTranscriptEntry, VoiceUis
    <2>2. /\ s \in Seq(Entries) /\ Len(s) = n + 1 /\ s[n + 1] = e
          /\ \A i \in 1 .. n : s[i] = t[i]
        BY <1>1, <1>2, <1>n, <2>s, AppendProperties
    <2>3. DOMAIN s = 1 .. n + 1 /\ c \in Nat
        BY <1>1, <2>2, <2>c, LenProperties
    <2>4. \A i \in 1 .. n + 1 : i \in 1 .. n \/ i = n + 1
        BY <1>1
    <2>5. \A i \in 1 .. n : s[i].index < u.cursor /\ s[i].index \in Nat
        BY <1>1, <2>2 DEF Entries
    <2>6. \A i \in 1 .. n + 1 : s[i].index < c
        BY <1>1, <1>2, <2>2, <2>4, <2>5, <2>c
    <2>7. \A i, j \in 1 .. n + 1 : s[i].index = s[j].index => i = j
        BY <1>1, <1>2, <2>2, <2>4, <2>5
    <2>8. v \in VoiceUis /\ v.transcript = s /\ v.cursor = c
        BY <1>1, <2>1, <2>2, <2>3 DEF VoiceUis
    <2> HIDE DEF v
    <2>9. VoiceFits(v)
        BY <2>3, <2>6, <2>7, <2>8 DEF VoiceFits
    <2> QED BY <2>9 DEF v, e
<1> QED BY <1>3, <1>4

-----------------------------------------------------------------------------
(* The voice demo: starts, sockets and the sessions of the server. *)

LEMMA VoiceStep ==
    ASSUME FrontOK, RestOK, VoiceRest, Counted, VoiceOK',
           ui' = ui \/ (page = "voice" /\ VoiceFits(ui')),
           UNCHANGED <<tableVars, modelVars, serveVars, datasetVars, ruleVars>>
    PROVE  FrontOK' /\ RestOK'
<1>1. Stands /\ writes' = writes /\ page' = page
    BY DEF Stands, VoiceRest, configVars, requestVars
<1>2. UiOK'
    <2>1. CASE ui' = ui
        BY <1>1, <2>1, StandsKeeps
    <2>2. CASE page = "voice" /\ VoiceFits(ui')
        BY <1>1, <2>2, OnePage DEF VoiceUiOK
    <2> QED BY <2>1, <2>2
<1>3. PlaceOK' /\ CoreOK' /\ WritesOK'
    BY <1>1, StandsKeeps
<1> QED BY <1>2, <1>3, RestKept DEF FrontOK, RestOK

LEMMA SocketsChange ==
    ASSUME VoiceOK, UNCHANGED <<voiceLock, sessions>>,
           sockets' \in [Sessions -> SocketStates],
           \A s \in Sessions : \/ sockets'[s] = sockets[s]
                               \/ /\ sockets[s] # "none"
                                  /\ sockets'[s] \notin {"none", "opening"}
    PROVE  /\ \A s \in Sessions : SessionOK(s)'
           /\ \A a \in starts : a.phase = "created" => sockets'[a.session] = "none"
           /\ page' = page => \A a \in starts : StartOK(a)'
           /\ page' = page /\ starts' \subseteq starts => VoiceOK'
<1>1. \A s \in Sessions : SessionOK(s)'
    BY DEF VoiceOK, SessionOK, Alive, SessionStates
<1>2. \A a \in starts : StartOK(a) /\ (a.phase = "created" => sockets'[a.session] = "none")
    <2> TAKE a \in starts
    <2>1. StartOK(a)
        BY DEF VoiceOK
    <2>2. a.phase = "created" => a.session \in Sessions
        BY <2>1 DEF StartOK, Starts, Sessions, VoiceAssumption
    <2> QED BY <2>1, <2>2 DEF StartOK
<1>3. page' = page => \A a \in starts : StartOK(a)'
    BY <1>2 DEF StartOK
<1> QED BY <1>1, <1>2, <1>3 DEF VoiceOK

LEMMA ClosedFits ==
    ASSUME VoiceOK, NEW s, sockets' = ClosedSocket(sockets, s)
    PROVE  /\ sockets' \in [Sessions -> SocketStates]
           /\ \A t \in Sessions : \/ sockets'[t] = sockets[t]
                                  \/ /\ sockets[t] # "none"
                                     /\ sockets'[t] \notin {"none", "opening"}
BY DEF VoiceOK, ClosedSocket, SocketStates

\* a start that goes on, with its session
LEMMA StartGoesOn ==
    ASSUME VoiceOK, NEW a \in starts, NEW phase \in {"refused", "connecting", "capturing"},
           StartMoves(a, phase, a.session), page' = page, sessions' = sessions,
           phase # "refused" => a.session # 0,
           \A c \in starts : c # a => StartOK(c)'
    PROVE  /\ \A c \in starts' : StartOK(c)'
           /\ \A c, d \in starts' : c.session = d.session /\ c.session # 0 => c = d
<1>b. PICK b : b = [a EXCEPT !.phase = phase, !.session = a.session]
    OBVIOUS
<1>1. StartOK(a) /\ a \in Starts
    BY DEF VoiceOK, StartOK
<1>2. /\ b \in Starts /\ b.phase = phase /\ b.session = a.session /\ b.watched = a.watched
    BY <1>1, <1>b DEF Starts
<1>3. StartOK(b)'
    BY <1>1, <1>2 DEF StartOK
<1>4. starts' = (starts \ {a}) \cup {b}
    BY <1>b DEF StartMoves, Replaced
<1>5. \A c, d \in starts' : c.session = d.session /\ c.session # 0 => c = d
    BY <1>2, <1>4 DEF VoiceOK
<1> QED BY <1>3, <1>4, <1>5

LEMMA SessionBegins ==
    ASSUME VoiceOK, NEW a \in starts, CreateSession(a), page' = page
    PROVE  VoiceOK'
<1>1. StartOK(a) /\ a \in Starts /\ a.phase = "creating" /\ sockets' = sockets
    BY DEF VoiceOK, StartOK, CreateSession
<1>2. CASE StartMoves(a, "refused", 0) /\ UNCHANGED <<voiceLock, sessions>>
    <2>b. PICK b : b = [a EXCEPT !.phase = "refused", !.session = 0]
        OBVIOUS
    <2>1. 0 \in 0 .. MaxVoice
        BY DEF VoiceAssumption
    <2>2. b \in Starts /\ b.phase = "refused" /\ b.session = 0 /\ b.watched = a.watched
        BY <1>1, <2>1, <2>b DEF Starts
    <2>3. starts' = (starts \ {a}) \cup {b}
        BY <1>2, <2>b DEF StartMoves, Replaced
    <2>4. StartOK(b)'
        BY <1>1, <2>2 DEF StartOK
    <2>5. \A c \in starts' : StartOK(c)'
        BY <1>1, <1>2, <2>3, <2>4 DEF VoiceOK, StartOK
    <2>6. \A c, d \in starts' : c.session = d.session /\ c.session # 0 => c = d
        BY <2>2, <2>3 DEF VoiceOK
    <2> QED BY <1>1, <1>2, <2>5, <2>6 DEF VoiceOK, SessionOK
<1>3. CASE ~(StartMoves(a, "refused", 0) /\ UNCHANGED <<voiceLock, sessions>>)
    <2> DEFINE expired == voiceLock # 0 /\ sessions[voiceLock] = "pending"
    <2> DEFINE free == {s \in Sessions : sessions[s] = "none"}
    <2>n. PICK new : new = CHOOSE s \in Sessions :
                        /\ sessions[s] = "none"
                        /\ \A t \in 1 .. s - 1 : sessions[t] # "none"
        OBVIOUS
    <2>1. /\ voiceLock = 0 \/ expired
          /\ free # {}
          /\ sessions' = [s \in Sessions |->
                IF s = new THEN "pending"
                ELSE IF expired /\ s = voiceLock THEN "ended" ELSE sessions[s]]
          /\ voiceLock' = new
        BY <1>3, <2>n DEF CreateSession
    <2>2. new \in Sessions /\ sessions[new] = "none"
        <3>1. free \in SUBSET Nat
            BY DEF Sessions
        <3>2. PICK x \in free : \A y \in free : x <= y
            BY <2>1, <3>1, LeastElement
        <3>3. x \in Sessions /\ x \in Nat
            BY <3>1, <3>2
        <3>4. \A t \in 1 .. x - 1 : t \in Sessions /\ ~(x <= t)
            BY <3>3 DEF Sessions, VoiceAssumption
        <3>5. \A t \in 1 .. x - 1 : sessions[t] # "none"
            BY <3>2, <3>4
        <3> QED BY <2>n, <3>2, <3>3, <3>5
    <2>a. PICK answer \in {"created", "refused"} : StartMoves(a, answer, new)
        BY <1>3, <2>n DEF CreateSession
    <2>b. PICK b : b = [a EXCEPT !.phase = answer, !.session = new]
        OBVIOUS
    <2>3. /\ new \in 0 .. MaxVoice /\ new # 0
        BY <2>2 DEF Sessions, VoiceAssumption
    <2>4. /\ b \in Starts /\ b.phase = answer /\ b.session = new /\ b.watched = a.watched
        BY <1>1, <2>3, <2>b DEF Starts
    <2>5. starts' = (starts \ {a}) \cup {b}
        BY <2>a, <2>b DEF StartMoves, Replaced
    <2>6. \A s \in Sessions : sessions[s] # "none" => sessions'[s] # "none"
        BY <2>1 DEF Sessions
    <2>7. sessions' \in [Sessions -> SessionStates] /\ sessions'[new] = "pending"
        BY <2>1, <2>2 DEF VoiceOK, SessionStates
    <2>8. sockets[new] = "none"
        <3>1. SessionOK(new)
            BY <2>2 DEF VoiceOK
        <3> QED BY <2>2, <3>1 DEF SessionOK
    <2>9. StartOK(b)'
        BY <1>1, <2>3, <2>4, <2>7, <2>8 DEF StartOK
    <2>10. \A c \in starts : StartOK(c)' /\ c.session # new
        <3> TAKE c \in starts
        <3>1. StartOK(c) /\ c \in Starts
            BY DEF VoiceOK, StartOK
        <3>2. c.session # 0 => c.session \in Sessions
            BY <3>1 DEF Starts, Sessions, VoiceAssumption
        <3> QED BY <1>1, <2>2, <2>3, <2>6, <3>1, <3>2 DEF StartOK
    <2>11. \A s \in Sessions : SessionOK(s)'
        <3> TAKE s \in Sessions
        <3>1. SessionOK(s) /\ s # 0
            BY DEF VoiceOK, Sessions
        <3>2. CASE s = new
            BY <1>1, <2>1, <2>7, <2>8, <3>2 DEF SessionOK, Alive
        <3>3. CASE s # new /\ expired /\ s = voiceLock
            <4>1. sessions'[s] = "ended"
                BY <2>1, <3>3
            <4> QED BY <4>1 DEF SessionOK, Alive
        <3>4. CASE s # new /\ ~(expired /\ s = voiceLock)
            <4>1. sessions'[s] = sessions[s]
                BY <2>1, <3>4
            <4>2. sessions[s] \notin Alive \cup {"pending"}
                BY <2>1, <3>1, <3>4 DEF SessionOK
            <4> QED BY <1>1, <3>1, <4>1, <4>2 DEF SessionOK
        <3> QED BY <3>2, <3>3, <3>4
    <2>12. \A c, d \in starts' : c.session = d.session /\ c.session # 0 => c = d
        BY <2>4, <2>5, <2>10 DEF VoiceOK
    <2>13. \A c \in starts' : StartOK(c)'
        BY <2>5, <2>9, <2>10
    <2> QED BY <1>1, <2>1, <2>3, <2>7, <2>11, <2>12, <2>13 DEF VoiceOK
<1> QED BY <1>2, <1>3

\* the route found the session, or not
LEMMA AcceptedFits ==
    ASSUME VoiceOK, NEW s \in Sessions, SocketAccepted(s), page' = page PROVE VoiceOK'
<1>1. /\ sockets[s] = "opening" /\ SessionOK(s) /\ starts' = starts
      /\ sessions[s] \notin Alive \cup {"none"}
    BY DEF SocketAccepted, VoiceOK, SessionOK, Alive
<1>2. sessions' \in [Sessions -> SessionStates] /\ sockets' \in [Sessions -> SocketStates]
    BY DEF SocketAccepted, VoiceOK, SessionStates, SocketStates
<1>3. voiceLock' \in 0 .. MaxVoice
    BY DEF SocketAccepted, VoiceOK, Released, VoiceAssumption
<1>4. \A t \in Sessions : /\ sessions[t] # "none" => sessions'[t] # "none"
                          /\ t # s => sessions'[t] = sessions[t] /\ sockets'[t] = sockets[t]
    BY DEF SocketAccepted, VoiceOK
<1>5. \A a \in starts : StartOK(a)'
    <2> TAKE a \in starts
    <2>1. StartOK(a) /\ a \in Starts
        BY DEF VoiceOK, StartOK
    <2>2. a.session # 0 => a.session \in Sessions
        BY <2>1 DEF Starts, Sessions, VoiceAssumption
    <2>3. a.phase = "created" => a.session # s
        BY <1>1, <2>1 DEF StartOK
    <2> QED BY <1>4, <2>1, <2>2, <2>3 DEF StartOK
<1>6. \A t \in Sessions : SessionOK(t)'
    <2> TAKE t \in Sessions
    <2>1. SessionOK(t)
        BY DEF VoiceOK
    <2>2. CASE sessions[s] = "pending"
        <3>1. voiceLock' = voiceLock /\ voiceLock = s
            BY <1>1, <2>2 DEF SocketAccepted, SessionOK
        <3>2. sessions'[s] = "booting" /\ sockets'[s] = "open"
            BY <1>1, <2>2 DEF SocketAccepted, VoiceOK
        <3>3. CASE t = s
            BY <3>1, <3>2, <3>3 DEF SessionOK
        <3>4. CASE t # s
            BY <1>4, <2>1, <3>1, <3>4 DEF SessionOK
        <3> QED BY <3>3, <3>4
    <2>3. CASE sessions[s] # "pending"
        <3>1. voiceLock' = Released(voiceLock, s) /\ sessions' = sessions
            BY <2>3 DEF SocketAccepted
        <3>2. CASE t = s
            <4>1. sessions'[t] \notin Alive \cup {"pending", "none"}
                BY <1>1, <2>3, <3>1, <3>2
            <4> QED BY <4>1 DEF SessionOK
        <3>3. CASE t # s
            <4>1. voiceLock = t => voiceLock' = t
                BY <3>1, <3>3 DEF Released
            <4>2. sockets'[t] = sockets[t]
                BY <1>4, <3>3
            <4> QED BY <2>1, <3>1, <4>1, <4>2 DEF SessionOK
        <3> QED BY <3>2, <3>3
    <2> QED BY <2>2, <2>3
<1> QED BY <1>1, <1>2, <1>3, <1>5, <1>6 DEF VoiceOK

LEMMA BootedFits ==
    ASSUME VoiceOK, NEW s \in Sessions, Booted(s), page' = page PROVE VoiceOK'
<1>1. /\ sessions[s] = "booting" /\ UNCHANGED <<starts, voiceLock, sockets>>
      /\ sessions' = [sessions EXCEPT ![s] = "running"]
    BY DEF Booted
<1>2. /\ sessions' \in [Sessions -> SessionStates] /\ sessions'[s] = "running"
      /\ \A t \in Sessions : t # s => sessions'[t] = sessions[t]
    BY <1>1 DEF VoiceOK, SessionStates
<1>3. \A a \in starts : StartOK(a)'
    <2> TAKE a \in starts
    <2>1. StartOK(a) /\ a \in Starts
        BY DEF VoiceOK, StartOK
    <2>2. a.session # 0 => a.session \in Sessions
        BY <2>1 DEF Starts, Sessions, VoiceAssumption
    <2> QED BY <1>1, <1>2, <2>1, <2>2 DEF StartOK
<1>4. \A t \in Sessions : SessionOK(t)'
    <2> TAKE t \in Sessions
    <2>1. SessionOK(t)
        BY DEF VoiceOK
    <2>2. CASE t = s
        BY <1>1, <1>2, <2>1, <2>2 DEF SessionOK, Alive
    <2>3. CASE t # s
        BY <1>1, <1>2, <2>1, <2>3 DEF SessionOK
    <2> QED BY <2>2, <2>3
<1> QED BY <1>1, <1>2, <1>3, <1>4 DEF VoiceOK

LEMMA FinalizedFits ==
    ASSUME VoiceOK, NEW s \in Sessions, FinalizeSession(s), page' = page PROVE VoiceOK'
<1>1. /\ sessions[s] \in Alive /\ UNCHANGED starts
      /\ sessions' = [sessions EXCEPT ![s] = "ended"]
      /\ voiceLock' = Released(voiceLock, s)
      /\ sockets' = ClosedSocket(sockets, s)
    BY DEF FinalizeSession
<1>2. /\ sessions' \in [Sessions -> SessionStates] /\ sessions'[s] = "ended"
      /\ \A t \in Sessions : t # s => sessions'[t] = sessions[t]
    BY <1>1 DEF VoiceOK, SessionStates
<1>3. /\ sockets' \in [Sessions -> SocketStates]
      /\ \A t \in Sessions : \/ sockets'[t] = sockets[t]
                             \/ /\ sockets[t] # "none"
                                /\ sockets'[t] \notin {"none", "opening"}
    BY <1>1, ClosedFits
<1>4. voiceLock' \in 0 .. MaxVoice
    BY <1>1 DEF VoiceOK, Released, VoiceAssumption
<1>5. \A a \in starts : StartOK(a)'
    <2> TAKE a \in starts
    <2>1. StartOK(a) /\ a \in Starts
        BY DEF VoiceOK, StartOK
    <2>2. a.session # 0 => a.session \in Sessions
        BY <2>1 DEF Starts, Sessions, VoiceAssumption
    <2>3. a.phase = "created" => sockets'[a.session] = "none"
        BY <1>3, <2>1, <2>2 DEF StartOK
    <2> QED BY <1>1, <1>2, <2>1, <2>2, <2>3 DEF StartOK
<1>6. \A t \in Sessions : SessionOK(t)'
    <2> TAKE t \in Sessions
    <2>1. SessionOK(t)
        BY DEF VoiceOK
    <2>2. CASE t = s
        BY <1>2, <2>2 DEF SessionOK, Alive
    <2>3. CASE t # s
        <3>1. voiceLock = t => voiceLock' = t
            BY <1>1, <2>3 DEF Released
        <3>2. sockets[t] = "none" => sockets'[t] = "none"
            BY <1>3
        <3>3. sockets[t] \notin {"none", "opening"} => sockets'[t] \notin {"none", "opening"}
            BY <1>3
        <3>4. sessions'[t] = sessions[t]
            BY <1>2, <2>3
        <3> QED BY <2>1, <3>1, <3>2, <3>3, <3>4 DEF SessionOK
    <2> QED BY <2>2, <2>3
<1> QED BY <1>1, <1>2, <1>3, <1>4, <1>5, <1>6 DEF VoiceOK

\* the socket of a session that was created opens
LEMMA SocketOpens ==
    ASSUME VoiceOK, NEW a \in starts, SessionCreated(a), page' = page PROVE VoiceOK'
<1>1. /\ a.phase = "created" /\ StartMoves(a, "connecting", a.session)
      /\ sockets' = [sockets EXCEPT ![a.session] = "opening"]
      /\ UNCHANGED <<voiceLock, sessions>>
    BY DEF SessionCreated
<1>2. StartOK(a) /\ a \in Starts /\ a.session # 0
    BY <1>1 DEF VoiceOK, StartOK
<1>3. a.session \in Sessions
    BY <1>2 DEF Starts, Sessions, VoiceAssumption
<1>4. /\ sockets' \in [Sessions -> SocketStates] /\ sockets'[a.session] = "opening"
      /\ \A t \in Sessions : t # a.session => sockets'[t] = sockets[t]
    BY <1>1, <1>3 DEF VoiceOK, SocketStates
<1>5. \A c \in starts : c # a => StartOK(c)'
    <2> TAKE c \in starts
    <2>1. StartOK(c) /\ c \in Starts /\ (c # a => c.session # a.session)
        BY <1>2 DEF VoiceOK, StartOK
    <2>2. c.session # 0 => c.session \in Sessions
        BY <2>1 DEF Starts, Sessions, VoiceAssumption
    <2> QED BY <1>1, <1>4, <2>1, <2>2 DEF StartOK
<1>6. /\ \A c \in starts' : StartOK(c)'
      /\ \A c, d \in starts' : c.session = d.session /\ c.session # 0 => c = d
    BY <1>1, <1>2, <1>5, StartGoesOn
<1>7. \A t \in Sessions : SessionOK(t)'
    <2> TAKE t \in Sessions
    <2>1. SessionOK(t) /\ sessions'[t] = sessions[t] /\ voiceLock' = voiceLock
        BY <1>1 DEF VoiceOK
    <2>2. CASE t = a.session
        <3>1. sockets[t] = "none" /\ sessions[t] # "none"
            BY <1>1, <1>2, <2>2 DEF StartOK
        <3>2. sessions[t] \notin Alive
            BY <2>1, <3>1 DEF SessionOK
        <3> QED BY <2>1, <3>1, <3>2 DEF SessionOK
    <2>3. CASE t # a.session
        BY <1>4, <2>1, <2>3 DEF SessionOK
    <2> QED BY <2>2, <2>3
<1> QED BY <1>1, <1>4, <1>6, <1>7 DEF VoiceOK

LEMMA VoicePageKeeps ==
    ASSUME FrontOK, RestOK, VoiceNext,
           UNCHANGED <<tableVars, modelVars, serveVars, datasetVars, ruleVars, archs>>
    PROVE  FrontOK' /\ RestOK'
<1>0. VoiceOK /\ (page = "voice" => VoiceFits(ui)) /\ \A a \in starts : StartOK(a)
    BY DEF FrontOK, RestOK, UiOK, VoiceUiOK, VoiceOK
<1>1. ASSUME VoiceRest, Counted, VoiceOK', ui' = ui \/ (page = "voice" /\ VoiceFits(ui'))
      PROVE  FrontOK' /\ RestOK'
    BY <1>1, VoiceStep
<1>2. VoiceKeep => VoiceRest /\ Counted
    BY DEF VoiceKeep, Counted
<1>3. VoiceRest => page' = page
    BY DEF VoiceRest
<1>4. UNCHANGED <<page, voiceLock, sessions, sockets>> /\ starts' \subseteq starts => VoiceOK'
    BY <1>0, SocketsChange DEF VoiceOK
<1>5. {"connecting", "failed", "active", "finalized"} \subseteq Statuses
    BY DEF Statuses
<1>6. CASE StartVoice
    <2> DEFINE b == [phase |-> "creating", session |-> 0, watched |-> TRUE]
    <2>1. /\ VoiceRest /\ Counted /\ page' = page /\ page = "voice"
          /\ UNCHANGED <<voiceLock, sessions, sockets>> /\ starts' = starts \cup {b}
          /\ ui' = [Reset(ui, "connecting") EXCEPT !.cursor = 0]
        BY <1>3, <1>6 DEF StartVoice, OnVoice, Counted
    <2>2. 0 \in 0 .. MaxVoice
        BY DEF VoiceAssumption
    <2>3. VoiceFits(ui')
        BY <1>0, <1>5, <2>1, <2>2, ResetFits
    <2>4. b \in Starts /\ b.phase = "creating" /\ b.session = 0
        BY <2>2 DEF Starts
    <2> HIDE DEF b
    <2>5. StartOK(b)'
        BY <2>1, <2>4 DEF StartOK
    <2>6. VoiceOK'
        BY <1>0, <2>1, <2>4, <2>5 DEF VoiceOK, StartOK, SessionOK
    <2> QED BY <1>1, <2>1, <2>3, <2>6
<1>7. CASE StopVoice
    <2>1. /\ VoiceRest /\ Counted /\ page' = page /\ page = "voice"
          /\ UNCHANGED <<voiceLock, sessions, starts>>
          /\ sockets' = ClosedSocket(sockets, ui.ws)
          /\ ui' = [ui EXCEPT !.status = "finalized", !.ws = 0, !.capture = 0]
        BY <1>3, <1>7 DEF StopVoice, OnVoice, Counted
    <2>2. ui' \in VoiceUis /\ ui'.transcript = ui.transcript /\ ui'.cursor = ui.cursor
        <3>1. ui \in VoiceUis /\ 0 \in 0 .. MaxVoice
            BY <1>0, <2>1 DEF VoiceFits, VoiceAssumption
        <3> QED BY <2>1, <3>1 DEF VoiceUis, Statuses
    <2>3. VoiceFits(ui')
        BY <1>0, <2>1, <2>2, VoiceLooks
    <2>4. VoiceOK'
        BY <1>0, <2>1, ClosedFits, SocketsChange
    <2> QED BY <1>1, <2>1, <2>3, <2>4
<1>8. ASSUME NEW a \in starts, CreateSession(a) PROVE FrontOK' /\ RestOK'
    <2>1. VoiceRest /\ Counted /\ page' = page /\ ui' = ui
        BY <1>2, <1>3, <1>8 DEF CreateSession
    <2> QED BY <1>0, <1>1, <1>8, <2>1, SessionBegins
<1>9. ASSUME NEW a \in starts, SessionCreated(a) PROVE FrontOK' /\ RestOK'
    <2>1. VoiceRest /\ Counted /\ page' = page
        BY <1>2, <1>3, <1>9 DEF SessionCreated
    <2>2. VoiceOK'
        BY <1>0, <1>9, <2>1, SocketOpens
    <2>3. a.session \in Sessions
        BY <1>0, <1>9 DEF SessionCreated, StartOK, Starts, Sessions, VoiceAssumption
    <2>4. a.watched => page = "voice"
        BY <1>0 DEF StartOK
    <2>5. a.watched => ui' = [ui EXCEPT !.ws = a.session, !.mine = @ \cup {a.session}]
        BY <1>9 DEF SessionCreated
    <2>6. ~a.watched => ui' = ui
        BY <1>9 DEF SessionCreated
    <2>7. a.watched => VoiceFits(ui')
        BY <1>0, <1>5, <2>3, <2>4, <2>5, VoiceMoves
    <2> QED BY <1>1, <2>1, <2>2, <2>4, <2>6, <2>7
<1>10. ASSUME NEW a \in starts, NEW u, StartReturns(a, u), VoiceRest, Counted,
              page = "voice" => VoiceFits(u), VoiceOK'
       PROVE  FrontOK' /\ RestOK'
    <2>1. ui' = ui \/ (ui' = u /\ page = "voice")
        BY <1>0, <1>10 DEF StartReturns, StartOK
    <2> QED BY <1>1, <1>10, <2>1
<1>11. ASSUME NEW a \in starts, SessionRefused(a) PROVE FrontOK' /\ RestOK'
    <2>1. /\ VoiceRest /\ Counted /\ page' = page /\ UNCHANGED <<voiceLock, sessions, sockets>>
          /\ StartReturns(a, Reset(ui, "failed"))
        BY <1>2, <1>3, <1>11 DEF SessionRefused
    <2>2. VoiceOK'
        BY <1>4, <2>1 DEF StartReturns
    <2>u. PICK u : u = Reset(ui, "failed")
        OBVIOUS
    <2>3. page = "voice" => VoiceFits(u)
        BY <1>0, <1>5, <2>u, ResetFits, 0 \in 0 .. MaxVoice DEF VoiceAssumption
    <2> QED BY <1>10, <2>1, <2>2, <2>3, <2>u
<1>12. ASSUME NEW a \in starts, Connected(a) PROVE FrontOK' /\ RestOK'
    <2>1. /\ VoiceRest /\ Counted /\ page' = page /\ UNCHANGED <<voiceLock, sessions, sockets>>
        BY <1>2, <1>3, <1>12 DEF Connected
    <2>2. CASE StartReturns(a, [Reset(ui, "failed") EXCEPT !.ws = 0])
        <3>1. VoiceOK'
            BY <1>4, <2>1, <2>2 DEF StartReturns
        <3>u. PICK u : u = [Reset(ui, "failed") EXCEPT !.ws = 0]
            OBVIOUS
        <3>2. page = "voice" => VoiceFits(u)
            BY <1>0, <1>5, <3>u, ResetFits, 0 \in 0 .. MaxVoice DEF VoiceAssumption
        <3> QED BY <1>10, <2>1, <2>2, <3>1, <3>2, <3>u
    <2>3. CASE StartMoves(a, "capturing", a.session) /\ UNCHANGED ui
        <3>1. a.session # 0
            BY <1>0, <1>12 DEF Connected, StartOK
        <3>2. \A c \in starts : StartOK(c)'
            BY <1>0, <2>1 DEF StartOK
        <3>3. /\ \A c \in starts' : StartOK(c)'
              /\ \A c, d \in starts' : c.session = d.session /\ c.session # 0 => c = d
            BY <1>0, <2>1, <2>3, <3>1, <3>2, StartGoesOn
        <3>4. VoiceOK'
            BY <1>0, <2>1, <3>3 DEF VoiceOK, SessionOK
        <3> QED BY <1>1, <2>1, <2>3, <3>4
    <2> QED BY <1>12, <2>2, <2>3 DEF Connected
<1>13. ASSUME NEW a \in starts, CaptureGranted(a) PROVE FrontOK' /\ RestOK'
    <2>1. /\ VoiceRest /\ Counted /\ page' = page /\ UNCHANGED <<voiceLock, sessions, sockets>>
          /\ StartReturns(a, [Reset(ui, "active") EXCEPT !.capture = a.session])
        BY <1>2, <1>3, <1>13 DEF CaptureGranted
    <2>2. VoiceOK'
        BY <1>4, <2>1 DEF StartReturns
    <2>u. PICK u : u = [Reset(ui, "active") EXCEPT !.capture = a.session]
        OBVIOUS
    <2>3. a.session \in 0 .. MaxVoice
        BY <1>0 DEF StartOK, Starts
    <2>4. page = "voice" => VoiceFits(u)
        BY <1>0, <1>5, <2>u, <2>3, ResetFits
    <2> QED BY <1>10, <2>1, <2>2, <2>4, <2>u
<1>14. ASSUME NEW a \in starts, CaptureDenied(a) PROVE FrontOK' /\ RestOK'
    <2>1. /\ VoiceRest /\ Counted /\ page' = page /\ UNCHANGED <<voiceLock, sessions>>
          /\ StartReturns(a, [Reset(ui, "failed") EXCEPT !.ws = 0])
          /\ sockets' = ClosedSocket(sockets, a.session)
        BY <1>2, <1>3, <1>14 DEF CaptureDenied
    <2>2. VoiceOK'
        <3>1. starts' \subseteq starts
            BY <2>1 DEF StartReturns
        <3> QED BY <1>0, <2>1, <3>1, ClosedFits, SocketsChange
    <2>u. PICK u : u = [Reset(ui, "failed") EXCEPT !.ws = 0]
        OBVIOUS
    <2>3. page = "voice" => VoiceFits(u)
        BY <1>0, <1>5, <2>u, ResetFits, 0 \in 0 .. MaxVoice DEF VoiceAssumption
    <2> QED BY <1>10, <2>1, <2>2, <2>3, <2>u
<1>15. ASSUME NEW s \in Sessions, SocketClosed(s) PROVE FrontOK' /\ RestOK'
    <2>1. /\ VoiceRest /\ Counted /\ page' = page /\ UNCHANGED voiceVars /\ page = "voice"
        BY <1>2, <1>3, <1>15 DEF SocketClosed, OnVoice
    <2>s. PICK status : status = IF ui.status = "active" THEN "finalized" ELSE ui.status
        OBVIOUS
    <2>2. status \in Statuses
        BY <1>0, <2>1, <2>s DEF VoiceFits, VoiceUis, Statuses
    <2>3. ui' = [ui EXCEPT !.mine = @ \ {s}, !.status = status]
        BY <1>0, <1>15, <2>1, <2>s DEF SocketClosed, VoiceFits, VoiceUis
    <2>4. VoiceFits(ui')
        BY <1>0, <2>1, <2>2, <2>3, VoiceMoves
    <2>5. VoiceOK'
        BY <1>4, <2>1 DEF voiceVars
    <2> QED BY <1>1, <2>1, <2>4, <2>5
<1>16. ASSUME NEW s \in Sessions, VoiceEvent(s) PROVE FrontOK' /\ RestOK'
    <2>1. /\ VoiceRest /\ Counted /\ page' = page /\ UNCHANGED voiceVars /\ page = "voice"
        BY <1>3, <1>16 DEF VoiceEvent, OnVoice, Counted
    <2>2. VoiceOK'
        BY <1>4, <2>1 DEF voiceVars
    <2>3. VoiceFits(ui')
        <3>1. ASSUME NEW role \in {"user", "assistant"}, NEW interim \in BOOLEAN,
                     ui' = AppendTranscriptEntry(ui,
                            [index |-> ui.cursor, role |-> role, interim |-> interim])
              PROVE  VoiceFits(ui')
            BY <1>0, <2>1, <3>1, AppendFits
        <3>2. ASSUME NEW status \in {"failed", "finalized"}, ui' = [ui EXCEPT !.status = status]
              PROVE  VoiceFits(ui')
            BY <1>0, <1>5, <1>16, <2>1, <3>2, VoiceMoves
        <3> QED BY <1>16, <3>1, <3>2 DEF VoiceEvent
    <2> QED BY <1>1, <2>1, <2>2, <2>3
<1>17. ASSUME NEW s \in Sessions, SocketAccepted(s) PROVE FrontOK' /\ RestOK'
    <2>1. VoiceRest /\ Counted /\ page' = page /\ ui' = ui
        BY <1>2, <1>3, <1>17 DEF SocketAccepted
    <2> QED BY <1>0, <1>1, <1>17, <2>1, AcceptedFits
<1>18. ASSUME NEW s \in Sessions, SocketFailed(s) PROVE FrontOK' /\ RestOK'
    <2>1. /\ VoiceRest /\ Counted /\ page' = page /\ ui' = ui
          /\ UNCHANGED <<voiceLock, sessions, starts>> /\ sockets[s] = "opening"
          /\ sockets' = [sockets EXCEPT ![s] = "failed"]
        BY <1>2, <1>3, <1>18 DEF SocketFailed
    <2>2. /\ sockets' \in [Sessions -> SocketStates] /\ sockets'[s] = "failed"
          /\ \A t \in Sessions : t # s => sockets'[t] = sockets[t]
        BY <1>0, <2>1 DEF VoiceOK, SocketStates
    <2>3. VoiceOK'
        BY <1>0, <2>1, <2>2, SocketsChange
    <2> QED BY <1>1, <2>1, <2>3
<1>19. ASSUME NEW s \in Sessions, Booted(s) PROVE FrontOK' /\ RestOK'
    <2>1. VoiceRest /\ Counted /\ page' = page /\ ui' = ui
        BY <1>2, <1>3, <1>19 DEF Booted
    <2> QED BY <1>0, <1>1, <1>19, <2>1, BootedFits
<1>20. ASSUME NEW s \in Sessions, FinalizeSession(s) PROVE FrontOK' /\ RestOK'
    <2>1. VoiceRest /\ Counted /\ page' = page /\ ui' = ui
        BY <1>2, <1>3, <1>20 DEF FinalizeSession
    <2> QED BY <1>0, <1>1, <1>20, <2>1, FinalizedFits
<1> QED BY <1>6, <1>7, <1>8, <1>9, <1>11, <1>12, <1>13, <1>14, <1>15, <1>16, <1>17, <1>18,
           <1>19, <1>20
        DEF VoiceNext

-----------------------------------------------------------------------------
(* The weights page, and the lists. *)

LEMMA WeightsStand ==
    ASSUME WeightsNext
    PROVE  OnlyWeights /\ Counted /\ page' = page /\ (page = "weights" \/ ui' = ui)
<1>p. OnlyWeights => page' = page
    BY DEF OnlyWeights
<1>1. CASE FetchArchitecture
    BY <1>p, <1>1 DEF FetchArchitecture, Counted
<1>2. ASSUME NEW p \in Projects, ArchitectureAnswered(p)
      PROVE  OnlyWeights /\ Counted /\ (page = "weights" \/ ui' = ui)
    BY <1>2 DEF ArchitectureAnswered, Counted
<1>3. CASE Drawn /\ OnlyWeightsUi /\ Counted
    BY <1>p, <1>3 DEF Drawn, OnWeights, OnlyWeightsUi
<1>4. CASE CloseLayerDetail \/ SetFlowMode \/ TypeSample \/ HandleCapture \/ HandleFlowCapture
    <2>1. Drawn
        BY <1>4 DEF CloseLayerDetail, SetFlowMode, TypeSample, HandleCapture,
                    HandleFlowCapture, DetailOpen, OnFlow, WeightsFree
    <2>2. OnlyWeightsUi /\ Counted
        BY <1>4 DEF CloseLayerDetail, SetFlowMode, TypeSample, HandleCapture,
                    HandleFlowCapture, Capture, Counted
    <2> QED BY <1>3, <2>1, <2>2
<1>5. ASSUME NEW a, NEW b,
             \/ SetSecondaryTab(a) \/ OnSelectLayer(a) \/ ToggleExpand(a)
             \/ ClickTreeRow(a) \/ TypeSearch(a) \/ OnSelectNode(a)
             \/ HandleToggleLayer(a) \/ Resized(a) \/ CaptureAnswered(a)
             \/ PickSnapshot(a, b)
      PROVE  OnlyWeightsUi /\ Counted
    BY <1>5 DEF SetSecondaryTab, OnSelectLayer, ToggleExpand, ClickTreeRow, TypeSearch,
                OnSelectNode, HandleToggleLayer, Resized, CaptureAnswered, PickSnapshot,
                Counted
<1> QED BY <1>p, <1>1, <1>2, <1>3, <1>4, <1>5 DEF WeightsNext

LEMMA WeightsKeep ==
    ASSUME FrontOK, RestOK, WeightsNext,
           UNCHANGED <<tableVars, modelVars, serveVars, datasetVars, ruleVars, voiceVars>>
    PROVE  FrontOK' /\ RestOK'
<1>1. OnlyWeights /\ Counted /\ (page = "weights" \/ ui' = ui)
    BY WeightsStand
<1>2. Stands /\ writes' = writes /\ page' = page
    BY <1>1 DEF Stands, OnlyWeights, configVars, requestVars
<1>3. PlaceOK' /\ CoreOK' /\ WritesOK'
    BY <1>1, <1>2, StandsKeeps
<1>4. UiOK'
    <2>1. CASE page = "weights"
        BY <1>2, <2>1, PlainPage
    <2>2. CASE page # "weights"
        BY <1>1, <1>2, <2>2, StandsKeeps
    <2> QED BY <2>1, <2>2
<1> QED BY <1>2, <1>3, <1>4, RestKept DEF FrontOK, RestOK

LEMMA ShowsFit == Shows \in SUBSET Tabled
BY DEF Shows, Tabled, ModelsShows, SuggestionsShows, ArtifactsShows, ProjectsShows, ShellShows

LEMMA TableStepKeeps ==
    ASSUME FrontOK, RestOK, TableStep, OtherWork,
           UNCHANGED <<cfg, modelVars, serveVars, datasetVars, voiceVars, archs>>
    PROVE  FrontOK' /\ RestOK'
<1>1. Stands /\ writes' = writes /\ page' = page /\ UNCHANGED <<ui, ruleVars>>
    BY DEF TableStep, OtherWork, Stands, configVars, requestVars
<1>2. TablesOK' /\ Counted
    <2>0. TablesOK
        BY DEF RestOK
    <2>1. ASSUME NEW t \in Tabled, FetchList(t) PROVE TablesOK' /\ Counted
        BY <2>0, <2>1, FetchListKeeps
    <2>2. ASSUME NEW t \in Tabled, ListAnswered(t) PROVE TablesOK' /\ Counted
        BY <2>0, <2>2, ListAnsweredKeeps
    <2>3. ASSUME NEW c \in calls, CallHandled(c), UNCHANGED steps PROVE TablesOK' /\ Counted
        BY <2>0, <2>3, CallHandledKeeps DEF Counted
    <2> QED BY <2>1, <2>2, <2>3 DEF TableStep
<1>3. FrontOK'
    BY <1>1, <1>2, StandsKeeps DEF FrontOK
<1> QED BY <1>1, <1>2, <1>3, RestKept DEF RestOK

\* what the page does with the answer of a call
LEMMA AnswerShown ==
    ASSUME FrontOK, NEW c, CallOK(c), UNCHANGED <<versions, activeOf, page, activeProject>>,
           ui' = UiAfter(c) \/ ui' = ui
    PROVE  UiOK'
<1>1. UiOK /\ Onward
    BY VersionsStand DEF FrontOK, CoreOK
<1>2. CASE ui' = ui
    BY <1>1, <1>2, UiOnward
<1>3. CASE page = "models" /\ ui' = ModelsUiAfter(c)
    <2>1. ModelsUiOK
        BY <1>1, <1>3 DEF UiOK
    <2>2. ModelsUiOK'
        BY <1>3, <2>1 DEF ModelsUiOK, ModelsUiAfter
    <2> QED BY <1>3, <2>2, OnePage
<1>4. CASE page = "suggestions" /\ ui' = SuggestionsUiAfter(c)
    <2>1. SuggestionsUiOK /\ c.row \in 0 .. MaxRows
        BY <1>1, <1>4 DEF UiOK, CallOK, Calls
    <2>2. ui' \in SuggestionsUis
        <3>1. Selecting(c.row) \in SuggestionsUis
            BY <2>1, SelectingFits
        <3>2. /\ ui \in SuggestionsUis
              /\ [ui EXCEPT !.chatDraft = FALSE] \in SuggestionsUis
              /\ [ui EXCEPT !.rulesOpen = FALSE, !.rules = {}] \in SuggestionsUis
            BY <2>1 DEF SuggestionsUiOK, SuggestionsUis
        <3> QED BY <1>4, <3>1, <3>2 DEF SuggestionsUiAfter
    <2> QED BY <1>4, <2>2, OnePage DEF SuggestionsUiOK
<1>5. CASE page \in {"artifacts", "projects"}
    BY <1>5, PlainPage
<1> QED BY <1>2, <1>3, <1>4, <1>5 DEF UiAfter

\* every answer is old now
LEMMA AllStaleKeeps ==
    ASSUME CfgOK, NEW shown, cfg' = AllStale(cfg, shown),
           UNCHANGED <<versions, activeOf, followed>>
    PROVE  CfgOK'
<1>1. \A p \in Projects : ConfigEntryOK(Invalidated(cfg[p], p \in shown), p, followed[p])
    <2> TAKE p \in Projects
    <2>b. PICK b : b = (p \in shown)
        OBVIOUS
    <2>e. PICK e : e = Invalidated(cfg[p], b)
        OBVIOUS
    <2>1. ConfigEntryOK(cfg[p], p, followed[p])
        BY DEF CfgOK
    <2>2. /\ e \in Entry(VersionIds) /\ e.data = cfg[p].data /\ e.flight \subseteq cfg[p].flight
          /\ cfg[p].data # NoAnswer => e.stale
        BY <2>1, <2>e, EntryInvalidated DEF ConfigEntryOK
    <2>3. ConfigEntryOK(e, p, followed[p])
        BY <2>1, <2>2 DEF ConfigEntryOK, NoAnswer
    <2> QED BY <2>3, <2>b, <2>e
<1>2. cfg' = [p \in Projects |-> Invalidated(cfg[p], p \in shown)]
    BY DEF AllStale
<1>3. \A p \in Projects : cfg'[p] = Invalidated(cfg[p], p \in shown)
    BY <1>2
<1>4. DOMAIN cfg' = Projects /\ cfg' = [p \in Projects |-> cfg'[p]]
    BY <1>2
<1>5. \A p \in Projects : ConfigEntryOK(cfg'[p], p, followed[p])
    BY <1>1, <1>3
<1>6. \A p \in Projects : ConfigEntryOK(cfg[p], p, followed[p])'
    BY <1>5 DEF ConfigEntryOK, OfProject, VersionIds
<1> QED BY <1>4, <1>6 DEF CfgOK

LEMMA ProfilesStale ==
    ASSUME DatasetsOK, NEW shown, datasetProfile' = AllStale(datasetProfile, shown),
           UNCHANGED <<datasetForm, sanitizes>>
    PROVE  DatasetsOK'
<1>1. \A p \in Projects :
        Invalidated(datasetProfile[p], p \in shown) \in Entry(Values \cup {0})
    BY EntryInvalidated DEF DatasetsOK
<1>2. datasetProfile' \in [Projects -> Entry(Values \cup {0})]
    BY <1>1 DEF AllStale
<1> QED BY <1>2 DEF DatasetsOK

LEMMA TableAnswerKeeps ==
    ASSUME FrontOK, RestOK, TableAnswer, OtherWork,
           UNCHANGED <<modelVars, serveVars, voiceVars>>
    PROVE  FrontOK' /\ RestOK'
<1>c. PICK c \in calls :
        /\ CallAnswered(c, Shows)
        /\ IF ListsChanged(c)
           THEN /\ cfg' = AllStale(cfg, {p \in Projects : IsShown(p)})
                /\ datasetProfile' = AllStale(datasetProfile, ShownOn("datasets"))
           ELSE UNCHANGED <<cfg, datasetProfile>>
        /\ UNCHANGED <<datasetForm, sanitizes>>
        /\ ui' = UiAfter(c) \/ ui' = ui
        /\ shownRules' \in {shownRules, {ruleSettings}} /\ ruleSettings' = ruleSettings
        /\ steps' = steps
    BY DEF TableAnswer
<1>1. /\ UNCHANGED <<versions, activeOf, dataRows, launched, tour, activeProject, page,
                     saves, launches, writes, followed>>
    BY DEF OtherWork, configVars, requestVars
<1>2. TablesOK' /\ CallOK(c)
    BY <1>c, ShowsFit, CallAnsweredKeeps DEF RestOK, TablesOK
<1>3. UiOK'
    BY <1>c, <1>1, <1>2, AnswerShown
<1>4. ServerOK' /\ Onward
    BY <1>1, ServerStands
<1>5. CfgOK'
    <2>1. CASE ListsChanged(c)
        BY <1>c, <1>1, <2>1, AllStaleKeeps DEF FrontOK, CoreOK
    <2>2. CASE ~ListsChanged(c)
        BY <1>c, <1>1, <1>4, <2>2, CfgOnward DEF FrontOK, CoreOK
    <2> QED BY <2>1, <2>2
<1>6. DatasetsOK'
    <2>1. CASE ListsChanged(c)
        BY <1>c, <2>1, ProfilesStale DEF RestOK
    <2>2. CASE ~ListsChanged(c)
        BY <1>c, <2>2 DEF RestOK, DatasetsOK
    <2> QED BY <2>1, <2>2
<1>7. RulesOK'
    BY <1>c DEF RestOK, RulesOK
<1>8. FrontOK'
    <2>1. Counted
        BY <1>c DEF Counted
    <2> QED BY <1>1, <1>3, <1>4, <1>5, <2>1, FrontOnward DEF FrontOK, CoreOK
<1> QED BY <1>1, <1>2, <1>6, <1>7, <1>8, RestKept DEF RestOK

-----------------------------------------------------------------------------
(* The page in front, and the project that is chosen. *)

LEMMA FormBegins == FormUi = [form |-> DefaultForm, preset |-> ""] /\ DefaultForm \in FormConfig
<1>1. {"q_proj", "k_proj"} \subseteq TARGET_MODULE_PRESETS
    BY DEF TARGET_MODULE_PRESETS
<1> QED BY <1>1 DEF FormUi, DefaultForm, FormConfig

LEMMA VoiceBegins == VoiceFits(VoiceUi)
<1>1. <<>> \in Seq(Entries) /\ 0 \in 0 .. MaxVoice
    BY EmptySeq DEF VoiceAssumption
<1>2. VoiceUi \in VoiceUis
    BY <1>1 DEF VoiceUi, VoiceUis, Statuses
<1>3. VoiceUi.transcript = <<>>
    BY DEF VoiceUi
<1> QED BY <1>2, <1>3, VoiceClears

LEMMA ShellBegins == ShellFits(ShellUi)
BY ShellStarts DEF Themes

LEMMA TrainingBegins ==
    TrainingUi \in TrainingUis /\ TrainingUi.yaml = ClosedDialog /\ DialogOK(ClosedDialog)
<1>1. DefaultConfig \in Contents
    BY SectionsOf
<1>2. ClosedDialog \in Dialogs /\ ClosedDialog.asking = Nothing /\ ClosedDialog.loads = {}
      /\ ClosedDialog.rollback = 0 /\ ~ClosedDialog.open
    <2>r. PICK r : r = ResetDialog(DefaultConfig)
        OBVIOUS
    <2>1. r \in Dialogs /\ r.asking = Nothing /\ r.loads = {} /\ r.rollback = 0
        BY <1>1, <2>r DEF ResetDialog, Dialogs, Nothing
    <2>2. ClosedDialog = [r EXCEPT !.open = FALSE]
        BY <2>r DEF ClosedDialog
    <2> QED BY <2>1, <2>2 DEF Dialogs
<1>3. TrainingUi \in TrainingUis /\ TrainingUi.yaml = ClosedDialog
    BY <1>2 DEF TrainingUi, TrainingUis
<1> QED BY <1>2, <1>3 DEF DialogOK

\* what a page begins with
LEMMA UiBegins ==
    /\ UiOf("training") = TrainingUi /\ UiOf("adapters") = AdaptersUi
    /\ UiOf("models") = ModelsUi /\ UiOf("form") = FormUi
    /\ UiOf("datasets") = DatasetsUi /\ UiOf("suggestions") = SuggestionsUi
    /\ UiOf("voice") = VoiceUi /\ UiOf("shell") = ShellUi
BY DEF UiOf

LEMMA Begun ==
    /\ AdaptersUi \in AdaptersUis /\ SuggestionsUi \in SuggestionsUis
    /\ ModelsUi \in [register : {"closed", "empty", "typed"}, merging : BOOLEAN,
                     mergeRun : 0 .. MaxRows]
    /\ DatasetsUi \in [dialog : {"none", "add", "validate", "inspect"},
                       draft : Values \cup {0}, preview : {0}]
    /\ FormUi \in [form : FormConfig, preset : ADAPTERS_PRESETS \cup {""}]
    /\ FormUi.preset = "" /\ VoiceFits(VoiceUi) /\ ShellFits(ShellUi)
<1>1. 0 \in 0 .. MaxRows /\ 0 \in 0 .. 1
    BY NoRatiosFit
<1>2. AdaptersUi \in AdaptersUis
    BY DEF AdaptersUi, AdaptersUis
<1>3. SuggestionsUi \in SuggestionsUis
    BY <1>1 DEF SuggestionsUi, SuggestionsUis
<1>4. ModelsUi \in [register : {"closed", "empty", "typed"}, merging : BOOLEAN,
                   mergeRun : 0 .. MaxRows]
    BY <1>1 DEF ModelsUi
<1>5. DatasetsUi \in [dialog : {"none", "add", "validate", "inspect"},
                     draft : Values \cup {0}, preview : {0}]
    BY DEF DatasetsUi
<1>6. FormUi \in [form : FormConfig, preset : ADAPTERS_PRESETS \cup {""}] /\ FormUi.preset = ""
    BY FormBegins
<1> QED BY <1>2, <1>3, <1>4, <1>5, <1>6, VoiceBegins, ShellBegins

LEMMA BeginsNow ==
    ASSUME ui = UiOf(page) PROVE UiOK
<1>1. page = "training" => TrainingUiOK
    BY UiBegins, TrainingBegins DEF TrainingUiOK
<1>2. /\ page = "adapters" => AdaptersUiOK
      /\ page = "models" => ModelsUiOK
      /\ page = "datasets" => DatasetsUiOK
      /\ page = "suggestions" => SuggestionsUiOK
      /\ page = "form" => FormUiOK
      /\ page = "voice" => VoiceUiOK
      /\ page = "shell" => ShellUiOK
    BY UiBegins, Begun DEF AdaptersUiOK, ModelsUiOK, DatasetsUiOK, SuggestionsUiOK, FormUiOK,
                           VoiceUiOK, ShellUiOK
<1> QED BY <1>1, <1>2 DEF UiOK

LEMMA BeginsLater ==
    ASSUME ui' = UiOf(page'), page' # "training" PROVE UiOK'
<1>1. /\ page' = "adapters" => AdaptersUiOK'
      /\ page' = "models" => ModelsUiOK'
      /\ page' = "datasets" => DatasetsUiOK'
      /\ page' = "suggestions" => SuggestionsUiOK'
      /\ page' = "form" => FormUiOK'
      /\ page' = "voice" => VoiceUiOK'
      /\ page' = "shell" => ShellUiOK'
    BY UiBegins, Begun DEF AdaptersUiOK, ModelsUiOK, DatasetsUiOK, SuggestionsUiOK, FormUiOK,
                           VoiceUiOK, ShellUiOK
<1> QED BY <1>1 DEF UiOK

LEMMA RefilledFits ==
    ASSUME ModelOK, NEW p \in Projects PROVE Refilled(modelForm, p) \in Values \cup {0}
BY DEF ModelOK, Refilled

LEMMA CallsLeft == ASSUME TablesOK, calls' = Unwatched(calls), UNCHANGED <<tables, lists, told>>
                   PROVE  TablesOK'
<1>1. \A c \in calls' : CallOK(c)
    BY CallMoves DEF Unwatched, TablesOK
<1> QED BY <1>1 DEF TablesOK

\* the voice page is left: its starts go on, and are watched by no one
LEMMA VoiceIsLeft == ASSUME VoiceOK, VoiceLeft PROVE VoiceOK'
<1>1. /\ sockets' \in [Sessions -> SocketStates]
      /\ \A s \in Sessions : SessionOK(s)'
      /\ \A a \in starts : a.phase = "created" => sockets'[a.session] = "none"
    <2>1. CASE sockets' = ClosedSocket(sockets, ui.ws)
        BY <2>1, ClosedFits, SocketsChange DEF VoiceLeft
    <2>2. CASE sockets' = sockets
        BY <2>2, SocketsChange DEF VoiceLeft, VoiceOK
    <2> QED BY <2>1, <2>2 DEF VoiceLeft
<1>2. \A a \in starts' :
        \E b \in starts : a = [b EXCEPT !.watched = FALSE]
    BY DEF VoiceLeft, Unwatched
<1>3. ASSUME NEW b \in starts, NEW a, a = [b EXCEPT !.watched = FALSE]
      PROVE  StartOK(a)' /\ a.session = b.session
    <2>1. StartOK(b) /\ b \in Starts
        BY DEF VoiceOK, StartOK
    <2>2. a \in Starts /\ a.phase = b.phase /\ a.session = b.session /\ ~a.watched
        BY <1>3, <2>1 DEF Starts
    <2>3. sessions' = sessions
        BY DEF VoiceLeft
    <2> QED BY <1>1, <2>1, <2>2, <2>3 DEF StartOK
<1>4. \A a \in starts' : StartOK(a)'
    BY <1>2, <1>3
<1>5. \A a, c \in starts' : a.session = c.session /\ a.session # 0 => a = c
    <2> SUFFICES ASSUME NEW a \in starts', NEW c \in starts', a.session = c.session,
                        a.session # 0
                 PROVE  a = c
        OBVIOUS
    <2>b. PICK b \in starts : a = [b EXCEPT !.watched = FALSE]
        BY <1>2
    <2>d. PICK d \in starts : c = [d EXCEPT !.watched = FALSE]
        BY <1>2
    <2>1. a.session = b.session /\ c.session = d.session
        BY <1>3, <2>b, <2>d
    <2>2. b = d
        BY <2>1 DEF VoiceOK
    <2> QED BY <2>b, <2>d, <2>2
<1>6. UNCHANGED <<voiceLock, sessions>>
    BY DEF VoiceLeft
<1> QED BY <1>1, <1>4, <1>5, <1>6 DEF VoiceOK

LEMMA SaveLeft ==
    ASSUME NEW s, SaveOK(s), UNCHANGED versions PROVE SaveOK([s EXCEPT !.watched = FALSE])'
<1>n. PICK n : n = [s EXCEPT !.watched = FALSE]
    OBVIOUS
<1>1. /\ n \in SaveRequests /\ n.shown = s.shown /\ n.content = s.content /\ n.phase = s.phase
      /\ n.version = s.version /\ n.project = s.project /\ ~n.watched
    BY <1>n DEF SaveOK, SaveRequests
<1>2. SaveOK(n)'
    BY <1>1 DEF SaveOK, OfProject, VersionIds
<1> QED BY <1>2, <1>n

LEMMA LaunchLeft ==
    ASSUME NEW l, LaunchOK(l), UNCHANGED versions
    PROVE  LaunchOK([l EXCEPT !.watched = FALSE])'
<1>n. PICK n : n = [l EXCEPT !.watched = FALSE]
    OBVIOUS
<1>1. /\ n \in LaunchRequests /\ n.shown = l.shown /\ n.version = l.version /\ ~n.watched
    BY <1>n DEF LaunchOK, LaunchRequests
<1>2. LaunchOK(n)'
    BY <1>1 DEF LaunchOK, VersionIds
<1> QED BY <1>2, <1>n

LEMMA WriteLeft ==
    ASSUME NEW w, WriteOK(w) PROVE WriteOK([w EXCEPT !.watched = FALSE])'
<1>n. PICK n : n = [w EXCEPT !.watched = FALSE]
    OBVIOUS
<1>1. n \in WriteRequests /\ n.by = w.by /\ n.row = w.row /\ ~n.watched
    BY <1>n DEF WriteOK, WriteRequests
<1>2. WriteOK(n)'
    BY <1>1 DEF WriteOK
<1> QED BY <1>2, <1>n

LEMMA ServingLeft ==
    ASSUME ServingOK, serveCalls' = Unwatched(serveCalls),
           UNCHANGED <<serve, lockHolder, serveQuery>>
    PROVE  ServingOK'
<1>1. \A c \in serveCalls : [c EXCEPT !.watched = FALSE] \in ServeCalls
    BY DEF ServingOK, ServeCalls
<1> QED BY <1>1 DEF ServingOK, Unwatched

LEMMA SanitizesLeft ==
    ASSUME DatasetsOK, sanitizes' = Unwatched(sanitizes), datasetForm' \in DatasetForms,
           datasetProfile' = datasetProfile
    PROVE  DatasetsOK'
<1>1. \A s \in sanitizes' : SanitizeOK(s)
    BY SanitizeMoves DEF DatasetsOK, Unwatched
<1> QED BY <1>1 DEF DatasetsOK

LEMMA NavigateKeeps ==
    ASSUME FrontOK, RestOK, NEW pg \in tour.pages, Navigate(pg) PROVE FrontOK' /\ RestOK'
<1>1. /\ PlaceOK /\ ServerOK /\ CfgOK /\ TablesOK /\ ModelOK /\ DatasetsOK /\ RulesOK
      /\ ServingOK /\ VoiceOK /\ activeProject \in Projects
    BY DEF FrontOK, CoreOK, RestOK, PlaceOK
<1>2. /\ page' = pg /\ Step /\ ui' = Settled(UiOf(pg), pg, activeProject, cfg)
      /\ UNCHANGED <<configVars, tour, activeProject, cfg, followed>> /\ PageLeft
    BY DEF Navigate
<1>3. ServerOK' /\ Onward
    <2>1. UNCHANGED <<versions, activeOf, dataRows, launched>>
        BY <1>2 DEF configVars
    <2> QED BY <2>1, ServerStands
<1>4. PlaceOK'
    BY <1>1, <1>2 DEF PlaceOK, Step, TourAssumption
<1>5. SavesOK' /\ LaunchesOK' /\ WritesOK'
    <2>1. /\ versions' = versions /\ saves' = Unwatched(saves)
          /\ launches' = Unwatched(launches) /\ writes' = Unwatched(writes)
        BY <1>2 DEF configVars, PageLeft
    <2>2. /\ \A s \in saves : SaveOK([s EXCEPT !.watched = FALSE])'
          /\ \A l \in launches : LaunchOK([l EXCEPT !.watched = FALSE])'
          /\ \A w \in writes : WriteOK([w EXCEPT !.watched = FALSE])'
        BY <2>1, SaveLeft, LaunchLeft, WriteLeft
           DEF FrontOK, CoreOK, SavesOK, LaunchesOK, WritesOK
    <2> QED BY <2>1, <2>2 DEF Unwatched, SavesOK, LaunchesOK, WritesOK
<1>6. CfgOK'
    BY <1>1, <1>2, <1>3, CfgOnward
<1>7. TablesOK'
    BY <1>1, CallsLeft DEF Navigate, PageLeft
<1>8. ModelOK'
    BY <1>1, RefilledFits DEF Navigate, ModelOK
<1>9. DatasetsOK'
    <2>1. datasetForm' \in DatasetForms
        <3>1. datasetForm \in DatasetForms
            BY <1>1 DEF DatasetsOK
        <3>2. FilledForm(datasetForm, datasetProfile[activeProject]) \in DatasetForms
            BY <1>1, <3>1, FormFilled DEF DatasetsOK
        <3> QED BY <3>1, <3>2 DEF Navigate
    <2> QED BY <1>1, <2>1, SanitizesLeft DEF Navigate, PageLeft
<1>10. RulesOK' /\ ServingOK' /\ VoiceOK'
    BY <1>1, ServingLeft, VoiceIsLeft DEF Navigate, PageLeft, RulesOK, ruleVars
<1>11. CachedOK(cfg, activeProject)
    BY <1>1 DEF CfgOK, ConfigEntryOK, Entry, CachedOK
<1>12. UiOK'
    <2>1. CASE pg = "training"
        <3>1. ui' = TrainingSettled(TrainingUi, activeProject, cfg)
            BY <1>2, <2>1, UiBegins DEF Settled
        <3>2. ui' \in TrainingUis /\ DialogOK(ui'.yaml)
            BY <1>1, <1>11, <3>1, TrainingSettles, TrainingBegins
        <3>y. PICK y : y = ui'.yaml
            OBVIOUS
        <3>3. DialogOK(y)'
            BY <1>2, <1>3, <3>2, <3>y, DialogOnward
        <3> QED BY <1>2, <2>1, <3>2, <3>3, <3>y DEF UiOK, TrainingUiOK
    <2>2. CASE pg = "adapters"
        <3>1. ui' = AdaptersSettled(AdaptersUi, activeProject, cfg)
            BY <1>2, <2>2, UiBegins DEF Settled
        <3>2. AdaptersUi \in AdaptersUis
            BY DEF AdaptersUi, AdaptersUis
        <3>3. ui' \in AdaptersUis
            BY <1>1, <1>11, <3>1, <3>2, AdaptersSettles
        <3> QED BY <1>2, <2>2, <3>3 DEF UiOK, AdaptersUiOK
    <2>3. CASE pg = "weights"
        BY <1>2, <2>3 DEF UiOK
    <2>4. CASE pg \notin {"training", "adapters", "weights"}
        <3>1. ui' = UiOf(page')
            BY <1>2, <2>4 DEF Settled
        <3> QED BY <1>2, <2>4, <3>1, BeginsLater
    <2> QED BY <2>1, <2>2, <2>3, <2>4
<1> QED BY <1>3, <1>4, <1>5, <1>6, <1>7, <1>8, <1>9, <1>10, <1>12 DEF FrontOK, CoreOK, RestOK

LEMMA SaveAdopted ==
    ASSUME NEW s, SaveOK(s), NEW p \in Projects, UNCHANGED <<versions, page>>
    PROVE  SaveOK([s EXCEPT !.owner = p])'
<1>n. PICK n : n = [s EXCEPT !.owner = p]
    OBVIOUS
<1>1. /\ n \in SaveRequests /\ n.shown = s.shown /\ n.content = s.content /\ n.phase = s.phase
      /\ n.version = s.version /\ n.project = s.project /\ n.watched = s.watched /\ n.by = s.by
    BY <1>n DEF SaveOK, SaveRequests
<1>2. SaveOK(n)'
    BY <1>1 DEF SaveOK, OfProject, VersionIds
<1> QED BY <1>2, <1>n

LEMMA WriteAdopted ==
    ASSUME NEW w, WriteOK(w), NEW p \in Projects, page' = page
    PROVE  WriteOK([w EXCEPT !.owner = p])'
<1>n. PICK n : n = [w EXCEPT !.owner = p]
    OBVIOUS
<1>1. n \in WriteRequests /\ n.by = w.by /\ n.row = w.row /\ n.watched = w.watched
    BY <1>n DEF WriteOK, WriteRequests
<1>2. WriteOK(n)'
    BY <1>1 DEF WriteOK
<1> QED BY <1>2, <1>n

\* a dialog that is closed belongs to no project
LEMMA ClosedDialogStays ==
    ASSUME NEW y, DialogOK(y), ~y.open, UNCHANGED versions PROVE DialogOK(y)'
BY DEF DialogOK, VersionIds

LEMMA SetActiveProjectKeeps ==
    ASSUME FrontOK, RestOK, NEW p \in Projects, SetActiveProject(p)
    PROVE  FrontOK' /\ RestOK'
<1>1. /\ PlaceOK /\ ServerOK /\ CfgOK /\ TablesOK /\ ModelOK /\ DatasetsOK /\ RulesOK
      /\ ServingOK /\ VoiceOK /\ UiOK
    BY DEF FrontOK, CoreOK, RestOK
<1>2. /\ page' = page /\ Step /\ ui' = Settled(ui, page, p, cfg) /\ activeProject' = p
      /\ UNCHANGED <<configVars, tour, cfg, launches, followed, tableVars, serveVars,
                     ruleVars, voiceVars>>
      /\ Unobstructed
    BY DEF SetActiveProject
<1>3. ServerOK' /\ Onward /\ versions' = versions
    <2>1. UNCHANGED <<versions, activeOf, dataRows, launched>>
        BY <1>2 DEF configVars
    <2> QED BY <2>1, ServerStands
<1>4. PlaceOK'
    BY <1>1, <1>2 DEF PlaceOK, Step, TourAssumption
<1>5. SavesOK' /\ LaunchesOK' /\ WritesOK'
    <2>1. saves' = Adopted(saves, p) /\ writes' = Adopted(writes, p) /\ launches' = launches
        BY <1>2 DEF SetActiveProject
    <2>2. /\ \A s \in saves : SaveOK([s EXCEPT !.owner = p])' /\ SaveOK(s)'
          /\ \A w \in writes : WriteOK([w EXCEPT !.owner = p])' /\ WriteOK(w)'
        BY <1>2, <1>3, SaveAdopted, WriteAdopted, SaveOnward
           DEF FrontOK, CoreOK, SavesOK, WritesOK, WriteOK
    <2>3. \A l \in launches : LaunchOK(l)'
        BY <1>2, <1>3, LaunchOnward DEF FrontOK, CoreOK, LaunchesOK
    <2> QED BY <2>1, <2>2, <2>3 DEF Adopted, SavesOK, LaunchesOK, WritesOK
<1>6. CfgOK'
    BY <1>1, <1>2, <1>3, CfgOnward
<1>7. TablesOK' /\ RulesOK' /\ ServingOK' /\ VoiceOK'
    BY <1>2, RestKept
<1>8. ModelOK'
    BY <1>1, RefilledFits DEF SetActiveProject, ModelOK
<1>9. DatasetsOK'
    <2>1. datasetForm' \in DatasetForms
        <3>1. datasetForm \in DatasetForms
            BY <1>1 DEF DatasetsOK
        <3>2. FilledForm(datasetForm, datasetProfile[p]) \in DatasetForms
            BY <1>1, <3>1, FormFilled DEF DatasetsOK
        <3> QED BY <3>1, <3>2 DEF SetActiveProject
    <2> QED BY <1>1, <2>1, SanitizesLeft DEF SetActiveProject
<1>10. CachedOK(cfg, p)
    BY <1>1 DEF CfgOK, ConfigEntryOK, Entry, CachedOK
<1>11. UiOK'
    <2>1. CASE page = "training"
        <3>1. ui' = TrainingSettled(ui, p, cfg) /\ ~ui.yaml.open
            BY <1>2, <2>1 DEF Settled, Unobstructed, PageFree, yaml
        <3>2. ui \in TrainingUis /\ DialogOK(ui.yaml)
            BY <1>1, <2>1 DEF UiOK, TrainingUiOK
        <3>3. ui' \in TrainingUis /\ ui'.yaml = ui.yaml
            BY <1>1, <1>10, <3>1, <3>2, TrainingSettles
        <3>y. PICK y : y = ui.yaml
            OBVIOUS
        <3>4. DialogOK(y)'
            BY <1>3, <3>1, <3>2, <3>y, ClosedDialogStays
        <3> QED BY <1>2, <2>1, <3>3, <3>4, <3>y, OnePage DEF TrainingUiOK
    <2>2. CASE page = "adapters"
        <3>1. ui' = AdaptersSettled(ui, p, cfg) /\ ui \in AdaptersUis
            BY <1>1, <1>2, <2>2 DEF Settled, UiOK, AdaptersUiOK
        <3>2. ui' \in AdaptersUis
            BY <1>1, <1>10, <3>1, AdaptersSettles
        <3> QED BY <1>2, <2>2, <3>2, OnePage DEF AdaptersUiOK
    <2>3. CASE page = "weights"
        BY <1>2, <2>3, PlainPage
    <2>4. CASE page \notin {"training", "adapters", "weights"}
        <3>1. ui' = ui
            BY <1>2, <2>4 DEF Settled
        <3>2. /\ ModelsUiOK' <=> ModelsUiOK
              /\ DatasetsUiOK' <=> DatasetsUiOK
              /\ SuggestionsUiOK' <=> SuggestionsUiOK
              /\ FormUiOK' <=> FormUiOK
              /\ VoiceUiOK' <=> VoiceUiOK
              /\ ShellUiOK' <=> ShellUiOK
            BY <3>1 DEF ModelsUiOK, DatasetsUiOK, SuggestionsUiOK, FormUiOK, VoiceUiOK,
                        ShellUiOK
        <3> QED BY <1>1, <1>2, <2>4, <3>2 DEF UiOK
    <2> QED BY <2>1, <2>2, <2>3, <2>4
<1> QED BY <1>3, <1>4, <1>5, <1>6, <1>7, <1>8, <1>9, <1>11 DEF FrontOK, CoreOK, RestOK

-----------------------------------------------------------------------------
(* The invariant. *)

LEMMA TablesStart == ASSUME TableInit PROVE TablesOK
<1>1. 1 \in Rows /\ 2 \in Rows
    BY DEF Rows, TableAssumption
<1>2. FirstRows \in [Tabled -> SUBSET Rows]
    <2>1. \A t \in Tabled : FirstRows[t] \in SUBSET Rows
        BY <1>1 DEF FirstRows
    <2> QED BY <2>1 DEF FirstRows
<1>3. lists \in [Tabled -> Entry(SUBSET Rows)]
    BY EntryEmpty DEF TableInit
<1> QED BY <1>2, <1>3 DEF TableInit, TablesOK

LEMMA StartsRight == Init => WorkInv
<1> SUFFICES ASSUME Init PROVE WorkInv
    OBVIOUS
<1>1. ServerOK
    BY ServerStarts DEF Init
<1>2. /\ ui = UiOf(page) /\ tour \in Tours /\ page \in tour.pages /\ steps = 0
      /\ activeProject = versions[1].project
      /\ saves = {} /\ launches = {} /\ writes = {}
      /\ cfg = [p \in Projects |-> EmptyEntry] /\ followed = [p \in Projects |-> 0]
    BY DEF Init
<1>3. UiOK
    BY <1>2, BeginsNow
<1>4. activeProject \in Projects
    <2>1. PICK p \in Projects : TRUE
        BY DEF ConfigAssumption
    <2>2. versions \in Seq(Version) /\ Len(versions) \in Nat /\ activeOf[p] \in 1 .. Len(versions)
        BY <1>1, LenProperties DEF ServerOK, VersionIds
    <2>3. 1 \in 1 .. Len(versions)
        BY <2>2
    <2>4. versions[1] \in Version
        BY <2>2, <2>3, ElementOfSeq, LenProperties
    <2> QED BY <1>2, <2>4 DEF Version
<1>5. PlaceOK
    <2>1. 0 \in 0 .. tour.clicks
        BY <1>2 DEF TourAssumption
    <2> QED BY <1>2, <1>4, <2>1 DEF PlaceOK
<1>6. CfgOK
    <2>1. \A p \in Projects : cfg[p] = EmptyEntry /\ followed[p] = 0
        BY <1>2
    <2>2. \A p \in Projects : activeOf[p] \in Nat
        BY <1>1 DEF ServerOK, VersionIds
    <2>3. \A p \in Projects : ConfigEntryOK(cfg[p], p, followed[p])
        BY <2>1, EntryEmpty DEF ConfigEntryOK, EmptyEntry, NoAnswer
    <2>4. followed \in [Projects -> Nat] /\ DOMAIN cfg = Projects
        BY <1>2
    <2>5. \A p \in Projects : followed[p] <= activeOf[p]
        BY <2>1, <2>2
    <2>6. cfg = [p \in Projects |-> cfg[p]]
        BY <1>2
    <2> QED BY <2>3, <2>4, <2>5, <2>6 DEF CfgOK
<1>7. SavesOK /\ LaunchesOK /\ WritesOK
    BY <1>2 DEF SavesOK, LaunchesOK, WritesOK
<1>8. TablesOK
    BY TablesStart DEF Init
<1>9. ModelOK /\ RulesOK
    BY DEF Init, ModelOK, RulesOK, Values
<1>10. DatasetsOK
    <2>1. DefaultDatasetForm \in DatasetForms
        BY SplitsFit DEF DefaultDatasetForm, DatasetForms
    <2>2. datasetProfile \in [Projects -> Entry(Values \cup {0})]
        BY EntryEmpty DEF Init
    <2> QED BY <2>1, <2>2 DEF Init, DatasetsOK
<1>11. ServingOK
    <2>1. serveQuery \in [Projects -> Entry(ServingStates)]
        BY EntryEmpty DEF Init, ServingInit
    <2> QED BY <2>1 DEF Init, ServingInit, ServingOK
<1>12. VoiceOK
    <2>1. 0 \in 0 .. MaxVoice
        BY DEF VoiceAssumption
    <2> QED BY <2>1 DEF Init, VoiceInit, VoiceOK, SessionOK, SessionStates, SocketStates, Alive
<1> QED BY <1>1, <1>3, <1>5, <1>6, <1>7, <1>8, <1>9, <1>10, <1>11, <1>12 DEF WorkInv, CoreOK

LEMMA InvParts == WorkInv <=> FrontOK /\ RestOK
BY DEF WorkInv, FrontOK, RestOK

LEMMA StutterKeeps ==
    ASSUME FrontOK, RestOK, UNCHANGED vars PROVE FrontOK' /\ RestOK'
<1>1. Stands /\ Counted /\ writes' = writes /\ ui' = ui /\ page' = page
    BY DEF vars, workVars, configVars, requestVars, Stands, Counted
<1>2. UNCHANGED <<tableVars, modelVars, serveVars, datasetVars, ruleVars, voiceVars>>
    BY DEF vars, ownVars
<1> QED BY <1>1, <1>2, StandsKeeps, RestKept DEF FrontOK, RestOK

LEMMA WorkStep == WorkInv /\ [Next]_vars => WorkInv'
<1> SUFFICES ASSUME WorkInv, [Next]_vars PROVE WorkInv'
    OBVIOUS
<1>0. FrontOK /\ RestOK
    BY InvParts
<1> SUFFICES FrontOK' /\ RestOK'
    BY InvParts DEF WorkInv, FrontOK, RestOK
<1>1. ASSUME NEW pg \in tour.pages, Navigate(pg) PROVE FrontOK' /\ RestOK'
    BY <1>0, <1>1, NavigateKeeps
<1>2. ASSUME NEW p \in Projects, SetActiveProject(p) PROVE FrontOK' /\ RestOK'
    BY <1>0, <1>2, SetActiveProjectKeeps
<1>3. ASSUME NEW p \in Projects, ConfigAnswered(p) PROVE FrontOK' /\ RestOK'
    BY <1>0, <1>3, AnswerKeeps
<1>4. CASE /\ Requests \/ Yaml \/ Training \/ Adapters \/ UseControl \/ UsePreset
           /\ UNCHANGED <<tableVars, ownVars>>
    BY <1>0, <1>4, PagesKeep
<1>5. CASE (Artifacts \/ ProjectList) /\ UNCHANGED ownVars
    BY <1>0, <1>5, ArtifactsKeep, ProjectListKeeps
<1>6. CASE Models /\ UNCHANGED <<serveVars, datasetVars, ruleVars, voiceVars, archs>>
    BY <1>0, <1>6, ModelsKeep
<1>7. CASE /\ ServingNext
           /\ UNCHANGED <<tableVars, modelVars, datasetVars, ruleVars, voiceVars, archs>>
    BY <1>0, <1>7, ServingKeeps
<1>8. CASE /\ Datasets
           /\ UNCHANGED <<tableVars, modelVars, serveVars, ruleVars, voiceVars, archs>>
    BY <1>0, <1>8, DatasetsKeep
<1>9. CASE Suggestions /\ UNCHANGED <<modelVars, serveVars, datasetVars, voiceVars, archs>>
    BY <1>0, <1>9, SuggestionsKeep
<1>10. CASE ShellNext /\ UNCHANGED <<modelVars, serveVars, ruleVars, voiceVars, archs>>
    BY <1>0, <1>10, ShellKeep
<1>11. CASE /\ VoiceNext
            /\ UNCHANGED <<tableVars, modelVars, serveVars, datasetVars, ruleVars, archs>>
    BY <1>0, <1>11, VoicePageKeeps
<1>12. CASE /\ WeightsNext
            /\ UNCHANGED <<tableVars, modelVars, serveVars, datasetVars, ruleVars, voiceVars>>
    BY <1>0, <1>12, WeightsKeep
<1>13. CASE /\ TableStep /\ OtherWork
            /\ UNCHANGED <<cfg, modelVars, serveVars, datasetVars, voiceVars, archs>>
    BY <1>0, <1>13, TableStepKeeps
<1>14. CASE TableAnswer /\ OtherWork /\ UNCHANGED <<modelVars, serveVars, voiceVars>>
    BY <1>0, <1>14, TableAnswerKeeps
<1>15. CASE UNCHANGED vars
    BY <1>0, <1>15, StutterKeeps
<1> QED BY <1>1, <1>2, <1>3, <1>4, <1>5, <1>6, <1>7, <1>8, <1>9, <1>10, <1>11, <1>12, <1>13,
           <1>14, <1>15 DEF Next

\* Whatever pages are opened and whatever answers come late, what every page
\* holds is of its kind, what a request and a cache entry say of a version is
\* so, and what is older than the last save is known to be old.
THEOREM WorkbenchIsKept == Spec => []WorkInv
BY StartsRight, WorkStep, PTL DEF Spec

-----------------------------------------------------------------------------
(* What the invariant says. *)

LEMMA TypesFollow == ASSUME WorkInv PROVE TypeOK
<1>0. /\ PlaceOK /\ ServerOK /\ SavesOK /\ LaunchesOK /\ CfgOK /\ WritesOK /\ UiOK /\ TablesOK
      /\ DatasetsOK /\ ServingOK /\ VoiceOK
    BY DEF WorkInv, CoreOK
<1>1. WorkType
    <2>1. \A p \in Projects : cfg[p].data \cup cfg[p].flight \subseteq VersionIds
        BY <1>0 DEF CfgOK, ConfigEntryOK, Entry
    <2>2. \A s \in saves : /\ s.content \in Contents /\ s.restored \in 0 .. MaxVersions
                           /\ s.phase = "ok" <=> s.version # 0
                           /\ s.project \in Projects /\ s.phase \in Phases
        BY <1>0 DEF SavesOK, SaveOK, SaveRequests
    <2>3. \A w \in writes : w.project \in Projects /\ w.phase \in Phases
        BY <1>0 DEF WritesOK, WriteOK, WriteRequests
    <2>4. \A l \in launches : l.project \in Projects /\ l.phase \in Phases
        BY <1>0 DEF LaunchesOK, LaunchOK, LaunchRequests
    <2> QED BY <1>0, <2>1, <2>2, <2>3, <2>4 DEF WorkType, PlaceOK
<1>2. ConfigType
    BY <1>0 DEF ConfigType, ServerOK, Version
<1>3. TableType
    <2>1. \A t \in Tabled : \A v \in lists[t].data \cup lists[t].flight : v \subseteq Rows
        BY <1>0 DEF TablesOK, Entry
    <2>2. \A c \in calls : c.kind \in Kinds /\ c.phase \in Phases /\ c.row \in 0 .. MaxRows
        BY <1>0 DEF TablesOK, CallOK, Calls
    <2> QED BY <1>0, <2>1, <2>2 DEF TablesOK, TableType
<1>4. ServingType
    BY <1>0 DEF ServingOK, ServingType, Entry, ServeCalls
<1>5. VoiceType
    BY <1>0 DEF VoiceOK, VoiceType, StartOK, Starts, SocketStates
<1>6. ShellType
    <2>1. \A f \in SplitFields : datasetForm.ratios[f] \in 0 .. 100 \cup {Unset}
        BY <1>0 DEF DatasetsOK, DatasetForms, SplitRatios
    <2>2. page = "shell" => ui.height \in 100 .. 400 /\ Len(ui.toasts) <= 1
        BY <1>0 DEF UiOK, ShellUiOK, ShellFits, ShellUis, PanelHeights
    <2> QED BY <2>1, <2>2 DEF ShellType
<1> QED BY <1>1, <1>2, <1>3, <1>4, <1>5, <1>6 DEF TypeOK

\* Every variable holds a value of its kind.
THEOREM WorkbenchTypesAreKept == Spec => []TypeOK
BY WorkbenchIsKept, TypesFollow, PTL

\* A run is started on a configuration of its project that says what the launch
\* dialog showed (handleLaunch, run_service.create_run).
THEOREM LaunchesAreAsShown == Spec => []LaunchedAsShown
<1>1. WorkInv => LaunchedAsShown
    BY DEF WorkInv, CoreOK, ServerOK, OfProject, LaunchedAsShown
<1> QED BY <1>1, WorkbenchIsKept, PTL

\* The version the dialog would name as the source of its text is one of the
\* project, and has that text (handleRestoreRequest).
THEOREM RollbacksNameTheirSource == Spec => []RollbackNamesItsSource
<1>1. WorkInv => RollbackNamesItsSource
    BY DEF WorkInv, UiOK, TrainingUiOK, DialogOK, OfProject, RollbackNamesItsSource, yaml
<1> QED BY <1>1, WorkbenchIsKept, PTL

\* After a save was answered the cache holds that version or a later one, or
\* knows that what it holds is old (useSaveConfig).
THEOREM SavesAreFollowed == Spec => []OwnSaveFollowed
<1>1. WorkInv => OwnSaveFollowed
    BY DEF WorkInv, CoreOK, CfgOK, ConfigEntryOK, OwnSaveFollowed
<1> QED BY <1>1, WorkbenchIsKept, PTL

\* What the answer of a call told the page about a row the list says too, or
\* knows that what it holds is old (the onSuccess of the hooks).
THEOREM AnswersAreShown == Spec => []AnsweredIsShown
<1>1. WorkInv => AnsweredIsShown
    BY DEF WorkInv, TablesOK, AnsweredIsShown
<1> QED BY <1>1, WorkbenchIsKept, PTL

\* After a preset was applied the trainer will do what its name says
\* (applyPreset, and what services/trainer.py makes of the configuration).
THEOREM PresetsDecide == Spec => []PresetDecides
<1>1. WorkInv => PresetDecides
    BY DEF WorkInv, UiOK, FormUiOK, PresetDecides
<1> QED BY <1>1, WorkbenchIsKept, PTL

\* Every redaction that is asked for has splits that make up the whole, which
\* the server insists on (toSanitizeSplitRatios).
THEOREM SanitizesAreAccepted == Spec => []SanitizeAccepted
<1>1. WorkInv => SanitizeAccepted
    BY DEF WorkInv, DatasetsOK, SanitizeOK, SanitizeAccepted
<1> QED BY <1>1, WorkbenchIsKept, PTL

\* The server runs one voice session at a time, the holder of the lock, however
\* many starts are on their way (voice_service.py).
THEOREM VoiceIsExclusive == Spec => []OneVoiceSession
<1>1. WorkInv => OneVoiceSession
    BY DEF WorkInv, VoiceOK, SessionOK, OneVoiceSession
<1> QED BY <1>1, WorkbenchIsKept, PTL

\* No two entries of a transcript are drawn by the same key
\* (appendTranscriptEntry).
THEOREM EntriesHaveTheirKeys == Spec => []EntriesKeyed
<1>1. WorkInv => EntriesKeyed
    BY DEF WorkInv, UiOK, VoiceUiOK, VoiceFits, EntriesKeyed
<1> QED BY <1>1, WorkbenchIsKept, PTL

-----------------------------------------------------------------------------
(* The curve of the learning rate. *)

LEMMA ScheduleFits ==
    ASSUME NEW s \in {"cosine", "linear", "constant"}
    PROVE  /\ \A p \in {0, 100, 250, 400, 500, 700, 750, 1000} : ScheduleValue(s, p) \in Int
           /\ ScheduleValue(s, 0) = 1000 /\ ScheduleValue(s, 1000) \in {0, 1000}
<1>1. CASE s = "cosine"
    <2>1. \A p : ScheduleValue(s, p) = Cosine[1 + (4 * p) \div 1000]
        BY <1>1 DEF ScheduleValue
    <2>2. /\ (4 * 0) \div 1000 = 0 /\ (4 * 100) \div 1000 = 0 /\ (4 * 250) \div 1000 = 1
          /\ (4 * 400) \div 1000 = 1 /\ (4 * 500) \div 1000 = 2 /\ (4 * 700) \div 1000 = 2
          /\ (4 * 750) \div 1000 = 3 /\ (4 * 1000) \div 1000 = 4
        OBVIOUS
    <2>3. /\ Cosine[1 + 0] = 1000 /\ Cosine[1 + 1] = 854 /\ Cosine[1 + 2] = 500
          /\ Cosine[1 + 3] = 146 /\ Cosine[1 + 4] = 0
        BY DEF Cosine
    <2> QED BY <2>1, <2>2, <2>3
<1>2. CASE s = "linear"
    BY <1>2 DEF ScheduleValue
<1>3. CASE s = "constant"
    BY <1>3 DEF ScheduleValue
<1> QED BY <1>1, <1>2, <1>3

\* what is drawn after the warmup is clamped
LEMMA Clamped == ASSUME NEW v \in Int PROVE /\ AtLeast(0, AtMost(1000, v)) \in 0 .. 1000
                                            /\ v \in 0 .. 1000 => AtLeast(0, AtMost(1000, v)) = v
BY DEF AtLeast, AtMost

\* ... and after the warmup runs from its peak to nothing, or stays there
LEMMA DrawnFits ==
    ASSUME NEW s \in {"cosine", "linear", "constant"}
    PROVE  /\ \A p \in {0, 100, 250, 400, 500, 700, 750, 1000} :
                AtLeast(0, AtMost(1000, ScheduleValue(s, p))) \in 0 .. 1000
           /\ AtLeast(0, AtMost(1000, ScheduleValue(s, 0))) = 1000
           /\ AtLeast(0, AtMost(1000, ScheduleValue(s, 1000))) \in {0, 1000}
<1>1. \A p \in {0, 100, 250, 400, 500, 700, 750, 1000} :
            AtLeast(0, AtMost(1000, ScheduleValue(s, p))) \in 0 .. 1000
    BY ScheduleFits, Clamped
<1>2. 0 \in 0 .. 1000 /\ 1000 \in 0 .. 1000 /\ 0 \in Int /\ 1000 \in Int
    OBVIOUS
<1>3. AtLeast(0, AtMost(1000, 0)) = 0 /\ AtLeast(0, AtMost(1000, 1000)) = 1000
    BY <1>2, Clamped
<1> QED BY <1>1, <1>3, ScheduleFits

LEMMA CurvesFit ==
    ASSUME NEW f \in FormConfig
    PROVE  /\ \A q \in 0 .. 4 : Intensity(f, q) \in 0 .. 1000
           /\ (Intensity(f, 0) = 0) = (f.warmupSteps > 0)
           /\ Intensity(f, 4) \in {0, 1000}
<1>s. PICK s \in {"cosine", "linear", "constant"} : s = f.scheduler
    BY DEF FormConfig
<1>1. f.warmupSteps \in {0, 2000} /\ f.epochs \in {1, 10}
    BY DEF FormConfig, MAX_WARMUP
<1>2. \A q \in 0 .. 4 : q \in {0, 1, 2, 3, 4}
    OBVIOUS
<1>3. ASSUME NEW total \in Int, NEW warmup \in Int, NEW q \in Int,
             total = TotalSteps(f), warmup = EffectiveWarmup(f)
      PROVE  Intensity(f, q) = IF (q * total) \div 4 < warmup
                THEN (1000 * ((q * total) \div 4)) \div warmup
                ELSE AtLeast(0, AtMost(1000, ScheduleValue(s,
                        (1000 * (((q * total) \div 4) - warmup)) \div AtLeast(1, total - warmup))))
    BY <1>3, <1>s DEF Intensity
<1>4. CASE f.warmupSteps = 0 /\ f.epochs = 1
    <2>1. TotalSteps(f) = 1200 /\ EffectiveWarmup(f) = 0
        BY <1>4 DEF TotalSteps, EffectiveWarmup, AtLeast, AtMost, STEPS_PER_EPOCH_ESTIMATE
    <2>2. AtLeast(1, 1200 - 0) = 1200
        BY DEF AtLeast
    <2>3. /\ Intensity(f, 0) = AtLeast(0, AtMost(1000, ScheduleValue(s, 0)))
          /\ Intensity(f, 1) = AtLeast(0, AtMost(1000, ScheduleValue(s, 250)))
          /\ Intensity(f, 2) = AtLeast(0, AtMost(1000, ScheduleValue(s, 500)))
          /\ Intensity(f, 3) = AtLeast(0, AtMost(1000, ScheduleValue(s, 750)))
          /\ Intensity(f, 4) = AtLeast(0, AtMost(1000, ScheduleValue(s, 1000)))
        BY <1>3, <2>1, <2>2
    <2>4. /\ Intensity(f, 0) \in 0 .. 1000 /\ Intensity(f, 1) \in 0 .. 1000
          /\ Intensity(f, 2) \in 0 .. 1000 /\ Intensity(f, 3) \in 0 .. 1000
          /\ Intensity(f, 4) \in 0 .. 1000
        BY <2>3, DrawnFits
    <2>5. Intensity(f, 0) = 1000 /\ Intensity(f, 4) \in {0, 1000}
        BY <2>3, DrawnFits
    <2> QED BY <1>2, <1>4, <2>4, <2>5
<1>5. CASE f.warmupSteps = 0 /\ f.epochs = 10
    <2>1. TotalSteps(f) = 12000 /\ EffectiveWarmup(f) = 0
        BY <1>5 DEF TotalSteps, EffectiveWarmup, AtLeast, AtMost, STEPS_PER_EPOCH_ESTIMATE
    <2>2. AtLeast(1, 12000 - 0) = 12000
        BY DEF AtLeast
    <2>3. /\ Intensity(f, 0) = AtLeast(0, AtMost(1000, ScheduleValue(s, 0)))
          /\ Intensity(f, 1) = AtLeast(0, AtMost(1000, ScheduleValue(s, 250)))
          /\ Intensity(f, 2) = AtLeast(0, AtMost(1000, ScheduleValue(s, 500)))
          /\ Intensity(f, 3) = AtLeast(0, AtMost(1000, ScheduleValue(s, 750)))
          /\ Intensity(f, 4) = AtLeast(0, AtMost(1000, ScheduleValue(s, 1000)))
        BY <1>3, <2>1, <2>2
    <2>4. /\ Intensity(f, 0) \in 0 .. 1000 /\ Intensity(f, 1) \in 0 .. 1000
          /\ Intensity(f, 2) \in 0 .. 1000 /\ Intensity(f, 3) \in 0 .. 1000
          /\ Intensity(f, 4) \in 0 .. 1000
        BY <2>3, DrawnFits
    <2>5. Intensity(f, 0) = 1000 /\ Intensity(f, 4) \in {0, 1000}
        BY <2>3, DrawnFits
    <2> QED BY <1>2, <1>5, <2>4, <2>5
<1>6. CASE f.warmupSteps = 2000 /\ f.epochs = 1
    <2>1. TotalSteps(f) = 1200 /\ EffectiveWarmup(f) = 1200
        BY <1>6 DEF TotalSteps, EffectiveWarmup, AtLeast, AtMost, STEPS_PER_EPOCH_ESTIMATE
    <2>2. AtLeast(1, 1200 - 1200) = 1
        BY DEF AtLeast
    <2>3. /\ Intensity(f, 0) = 0 /\ Intensity(f, 1) = 250 /\ Intensity(f, 2) = 500
          /\ Intensity(f, 3) = 750
          /\ Intensity(f, 4) = AtLeast(0, AtMost(1000, ScheduleValue(s, 0)))
        BY <1>3, <2>1, <2>2
    <2> QED BY <1>2, <1>6, <2>3, ScheduleFits, Clamped
<1>7. CASE f.warmupSteps = 2000 /\ f.epochs = 10
    <2>1. TotalSteps(f) = 12000 /\ EffectiveWarmup(f) = 2000
        BY <1>7 DEF TotalSteps, EffectiveWarmup, AtLeast, AtMost, STEPS_PER_EPOCH_ESTIMATE
    <2>2. AtLeast(1, 12000 - 2000) = 10000
        BY DEF AtLeast
    <2>3. /\ Intensity(f, 0) = 0
          /\ Intensity(f, 1) = AtLeast(0, AtMost(1000, ScheduleValue(s, 100)))
          /\ Intensity(f, 2) = AtLeast(0, AtMost(1000, ScheduleValue(s, 400)))
          /\ Intensity(f, 3) = AtLeast(0, AtMost(1000, ScheduleValue(s, 700)))
          /\ Intensity(f, 4) = AtLeast(0, AtMost(1000, ScheduleValue(s, 1000)))
        BY <1>3, <2>1, <2>2
    <2>4. /\ Intensity(f, 0) \in 0 .. 1000 /\ Intensity(f, 1) \in 0 .. 1000
          /\ Intensity(f, 2) \in 0 .. 1000 /\ Intensity(f, 3) \in 0 .. 1000
          /\ Intensity(f, 4) \in 0 .. 1000
        BY <2>3, DrawnFits
    <2>5. Intensity(f, 0) = 0 /\ Intensity(f, 4) \in {0, 1000}
        BY <2>3, DrawnFits
    <2> QED BY <1>2, <1>7, <2>4, <2>5
<1> QED BY <1>1, <1>4, <1>5, <1>6, <1>7

\* The drawn learning rate stays between nothing and its peak, starts at nothing
\* if it is warmed up, and by the end of the run has been at its peak
\* (components/training/lr-curve-preview.tsx).
THEOREM CurvesComplete == Spec => []CurveCompletes
<1>1. WorkInv => CurveCompletes
    <2> SUFFICES ASSUME WorkInv, page = "form" PROVE
            /\ \A i \in 1 .. 5 : LRCurve(ui.form)[i] \in 0 .. 1000
            /\ (LRCurve(ui.form)[1] = 0) = (ui.form.warmupSteps > 0)
            /\ LRCurve(ui.form)[5] \in {0, 1000}
        BY DEF CurveCompletes
    <2>f. PICK f : f = ui.form
        OBVIOUS
    <2>1. f \in FormConfig
        BY <2>f DEF WorkInv, UiOK, FormUiOK
    <2>2. \A i \in 1 .. 5 : LRCurve(f)[i] = Intensity(f, i - 1) /\ i - 1 \in 0 .. 4
        BY DEF LRCurve
    <2>3. LRCurve(f)[1] = Intensity(f, 0) /\ LRCurve(f)[5] = Intensity(f, 4)
        BY <2>2
    <2> QED BY <2>1, <2>2, <2>3, <2>f, CurvesFit
<1> QED BY <1>1, WorkbenchIsKept, PTL

-----------------------------------------------------------------------------
(* The toasts.  A behaviour that shows the frame shows no other page, and  *)
(* what the other pages' steps and late answers change is not its state.   *)

LEMMA NoneLeaves ==
    ASSUME FrontOK, page = "shell", NEW pg \in tour.pages, Navigate(pg) PROVE FALSE
BY ShellAssumption DEF FrontOK, PlaceOK, Navigate

LEMMA ShellSettles == ASSUME NEW u, NEW p, NEW c PROVE Settled(u, "shell", p, c) = u
BY DEF Settled

LEMMA PagesLeave ==
    ASSUME FrontOK, page \in {"shell", "weights"},
           \/ Requests \/ Yaml \/ Training \/ Adapters \/ UseControl \/ UsePreset
    PROVE  ui' = ui
<1>1. \A s \in saves : s.watched => page = SavePage(s.by)
    BY DEF FrontOK, CoreOK, SavesOK, SaveOK
<1>2. \A s \in saves : ~s.watched
    BY <1>1 DEF SavePage
<1>3. \A l \in launches : ~l.watched
    BY DEF FrontOK, CoreOK, LaunchesOK, LaunchOK
<1>4. CASE Requests
    <2>1. ASSUME NEW s \in saves, HandleSave(s) \/ SaveAnswered(s) \/ TextValidated(s)
          PROVE  ui' = ui
        BY <2>1 DEF HandleSave, SaveAnswered, TextValidated
    <2>2. ASSUME NEW s \in saves, TextSaved(s) PROVE ui' = ui
        BY <1>2, <2>2 DEF TextSaved
    <2>3. ASSUME NEW w \in writes, HandleWrite(w) PROVE ui' = ui
        BY <2>3 DEF HandleWrite
    <2>4. ASSUME NEW l \in launches, HandleLaunch(l) \/ LaunchAnswered(l) PROVE ui' = ui
        BY <1>3, <2>4 DEF HandleLaunch, LaunchAnswered
    <2>5. ASSUME NEW p \in Projects, FetchConfig(p) PROVE ui' = ui
        BY <2>5 DEF FetchConfig
    <2> QED BY <1>4, <2>1, <2>2, <2>3, <2>4, <2>5 DEF Requests
<1>5. ~Yaml
    BY DEF Yaml, EditClick, HandleViewClick, HandleCloseRequest, HandlePendingConfirm,
           KeepEditing, SaveText, TypeText, HandleRestoreRequest, VersionLoaded, InDialog
<1>6. ~Training
    BY DEF Training, HandleFormSave, OpenYaml, OpenLaunch, CloseLaunch, HandleLaunchClick,
           HandleSliceChange, CanSave, CanLaunch, PageFree
<1>7. ~Adapters
    BY DEF Adapters, ChangeLocal, HandleResetToParsed, HandleAdaptersSave, OnPage
<1>8. ~UseControl /\ ~UsePreset
    BY DEF UseControl, UsePreset
<1> QED BY <1>4, <1>5, <1>6, <1>7, <1>8

LEMMA TablePagesLeave ==
    ASSUME page \in {"shell", "weights"}, Artifacts \/ ProjectList \/ Models \/ Suggestions PROVE ui' = ui
<1>1. CASE Artifacts
    BY <1>1 DEF Artifacts, SelectArtifact, AskDelete, HandleMergeCheckpoint, CloseArtifact,
           AskCleanup, CancelAsking, HandleDelete, HandleCleanup, CleanupHandled,
           ArtifactsFree, OnArtifacts
<1>2. CASE ProjectList
    BY <1>2 DEF ProjectList, HandleSelectProject, AskDeleteProject, CloseDetail, OpenCreate,
           TypeName, DismissCreate, CancelCreate, HandleCreateProject, HandleImport,
           CancelDelete, HandleDeleteConfirm, ProjectsFree, OnProjects
<1>3. CASE Models
    BY <1>3 DEF Models, SetModelForm, HandleResolveModel, OpenRegister, TypeDraft,
           CloseRegister, HandleRegister, HandleOpenMergeDialog, CloseMergeDialog,
           HandleConfirmMerge, SelectMergeRun, HandleDeleteMerged, ModelResolved, OnModels
<1>4. CASE Suggestions
    BY <1>4 DEF Suggestions, SelectSource, SelectSuggestion, ClearSelection, HandleGenerate,
           HandleAcceptClick, HandleRejectClick, ToggleChat, TypeMessage, HandleSendMessage,
           OpenRules, ToggleRule, CloseRules, HandleSaveRuleSettings, RulesFetched,
           SuggestionAccepted, AcceptAnswered, RulesHandled, OnSuggestions
<1> QED BY <1>1, <1>2, <1>3, <1>4

LEMMA DatasetsLeave ==
    ASSUME FrontOK, page \in {"shell", "weights"}, Datasets PROVE ui' = ui
<1>1. \A w \in writes : ~(w.watched /\ w.by = "ingest")
    BY DEF FrontOK, WritesOK, WriteOK
<1>2. ASSUME NEW w \in writes, DatasetResolved(w) PROVE ui' = ui
    BY <1>1, <1>2 DEF DatasetResolved
<1>3. ASSUME NEW s \in sanitizes, SanitizeHandled(s) \/ SanitizeAnswered(s) PROVE ui' = ui
    BY <1>3 DEF SanitizeHandled, SanitizeAnswered
<1>4. ASSUME NEW p \in Projects, \/ FetchProfile(p) \/ ProfileAnswered(p)
                                 \/ FetchSanitizeStatus(p) \/ SanitizeStatusAnswered(p)
      PROVE  ui' = ui
    BY <1>4 DEF FetchProfile, ProfileAnswered, FetchSanitizeStatus, SanitizeStatusAnswered
<1>5. /\ ~HandleResolve /\ ~CloseDatasetDialog /\ ~HandleIngestSubmit /\ ~HandleSanitize
      /\ \A f, n : ~EnterRatio(f, n)
      /\ \A x : ~SetDataset(x) /\ ~TypePath(x) /\ ~SetFormat(x) /\ ~OpenDatasetDialog(x)
    BY DEF HandleResolve, CloseDatasetDialog, HandleIngestSubmit, HandleSanitize, EnterRatio,
           SetDataset, TypePath, SetFormat, OpenDatasetDialog, DatasetFree, OnDatasets
<1> QED BY <1>2, <1>3, <1>4, <1>5 DEF Datasets

LEMMA VoiceLeaves ==
    ASSUME VoiceOK, page \in {"shell", "weights"}, VoiceNext PROVE ui' = ui
<1>1. \A a \in starts : ~a.watched
    BY DEF VoiceOK, StartOK
<1>2. ASSUME NEW a \in starts, \/ CreateSession(a) \/ SessionCreated(a) \/ SessionRefused(a)
                               \/ Connected(a) \/ CaptureGranted(a) \/ CaptureDenied(a)
      PROVE  ui' = ui
    BY <1>1, <1>2 DEF CreateSession, SessionCreated, SessionRefused, Connected,
           CaptureGranted, CaptureDenied, StartReturns
<1>3. ASSUME NEW s \in Sessions, SocketAccepted(s) \/ SocketFailed(s) \/ Booted(s)
                                 \/ FinalizeSession(s)
      PROVE  ui' = ui
    BY <1>3 DEF SocketAccepted, SocketFailed, Booted, FinalizeSession
<1>4. ~StartVoice /\ ~StopVoice /\ \A s : ~SocketClosed(s) /\ ~VoiceEvent(s)
    BY DEF StartVoice, StopVoice, SocketClosed, VoiceEvent, OnVoice
<1> QED BY <1>2, <1>3, <1>4 DEF VoiceNext

LEMMA RestLeaves ==
    ASSUME page \in {"shell", "weights"}, ServingNext \/ TableStep \/ TableAnswer
    PROVE  ui' = ui
<1>1. CASE ServingNext
    BY <1>1 DEF ServingNext, ConversionFails, BeginServing, ServingReady, StopServing,
           ServingAnswered, SubprocessDies, PollStatus, StatusAnswered, ClickServing, ServeRest
<1>2. CASE TableStep
    BY <1>2 DEF TableStep
<1>3. CASE TableAnswer
    <2>1. \A c : UiAfter(c) = ui
        BY DEF UiAfter
    <2> QED BY <1>3, <2>1 DEF TableAnswer
<1> QED BY <1>1, <1>2, <1>3

LEMMA WeightsLeaveShell == ASSUME page = "shell", WeightsNext PROVE ui' = ui
<1>1. ~Drawn /\ ~OnWeights
    BY DEF Drawn, OnWeights
<1>2. /\ ~FetchArchitecture /\ ~CloseLayerDetail /\ ~SetFlowMode /\ ~TypeSample
      /\ ~HandleCapture /\ ~HandleFlowCapture
    BY <1>1 DEF FetchArchitecture, CloseLayerDetail, SetFlowMode, TypeSample,
           HandleCapture, HandleFlowCapture, OnFlow, WeightsFree, DetailOpen
<1>3. ASSUME NEW p \in Projects, ArchitectureAnswered(p) PROVE ui' = ui
    BY <1>3 DEF ArchitectureAnswered
<1> QED BY <1>1, <1>2, <1>3 DEF WeightsNext

LEMMA ShellIsElsewhere == ASSUME page = "weights" PROVE ~ShellNext
BY DEF ShellNext, Reload, DismissToast, OpenPalette, ClosePalette, CloseTweaks, ToggleSidebar,
       HandleToggleRightDrawer, ToggleBottomPanel, Boot, HandleSelect, HandleThemeChange,
       ToggleNavGroup, HandleResize, OnShell, ShellFree

\* every step of the frame but a reload keeps a toast that is open
LEMMA ShellKeepsToast ==
    ASSUME FrontOK, page = "shell", NEW i \in DOMAIN ui.toasts, ui.toasts[i].open,
           ShellNext, ~Reload
    PROVE  ui'.toasts # <<>>
<1>1. ShellUiOK /\ ui \in ShellUis
    BY DEF FrontOK, UiOK, ShellUiOK, ShellFits
<1>2. ui.toasts # <<>>
    BY EmptySeq
<1>3. CASE DismissToast
    BY <1>1, <1>3, DismissFits
<1>4. ASSUME NEW command \in Commands, HandleSelect(command) PROVE ui'.toasts # <<>>
    BY <1>1, <1>2, <1>4, SelectFits
<1>5. ASSUME NEW id \in ui.removals, RemoveToast(id) PROVE ui'.toasts # <<>>
    <2>1. id \in Nat
        BY <1>1 DEF ShellUis
    <2>2. WithoutToast(ui.toasts, id) = ui.toasts
        BY <1>1, <2>1, WithoutFits DEF ShellUiOK
    <2>r. PICK r : r = ui.removals \ {id}
        OBVIOUS
    <2>3. ui' = [ui EXCEPT !.toasts = ui.toasts, !.removals = r]
        BY <1>1, <1>5, <2>2, <2>r DEF RemoveToast, Becomes, ShellUis
    <2> QED BY <1>1, <1>2, <2>3 DEF ShellUis
<1>6. CASE OpenPalette \/ ClosePalette \/ CloseTweaks
    BY <1>1, <1>2, <1>6 DEF OpenPalette, ClosePalette, CloseTweaks, Becomes, ShellUis
<1>7. CASE ToggleSidebar \/ HandleToggleRightDrawer \/ ToggleBottomPanel
    BY <1>1, <1>2, <1>7 DEF ToggleSidebar, HandleToggleRightDrawer, ToggleBottomPanel,
           Becomes, ShellUis
<1>8. ASSUME NEW saved \in EarlierStores, Boot(saved) PROVE ui'.toasts # <<>>
    BY <1>1, <1>2, <1>8 DEF Boot, ShellUis
<1>9. ASSUME NEW theme \in {"light", "dark"}, HandleThemeChange(theme)
      PROVE  ui'.toasts # <<>>
    BY <1>1, <1>2, <1>9 DEF HandleThemeChange, Becomes, ShellUis
<1>10. ASSUME NEW g \in NavGroups, ToggleNavGroup(g) PROVE ui'.toasts # <<>>
    <2>c. PICK closed : closed = IF g \in ui.closed THEN ui.closed \ {g} ELSE ui.closed \cup {g}
        OBVIOUS
    <2>1. ui' = [ui EXCEPT !.closed = closed]
        BY <1>10, <2>c DEF ToggleNavGroup, Becomes
    <2> QED BY <1>1, <1>2, <2>1 DEF ShellUis
<1>11. ASSUME NEW delta \in Deltas, HandleResize(delta) PROVE ui'.toasts # <<>>
    <2>1. PICK height : ui' = [ui EXCEPT !.height = height]
        BY <1>11 DEF HandleResize, Becomes
    <2> QED BY <1>1, <1>2, <2>1 DEF ShellUis
<1>12. ASSUME NEW r \in Rows, HandleSelectNotification(r) PROVE ui'.toasts # <<>>
    BY <1>2, <1>12 DEF HandleSelectNotification
<1> QED BY <1>3, <1>4, <1>5, <1>6, <1>7, <1>8, <1>9, <1>10, <1>11, <1>12 DEF ShellNext

\* A toast that is shown only leaves for another one or once it was dismissed,
\* whichever timers of earlier toasts are still to come (hooks/use-toast.ts).
THEOREM ToastsStay == Spec => ToastRemovalIsOwn
<1>1. WorkInv /\ [Next]_vars =>
        [(/\ page = "shell" /\ \E i \in DOMAIN ui.toasts : ui.toasts[i].open
          /\ ~Reload) => ui'.toasts # <<>>]_vars
    <2> SUFFICES ASSUME WorkInv, [Next]_vars, page = "shell", ~Reload,
                        NEW i \in DOMAIN ui.toasts, ui.toasts[i].open
                 PROVE  vars' = vars \/ ui'.toasts # <<>>
        OBVIOUS
    <2>0. FrontOK /\ VoiceOK
        BY InvParts DEF WorkInv, RestOK
    <2>1. ui' = ui => ui'.toasts # <<>>
        BY EmptySeq
    <2>2. ASSUME NEW pg \in tour.pages, Navigate(pg) PROVE FALSE
        BY <2>0, <2>2, NoneLeaves
    <2>3. ASSUME NEW p \in Projects, SetActiveProject(p) \/ ConfigAnswered(p) PROVE ui' = ui
        BY <2>3, ShellSettles DEF SetActiveProject, ConfigAnswered
    <2>4. CASE Requests \/ Yaml \/ Training \/ Adapters \/ UseControl \/ UsePreset
        BY <2>0, <2>1, <2>4, PagesLeave
    <2>5. CASE Artifacts \/ ProjectList \/ Models \/ Suggestions
        BY <2>1, <2>5, TablePagesLeave
    <2>6. CASE Datasets
        BY <2>0, <2>1, <2>6, DatasetsLeave
    <2>7. CASE ShellNext
        BY <2>0, <2>7, ShellKeepsToast
    <2>8. CASE VoiceNext
        BY <2>0, <2>1, <2>8, VoiceLeaves
    <2>9. CASE ServingNext \/ TableStep \/ TableAnswer
        BY <2>1, <2>9, RestLeaves
    <2>10. CASE WeightsNext
        BY <2>1, <2>10, WeightsLeaveShell
    <2> QED BY <2>1, <2>2, <2>3, <2>4, <2>5, <2>6, <2>7, <2>8, <2>9, <2>10 DEF Next
<1> QED BY <1>1, WorkbenchIsKept, PTL DEF Spec, ToastRemovalIsOwn

-----------------------------------------------------------------------------
(* The flow.  The architecture that a page draws is one of those that the  *)
(* server resolves, and it is drawn at the width of a window.              *)

ArchitectureNames == {tree.name : tree \in Architectures}

ArchsOK == archs \in [Projects -> Entry(ArchitectureNames)]

WeightsFields == DOMAIN WeightsUi
WeightsFits(u) == DOMAIN u = WeightsFields /\ u.width \in Nat

DrawingOK == ArchsOK /\ (page = "weights" => WeightsFits(ui))

LEMMA WeightsBegin ==
    /\ WeightsFits(WeightsUi)
    /\ WeightsFields = {"tab", "layer", "detail", "names", "sample", "snapshots", "a", "b",
                        "shown", "captures", "mode", "search", "expanded", "open", "width"}
BY DEF WeightsFits, WeightsFields, WeightsUi

LEMMA FieldSet ==
    ASSUME NEW u, WeightsFits(u), NEW f, NEW x, f = "width" => x \in Nat
    PROVE  WeightsFits([u EXCEPT ![f] = x])
<1>1. "width" \in DOMAIN u
    BY WeightsBegin DEF WeightsFits
<1> QED BY <1>1 DEF WeightsFits

\* a tab that is left, and what has no architecture to show, starts over
StartOver(u, e, o) == [u EXCEPT !.expanded = e, !.open = o, !.width = 800]

LEMMA StartedOver ==
    ASSUME NEW u, WeightsFits(u), NEW e, NEW o
    PROVE  WeightsFits(StartOver(u, e, o))
<1> DEFINE u1 == [u EXCEPT !.expanded = e]
           u2 == [u1 EXCEPT !.open = o]
           u3 == [u2 EXCEPT !.width = 800]
<1>0. StartOver(u, e, o) = u3
    BY DEF StartOver
<1>1. WeightsFits(u1)
    BY FieldSet
<1> HIDE DEF u1
<1>2. WeightsFits(u2)
    BY <1>1, FieldSet
<1> HIDE DEF u2
<1>3. WeightsFits(u3)
    BY <1>2, FieldSet
<1> HIDE DEF u3
<1> QED BY <1>0, <1>3

LEMMA WeightsSettles ==
    ASSUME NEW u, WeightsFits(u), NEW p, NEW c PROVE WeightsFits(Settled(u, "weights", p, c))
<1>1. Settled(u, "weights", p, c) = StartOver(u, {}, {}) \/ Settled(u, "weights", p, c) = u
    BY DEF Settled, WeightsSettled, StartOver
<1>2. WeightsFits(StartOver(u, {}, {}))
    BY StartedOver
<1> QED BY <1>1, <1>2

LEMMA ArchsAnswered ==
    ASSUME ArchsOK, NEW p \in Projects, NEW e \in Entry(ArchitectureNames),
           archs' = [archs EXCEPT ![p] = e]
    PROVE  ArchsOK'
BY DEF ArchsOK

LEMMA ArchsStale ==
    ASSUME ArchsOK, NEW shown, archs' = AllStale(archs, shown) PROVE ArchsOK'
<1>1. \A p \in Projects : Invalidated(archs[p], p \in shown) \in Entry(ArchitectureNames)
    BY EntryInvalidated DEF ArchsOK
<1> QED BY <1>1 DEF AllStale, ArchsOK

\* each click of the weights page changes fields of its state, the width to one
\* of a window
LEMMA WeightsClicks ==
    ASSUME page = "weights", WeightsFits(ui), WeightsNext, ~FetchArchitecture,
           \A p \in Projects : ~ArchitectureAnswered(p)
    PROVE  WeightsFits(ui') /\ UNCHANGED <<archs, page>>
<1>1. CASE CloseLayerDetail
    BY <1>1, FieldSet DEF CloseLayerDetail, OnlyWeightsUi, OnlyWeights
<1>2. CASE SetFlowMode
    <2>m. PICK m : ui' = [ui EXCEPT !.mode = m, !.width = 800]
        BY <1>2 DEF SetFlowMode
    <2> DEFINE u == [ui EXCEPT !.mode = m]
    <2>1. WeightsFits(u)
        BY FieldSet
    <2>3. ui' = [u EXCEPT !.width = 800]
        BY <2>m
    <2> HIDE DEF u
    <2>2. WeightsFits([u EXCEPT !.width = 800])
        BY <2>1, FieldSet
    <2> QED BY <1>2, <2>2, <2>3 DEF SetFlowMode, OnlyWeightsUi, OnlyWeights
<1>3. CASE TypeSample
    <2>m. PICK m : ui' = [ui EXCEPT !.sample = m]
        BY <1>3 DEF TypeSample
    <2> QED BY <1>3, <2>m, FieldSet DEF TypeSample, OnlyWeightsUi, OnlyWeights
<1>4. CASE HandleCapture \/ HandleFlowCapture
    <2>1. PICK names, flow : Capture(names, flow)
        BY <1>4 DEF HandleCapture, HandleFlowCapture
    <2>m. PICK m : ui' = [ui EXCEPT !.captures = m]
        BY <2>1 DEF Capture
    <2>2. WeightsFits(ui')
        BY <2>m, FieldSet
    <2> QED BY <2>1, <2>2 DEF Capture, OnlyWeightsUi, OnlyWeights
<1>5. ASSUME NEW tab, SetSecondaryTab(tab)
      PROVE  WeightsFits(ui') /\ UNCHANGED <<archs, page>>
    <2> DEFINE u == [ui EXCEPT !.tab = tab]
               o == {<<Tree.name>>}
    <2>1. WeightsFits(u)
        BY FieldSet
    <2>2. ui' = StartOver(u, {}, o)
        BY <1>5 DEF SetSecondaryTab, StartOver
    <2> HIDE DEF u, o
    <2>3. WeightsFits(ui')
        BY <2>1, <2>2, StartedOver
    <2> QED BY <1>5, <2>3 DEF SetSecondaryTab, OnlyWeightsUi, OnlyWeights
<1>6. ASSUME NEW i, OnSelectLayer(i) \/ ToggleExpand(i)
      PROVE  WeightsFits(ui') /\ UNCHANGED <<archs, page>>
    <2>m. PICK m : ui' = [ui EXCEPT !.layer = m] \/ ui' = [ui EXCEPT !.expanded = m]
        BY <1>6 DEF OnSelectLayer, ToggleExpand
    <2> QED BY <1>6, <2>m, FieldSet DEF OnSelectLayer, ToggleExpand, OnlyWeightsUi, OnlyWeights
<1>7. ASSUME NEW row, ClickTreeRow(row)
      PROVE  WeightsFits(ui') /\ UNCHANGED <<archs, page>>
    <2>m. PICK m : ui' = [ui EXCEPT !.detail = m] \/ ui' = [ui EXCEPT !.open = m]
        BY <1>7 DEF ClickTreeRow
    <2> QED BY <1>7, <2>m, FieldSet DEF ClickTreeRow, OnlyWeightsUi, OnlyWeights
<1>8. ASSUME NEW query, TypeSearch(query)
      PROVE  WeightsFits(ui') /\ UNCHANGED <<archs, page>>
    BY <1>8, FieldSet DEF TypeSearch, OnlyWeightsUi, OnlyWeights
<1>9. ASSUME NEW path, OnSelectNode(path) \/ HandleToggleLayer(path)
      PROVE  WeightsFits(ui') /\ UNCHANGED <<archs, page>>
    <2>m. PICK m : ui' = [ui EXCEPT !.detail = m] \/ ui' = [ui EXCEPT !.names = m]
        BY <1>9 DEF OnSelectNode, HandleToggleLayer
    <2> QED BY <1>9, <2>m, FieldSet DEF OnSelectNode, HandleToggleLayer, OnlyWeightsUi, OnlyWeights
<1>10. ASSUME NEW width \in Widths, Resized(width)
       PROVE  WeightsFits(ui') /\ UNCHANGED <<archs, page>>
    <2>1. width \in Nat
        BY WidthAssumption
    <2> QED BY <1>10, <2>1, FieldSet DEF Resized, OnlyWeightsUi, OnlyWeights
<1>11. ASSUME NEW c, CaptureAnswered(c)
       PROVE  WeightsFits(ui') /\ UNCHANGED <<archs, page>>
    <2> DEFINE u == [ui EXCEPT !.captures = {}]
    <2>1. WeightsFits(u)
        BY FieldSet
    <2>2. ASSUME NEW s, NEW n, ui' = [ui EXCEPT !.captures = {}, !.snapshots = s, !.shown = n]
          PROVE  WeightsFits(ui')
        <3> DEFINE v == [u EXCEPT !.snapshots = s]
        <3>1. WeightsFits(v)
            BY <2>1, FieldSet
        <3>2. WeightsFits([v EXCEPT !.shown = n])
            BY <3>1, FieldSet
        <3>3. ui' = [v EXCEPT !.shown = n]
            BY <2>2
        <3> QED BY <3>2, <3>3
    <2>m. \/ \E s, n : ui' = [ui EXCEPT !.captures = {}, !.snapshots = s, !.shown = n]
          \/ ui' = u
        BY <1>11 DEF CaptureAnswered
    <2> QED BY <1>11, <2>1, <2>2, <2>m DEF CaptureAnswered, OnlyWeightsUi, OnlyWeights
<1>12. ASSUME NEW which \in {"a", "b", "shown"}, NEW i, PickSnapshot(which, i)
       PROVE  WeightsFits(ui') /\ UNCHANGED <<archs, page>>
    <2>1. WeightsFits([ui EXCEPT ![which] = i])
        BY FieldSet
    <2> QED BY <1>12, <2>1 DEF PickSnapshot, OnlyWeightsUi, OnlyWeights
<1> QED BY <1>1, <1>2, <1>3, <1>4, <1>5, <1>6, <1>7, <1>8, <1>9, <1>10, <1>11, <1>12
        DEF WeightsNext

LEMMA WeightsStepDraws ==
    ASSUME WorkInv, DrawingOK, WeightsNext PROVE DrawingOK'
<1>0. activeProject \in Projects
    BY DEF WorkInv, PlaceOK
<1>1. CASE FetchArchitecture
    <2>1. PICK tree \in Architectures :
            archs' = [archs EXCEPT ![activeProject] = Asked(archs[activeProject], tree.name)]
        BY <1>1 DEF FetchArchitecture
    <2>2. Asked(archs[activeProject], tree.name) \in Entry(ArchitectureNames)
        BY <1>0, EntryAsked DEF DrawingOK, ArchsOK, ArchitectureNames
    <2>3. ArchsOK'
        BY <1>0, <2>1, <2>2, ArchsAnswered DEF DrawingOK
    <2> QED BY <1>1, <2>3 DEF DrawingOK, FetchArchitecture, OnlyWeights
<1>2. ASSUME NEW p \in Projects, ArchitectureAnswered(p) PROVE DrawingOK'
    <2>1. archs' = [archs EXCEPT ![p] = Answered(archs[p])] /\ page' = page
        BY <1>2 DEF ArchitectureAnswered, OnlyWeights
    <2>2. Answered(archs[p]) \in Entry(ArchitectureNames)
        BY EntryAnswered DEF DrawingOK, ArchsOK
    <2>3. ArchsOK'
        BY <2>1, <2>2, ArchsAnswered DEF DrawingOK
    <2>4. PICK o : ui' = [ui EXCEPT !.open = o] \/ ui' = ui
        BY <1>2 DEF ArchitectureAnswered
    <2>5. page = "weights" => WeightsFits(ui')
        BY <2>4, FieldSet DEF DrawingOK
    <2> QED BY <2>1, <2>3, <2>5 DEF DrawingOK, WeightsFits
<1>3. CASE ~FetchArchitecture /\ (\A p \in Projects : ~ArchitectureAnswered(p)) /\ page = "weights"
    BY <1>3, WeightsClicks DEF DrawingOK, WeightsFits, ArchsOK
<1>4. CASE ~FetchArchitecture /\ (\A p \in Projects : ~ArchitectureAnswered(p)) /\ page # "weights"
    BY <1>4 DEF WeightsNext, CloseLayerDetail, SetFlowMode, TypeSample, HandleCapture,
           HandleFlowCapture, OnFlow, WeightsFree, DetailOpen, Drawn, OnWeights
<1> QED BY <1>1, <1>2, <1>3, <1>4

\* only a link or the palette leaves the page
LEMMA PageStays ==
    ASSUME [Next]_vars PROVE page' = page \/ \E pg \in tour.pages : Navigate(pg)
<1>1. CASE (\E p \in Projects : SetActiveProject(p) \/ ConfigAnswered(p)) \/ UNCHANGED vars
    BY <1>1 DEF SetActiveProject, ConfigAnswered, vars, workVars
<1>2. CASE Requests \/ Yaml \/ Training \/ Adapters \/ UseControl \/ UsePreset
    BY <1>2, PagesStay
<1>3. CASE Artifacts
    BY <1>3 DEF Artifacts, SelectArtifact, AskDelete, HandleMergeCheckpoint, CloseArtifact,
           AskCleanup, CancelAsking, HandleDelete, HandleCleanup, CleanupHandled,
           OnlyArtifactsUi, OnlyArtifactsCall, ArtifactsRest
<1>4. CASE ProjectList
    BY <1>4 DEF ProjectList, HandleSelectProject, AskDeleteProject, CloseDetail, OpenCreate,
           TypeName, DismissCreate, CancelCreate, HandleCreateProject, HandleImport,
           CancelDelete, HandleDeleteConfirm, OnlyProjectsUi, ProjectsRest
<1>5. CASE Models
    BY <1>5 DEF Models, SetModelForm, HandleResolveModel, OpenRegister, TypeDraft,
           CloseRegister, HandleRegister, HandleOpenMergeDialog, CloseMergeDialog,
           HandleConfirmMerge, SelectMergeRun, HandleDeleteMerged, ModelResolved,
           OnlyModelsUi, KeepWrites, KeepServer
<1>6. CASE Suggestions
    BY <1>6 DEF Suggestions, SelectSource, SelectSuggestion, ClearSelection, HandleGenerate,
           HandleAcceptClick, HandleRejectClick, ToggleChat, TypeMessage, HandleSendMessage,
           OpenRules, ToggleRule, CloseRules, HandleSaveRuleSettings, RulesFetched,
           SuggestionAccepted, AcceptAnswered, RulesHandled, OnlySuggestionsUi, OnlyCall,
           SuggestionRest
<1>7. CASE Datasets
    <2>1. ASSUME NEW w \in writes, DatasetResolved(w) PROVE page' = page
        BY <2>1 DEF DatasetResolved, DatasetsRest
    <2>2. ASSUME NEW s \in sanitizes, SanitizeHandled(s) \/ SanitizeAnswered(s)
          PROVE  page' = page
        BY <2>2 DEF SanitizeHandled, SanitizeAnswered, DatasetsRest
    <2>3. ASSUME NEW p \in Projects, \/ FetchProfile(p) \/ ProfileAnswered(p)
                                     \/ FetchSanitizeStatus(p) \/ SanitizeStatusAnswered(p)
          PROVE  page' = page
        BY <2>3 DEF FetchProfile, ProfileAnswered, FetchSanitizeStatus,
               SanitizeStatusAnswered, DatasetsRest
    <2>4. ASSUME NEW f, NEW n, \/ EnterRatio(f, n) \/ SetDataset(n) \/ TypePath(n)
                               \/ SetFormat(n) \/ OpenDatasetDialog(n)
          PROVE  page' = page
        BY <2>4 DEF EnterRatio, SetDataset, TypePath, SetFormat, OpenDatasetDialog, OnlyForm,
               DatasetsRest
    <2>5. CASE HandleResolve \/ CloseDatasetDialog \/ HandleIngestSubmit \/ HandleSanitize
        BY <2>5 DEF HandleResolve, CloseDatasetDialog, HandleIngestSubmit, HandleSanitize,
               OnlyForm, DatasetsRest
    <2> QED BY <1>7, <2>1, <2>2, <2>3, <2>4, <2>5 DEF Datasets
<1>8. CASE ShellNext
    BY <1>8 DEF ShellNext, Reload, DismissToast, OpenPalette, ClosePalette, CloseTweaks,
           ToggleSidebar, HandleToggleRightDrawer, ToggleBottomPanel, Boot, HandleSelect,
           HandleThemeChange, ToggleNavGroup, HandleResize, RemoveToast,
           HandleSelectNotification, Becomes, ShellKeeps, ShellRest
<1>9. CASE ServingNext
    BY <1>9 DEF ServingNext, ConversionFails, BeginServing, ServingReady, StopServing,
           ServingAnswered, SubprocessDies, PollStatus, StatusAnswered, ClickServing, ServeRest
<1>10. CASE VoiceNext
    <2>1. CASE StartVoice \/ StopVoice
        BY <2>1 DEF StartVoice, StopVoice, VoiceKeep, VoiceRest
    <2>2. ASSUME NEW a \in starts, \/ CreateSession(a) \/ SessionCreated(a) \/ SessionRefused(a)
                                   \/ Connected(a) \/ CaptureGranted(a) \/ CaptureDenied(a)
          PROVE  page' = page
        BY <2>2 DEF CreateSession, SessionCreated, SessionRefused, Connected,
               CaptureGranted, CaptureDenied, VoiceKeep, VoiceRest
    <2>3. ASSUME NEW s \in Sessions, \/ SocketAccepted(s) \/ SocketFailed(s) \/ Booted(s)
                                     \/ FinalizeSession(s) \/ SocketClosed(s) \/ VoiceEvent(s)
          PROVE  page' = page
        BY <2>3 DEF SocketAccepted, SocketFailed, Booted, FinalizeSession, SocketClosed,
               VoiceEvent, VoiceKeep, VoiceRest
    <2> QED BY <1>10, <2>1, <2>2, <2>3 DEF VoiceNext
<1>11. CASE WeightsNext
    BY <1>11, WeightsStand
<1>12. CASE (TableStep \/ TableAnswer) /\ OtherWork
    BY <1>12 DEF OtherWork
<1> QED BY <1>1, <1>2, <1>3, <1>4, <1>5, <1>6, <1>7, <1>8, <1>9, <1>10, <1>11, <1>12 DEF Next

LEMMA DrawingStep == WorkInv /\ DrawingOK /\ [Next]_vars => DrawingOK'
<1> SUFFICES ASSUME WorkInv, DrawingOK, [Next]_vars PROVE DrawingOK'
    OBVIOUS
<1>0. FrontOK /\ VoiceOK
    BY InvParts DEF WorkInv, RestOK
<1>s. ASSUME UNCHANGED <<archs, page>>, page = "weights" => ui' = ui PROVE DrawingOK'
    BY <1>s DEF DrawingOK, ArchsOK, WeightsFits
<1>1. ASSUME NEW pg \in tour.pages, Navigate(pg) PROVE DrawingOK'
    <2>1. page' = pg /\ archs' = archs /\ ui' = Settled(UiOf(pg), pg, activeProject, cfg)
        BY <1>1 DEF Navigate
    <2>2. pg = "weights" => WeightsFits(ui')
        <3> SUFFICES ASSUME pg = "weights" PROVE WeightsFits(ui')
            OBVIOUS
        <3>1. UiOf(pg) = WeightsUi
            BY DEF UiOf
        <3> QED BY <2>1, <3>1, WeightsBegin, WeightsSettles
    <2> QED BY <2>1, <2>2 DEF DrawingOK, ArchsOK, WeightsFits
<1> SUFFICES ASSUME page' = page PROVE DrawingOK'
    BY <1>1, PageStays
<1>2. ASSUME NEW p \in Projects, SetActiveProject(p) \/ ConfigAnswered(p) PROVE DrawingOK'
    <2>1. page' = page /\ archs' = archs
        BY <1>2 DEF SetActiveProject, ConfigAnswered, ownVars
    <2>2. PICK c : ui' = Settled(ui, page, p, c) \/ ui' = ui
        BY <1>2 DEF SetActiveProject, ConfigAnswered
    <2>3. page = "weights" => WeightsFits(ui')
        BY <2>2, WeightsSettles DEF DrawingOK
    <2> QED BY <2>1, <2>3 DEF DrawingOK, ArchsOK, WeightsFits
<1>3. CASE /\ Requests \/ Yaml \/ Training \/ Adapters \/ UseControl \/ UsePreset
           /\ UNCHANGED <<tableVars, ownVars>>
    <2>1. page = "weights" => ui' = ui
        BY <1>0, <1>3, PagesLeave
    <2> QED BY <1>3, <1>s, <2>1 DEF ownVars
<1>4. CASE (Artifacts \/ ProjectList) /\ UNCHANGED ownVars
    BY <1>4, <1>s, TablePagesLeave DEF ownVars
<1>5. CASE (Models \/ Suggestions) /\ UNCHANGED archs
    BY <1>5, <1>s, TablePagesLeave
<1>6. CASE (ServingNext \/ TableStep) /\ UNCHANGED archs
    BY <1>6, <1>s, RestLeaves
<1>7. CASE Datasets /\ UNCHANGED archs
    BY <1>0, <1>7, <1>s, DatasetsLeave
<1>8. CASE ShellNext /\ UNCHANGED archs
    BY <1>8, <1>s, ShellIsElsewhere
<1>9. CASE VoiceNext /\ UNCHANGED archs
    BY <1>0, <1>9, <1>s, VoiceLeaves
<1>10. CASE WeightsNext
    BY <1>10, WeightsStepDraws
<1>11. CASE TableAnswer /\ OtherWork
    <2>1. page = "weights" => ui' = ui
        BY <1>11, RestLeaves
    <2>2. PICK shown : archs' = AllStale(archs, shown) \/ archs' = archs
        BY <1>11 DEF TableAnswer
    <2>3. ArchsOK'
        BY <2>2, ArchsStale DEF DrawingOK, ArchsOK
    <2> QED BY <1>11, <2>1, <2>3 DEF OtherWork, DrawingOK, WeightsFits
<1>12. CASE UNCHANGED vars
    BY <1>12, <1>s DEF vars, ownVars, workVars
<1> QED BY <1>1, <1>2, <1>3, <1>4, <1>5, <1>6, <1>7, <1>8, <1>9, <1>10, <1>11, <1>12 DEF Next

LEMMA DrawingStarts == Init => DrawingOK
<1> SUFFICES ASSUME Init PROVE DrawingOK
    OBVIOUS
<1>1. EmptyEntry \in Entry(ArchitectureNames) /\ archs = [p \in Projects |-> EmptyEntry]
    BY EntryEmpty DEF Init
<1>2. ArchsOK
    BY <1>1 DEF ArchsOK
<1>3. page = "weights" => ui = WeightsUi
    BY DEF Init, UiOf
<1> QED BY <1>2, <1>3, WeightsBegin DEF DrawingOK

\* What the weights page draws is one of the trees that the server resolves, at
\* the width of a window.
THEOREM DrawingIsKept == Spec => [](WorkInv /\ DrawingOK)
<1>1. Init => WorkInv /\ DrawingOK
    BY StartsRight, DrawingStarts
<1>2. WorkInv /\ DrawingOK /\ [Next]_vars => (WorkInv /\ DrawingOK)'
    BY WorkStep, DrawingStep
<1> QED BY <1>1, <1>2, PTL DEF Spec

LEMMA TreeIsResolved == ASSUME WorkInv, DrawingOK, Drawn PROVE Tree \in Architectures
<1>1. activeProject \in Projects
    BY DEF WorkInv, PlaceOK
<1>2. Architecture # {} /\ Architecture \subseteq ArchitectureNames
    BY <1>1 DEF Drawn, OnWeights, Architecture, DrawingOK, ArchsOK, Entry, NoAnswer
<1>3. \E tree \in Architectures : tree.name \in Architecture
    BY <1>2 DEF ArchitectureNames
<1> QED BY <1>3 DEF Tree

\* The parameters shown on the columns of the flow, and those of the alike siblings
\* that the columns leave out, are all the parameters of the model's leaves, for
\* every tree of modules of any depth whose repeated blocks have as many parameters
\* each (lib/flatten-to-flow-columns.ts).
THEOREM FlowsAddUp == Spec => []FlowAddsUp
<1>1. ASSUME WorkInv, DrawingOK PROVE FlowAddsUp
    <2>1. Drawn => Tree \in Architectures
        BY <1>1, TreeIsResolved
    <2> QED BY <2>1, FigureAddsUp DEF FlowAddsUp, ColumnTotal, Columns
<1> QED BY <1>1, DrawingIsKept, PTL

\* However wide the window, whichever columns are expanded and whatever the model
\* is, no two cards of the flow overlap and all are within the canvas; the gutters
\* are beside all cards, the arrows within the picture, with room to turn; the
\* ticks of the strip select different layers, from the first to the last
\* (components/weights/flow-visualization.tsx, arch-flow.tsx).
THEOREM CardsAreInside == Spec => []DrawnInside
<1>1. ASSUME WorkInv, DrawingOK PROVE DrawnInside
    <2> SUFFICES ASSUME Drawn, ui.tab = "flow" PROVE DrawnInside
        BY DEF DrawnInside
    <2> DEFINE flat == BuildFlatColumns(Columns, ui.expanded)
               per == ColsPerRow(ui.width)
               cards == {CardAt(flat, per, i) : i \in DOMAIN flat}
               layers == LayerCount(Tree)
               ticks == StackTicks(layers)
    <2>1. Tree \in Architectures
        BY <1>1, TreeIsResolved
    <2>2. ui.width \in Nat
        BY <1>1 DEF Drawn, OnWeights, DrawingOK, WeightsFits
    <2>3. Columns \in Seq(FlowColumns)
        BY <2>1, FigureAddsUp DEF Columns
    <2>4. flat \in Seq(FlowColumns)
        BY <2>3, FlatColumns
    <2>5. per \in Nat \ {0}
        BY <2>2, Fitting
    <2>6. layers \in Nat
        BY <2>1, LayersOf
    <2>7. layers > 0 => /\ IsInjective(ticks) /\ ticks[1] = 0
                        /\ ticks[Len(ticks)] = layers - 1
        BY <2>6, TicksOf
    <2> HIDE DEF flat, per, layers
    <2>8. /\ Cardinality(cards) = Len(flat)
          /\ \A a, b \in cards : a # b => Apart(a, b)
        BY <2>4, <2>5, CardsOfFlow
    <2>9. \A i \in DOMAIN flat :
            /\ CardAt(flat, per, i).x + ColumnWidth <= CanvasWidth(flat, per)
            /\ CardAt(flat, per, i).y + CardAt(flat, per, i).height <= CanvasHeight(flat, per)
            /\ BesideGutters(flat, per, CardAt(flat, per, i))
        BY <2>4, <2>5, CardWithin, GuttersBeside
    <2>10. \A a \in cards : /\ a.x + ColumnWidth <= CanvasWidth(flat, per)
                            /\ a.y + a.height <= CanvasHeight(flat, per)
                            /\ BesideGutters(flat, per, a)
        BY <2>9
    <2>12. \A i \in 1 .. Len(flat) - 1 : ArrowFits(flat, per, i)
        BY <2>4, <2>5, ArrowsFit
    <2> HIDE DEF cards, ticks
    <2>11. /\ Cardinality(cards) = Len(flat)
           /\ \A a, b \in cards : a # b =>
                \/ a.x + ColumnWidth < b.x \/ b.x + ColumnWidth < a.x
                \/ a.y + a.height < b.y \/ b.y + b.height < a.y
        BY <2>8 DEF Apart
    <2> QED BY <2>7, <2>10, <2>11, <2>12 DEF DrawnInside, cards, ticks, flat, per, layers
<1> QED BY <1>1, DrawingIsKept, PTL
=============================================================================
