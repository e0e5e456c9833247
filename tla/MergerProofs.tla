---------------------------- MODULE MergerProofs ----------------------------
(***************************************************************************)
(* Merger's invariants and its action property, for all settings: every    *)
(* set of paths of two levels, root, pair of images and choice of options  *)
(* that MergerAssumption admits, every number of installations, edits and  *)
(* stops, and every order of them.  The user's files survive, all that is  *)
(* put on the root is listed, a completed installation is one, and nothing *)
(* that is wanted is missing in between.                                   *)
(*                                                                         *)
(* The invariant IInv says what holds between any two steps.  It starts    *)
(* from where a path leads: Place(p), which is fixed, since symlinks that  *)
(* are directories stay.  On that rests what is known of the step that is  *)
(* next (StepFits), of the lines of contents (LinesFit) and of the user's  *)
(* files (UserFits), and on these what is known of a whole installation:   *)
(* that everything on the root is accounted for (Tracked), how much of the *)
(* image is done (Progress), and that this much stays where it is, however *)
(* much of older versions is unmerged (Placed).  Of each part there is a   *)
(* lemma that a step keeps it, with the other parts as its hypotheses.     *)
(***************************************************************************)
EXTENDS Merger, SequenceTheorems, TLAPS

(* Where a path of an image is on the root, whenever one looks.            *)
Place(p) == ResolvedOn(setting.root, p)

(* A directory, maybe by a symlink.                                        *)
Leads(p) == root[p].type = "dir" \/ (root[p].type = "sym" /\ root[root[p].content].type = "dir")

There(q) == root[q].type \in {"file", "sym"}

-----------------------------------------------------------------------------
(* The invariant.                                                          *)

Stages == {"idle", "checked", "merging", "overwriting", "unmerging", "replacing"}
Steps == {"none", "unlink", "install", "rename", "failed", "track", "renamed"}
Lines == [path : Paths, type : {"file", "sym", "dir"}, content : Seq(STRING), mtime : Nat, volatile : BOOLEAN]

TypeOK ==
    /\ setting \in Settings
    /\ root \in [Paths -> Nodes]
    /\ DOMAIN midmerge \subseteq Paths /\ midmerge \in [DOMAIN midmerge -> Seq(STRING)]
    /\ DOMAIN entries \subseteq 1..clock
    /\ entries \in [DOMAIN entries -> [version : Versions, contents : SUBSET Lines]]
    /\ unseen \subseteq DOMAIN entries
    /\ stage \in Stages /\ version \in {0} \cup Versions /\ clock \in Nat /\ entry \in Nat
    /\ at \in Paths \cup {<<>>} /\ todo \subseteq Paths /\ merged \subseteq Paths
    /\ now \in [path : Paths \cup {<<>>}, dst : Paths \cup {<<>>}, step : Steps]
    /\ DOMAIN user \subseteq Paths /\ user \in [DOMAIN user -> Seq(STRING)]
    /\ touched \subseteq Paths /\ mixed \subseteq Paths /\ cut \subseteq Paths /\ stray \subseteq Paths

(* Names below which there may be something.                               *)
MayLead(p) ==
    \/ Below(p) # {}
    \/ \E v \in Versions : (p \in DOMAIN setting.image[v] /\ setting.image[v][p].type = "dir")

(* What such a name is stays so if it is a symlink, now or at first.       *)
LinksStay ==
    \A p \in Paths : MayLead(p) /\ "sym" \in {root[p].type, setting.root[p].type} => root[p] = setting.root[p]

(* What is somewhere is in a directory, and those are not inside others.   *)
FileSystem ==
    \A p \in Paths :
        /\ root[p].type = "dir" => Len(p) = 1
        /\ root[p] # Nothing /\ Len(p) = 2 => root[Parent(p)].type = "dir"

Disk == LinksStay /\ FileSystem

(* What the stage says of the other variables.                             *)
Control ==
    /\ stage # "merging" => now = Idle /\ at = <<>> /\ todo = {}
    /\ stage \in {"checked", "merging", "overwriting", "replacing"} => version \in Versions
    /\ complete # 0 => stage = "idle" /\ version = complete
    /\ stage = "unmerging" => entry \in DOMAIN entries \ unseen /\ unmerge \subseteq entries[entry].contents
    /\ stage = "unmerging" /\ version = 0 => merged = {}

(* do_dir_recursive() and the rest of the image: it is in a directory that *)
(* is there, and nothing below what is left to do has been done.           *)
Walk ==
    stage = "merging" =>
        /\ todo \subseteq DOMAIN image
        /\ at # <<>> => at \in DOMAIN image \ todo /\ image[at].type = "dir" /\ Wanted(at) /\ Leads(at)
        /\ \A p \in todo : (now.step = "renamed" /\ p = now.path) \/ Below(p) \cap DOMAIN image \subseteq todo
        /\ now = Idle \/ /\ now.step # "none"
                         /\ now.path \in todo /\ Parent(now.path) = at /\ Wanted(now.path)
                         /\ \/ now.dst = now.path
                            \/ /\ image[now.path].type = "file" /\ now.path \in Protected
                               /\ now.dst \in Range(UpdateNames[now.path])

(* The file p of the image is at q, but for what a copy has left there, or *)
(* has not written.                                                        *)
Is(p, q) ==
    /\ root[q].type = image[p].type
    /\ \/ root[q].content = image[p].content
       \/ q \in mixed /\ IsPrefix(image[p].content, root[q].content)
       \/ q \in cut

(* What p of the image becomes when it is renamed with its directory.      *)
OnRoot(p) == CASE image[p].type = "file" -> File(image[p].content, FileTime)
               [] image[p].type = "sym" -> Sym(image[p].content, 10 + clock)
               [] OTHER -> Dir

(* Before the step that is next, its precondition: nothing is overwritten  *)
(* that should not be; and after the last one, what the line will say.     *)
StepFits ==
    stage = "merging" /\ now # Idle =>
        LET im == image[now.path]
            q == Place(now.dst)
            mayPlace == CASE im.type = "file" ->
                               /\ root[q].type # "dir"
                               /\ now.path \in Protected /\ root[q].type = "file" => root[q].content = im.content
                          [] OTHER -> root[q] = Nothing
        IN  /\ now.step = "unlink" => im.type = "sym" /\ There(q)
            /\ now.step = "install" => mayPlace
            /\ now.step = "rename" => /\ im.type = "file" /\ mayPlace
                                      /\ q \in DOMAIN midmerge /\ midmerge[q] # UserContent
                                      /\ \/ q \in cut
                                         \/ /\ IsPrefix(im.content, midmerge[q])
                                            /\ midmerge[q] = im.content \/ q \in mixed
            /\ now.step = "track" => /\ im.type = "dir" => Leads(now.path)
                                     /\ im.type = "file" => /\ Is(now.path, q) /\ root[q].mtime = FileTime
                                                            /\ root[q].content # UserContent
                                     /\ im.type = "sym" => root[q] = OnRoot(now.path)
            /\ now.step = "renamed" => /\ im.type = "dir" /\ setting.rename /\ root[now.path] = Dir
                                       /\ \A p \in Below(now.path) \cap todo : root[p] = OnRoot(p)

(* A line is of the version's image.  It is never about what the user has  *)
(* written, nor what any later version puts there: the times differ.       *)
LineFits(e, l) ==
    LET im == setting.image[entries[e].version]
    IN  /\ l.path \in DOMAIN im /\ l.type = im[l.path].type
        /\ l.type = "file" => l.content # UserContent /\ l.mtime > 0
        /\ l.type = "file" /\ setting.preserveMtimes => l.mtime = entries[e].version
        /\ l.type = "sym" \/ (l.type = "file" /\ ~ setting.preserveMtimes) =>
              l.mtime <= 10 + clock /\ \A o \in DOMAIN entries : e < o => l.mtime < 10 + o
        /\ l.volatile => l.path \in setting.volatile \cup Protected

LinesFit == \A e \in DOMAIN entries : \A l \in entries[e].contents : LineFits(e, l)

(* A file of the user's that is not protected has the user's content, or   *)
(* the time it had at first; a copy that may replace one is not longer.    *)
UserFits ==
    /\ UserFilesSurvive
    /\ \A q \in DOMAIN user : user[q] = UserContent \/ root[q].mtime = 0 \/ q \in Protected \cup Updates
    /\ \A q \in DOMAIN user \cap DOMAIN midmerge \cap (Protected \cup Updates) :
          user[q] = UserContent \/ Len(midmerge[q]) <= Len(user[q])

(* The line l is about q, which is as it says.                             *)
Matches(l, q) ==
    /\ Place(l.path) = q
    /\ l.type = root[q].type /\ l.content = root[q].content /\ l.mtime = root[q].mtime

(* The contents of a version, but for what of it has been gone through.    *)
Left(e) == IF stage = "unmerging" /\ e = entry THEN unmerge ELSE entries[e].contents

(* What the step that is next may have put there, and not listed.          *)
Pending ==
    IF now = Idle THEN {}
    ELSE IF now.step = "renamed" THEN todo \cap Below(now.path)
    ELSE IF image[now.path].type = "dir" THEN {}
    ELSE {Place(now.dst)}

Exempt == DOMAIN user \cup stray \cup Pending \cup Protected \cup Updates

(* Everything else is as it was at first, or listed.                       *)
Tracked ==
    \A q \in Paths : There(q) =>
        \/ q \in Exempt
        \/ root[q] = setting.root[q]
        \/ \E e \in DOMAIN entries : \E l \in Left(e) : Matches(l, q)

(* A version is being installed, or has been last.                         *)
Placing == version # 0 /\ (stage \in {"merging", "overwriting", "unmerging", "replacing"} \/ complete # 0)

Listed == {l.path : l \in entries[Newest].contents}

(* It is the latest; what of it is wanted is left to do, or it is listed,  *)
(* and known to have been merged.                                          *)
Progress ==
    Placing =>
        /\ Newest \in DOMAIN entries /\ \A o \in DOMAIN entries : o <= Newest
        /\ entries[Newest].version = version
        /\ IF stage = "unmerging" THEN entry # Newest ELSE entry = Newest
        /\ Newest \notin unseen
        /\ stage # "merging" => indexed
        /\ complete # 0 => DOMAIN entries = unseen \cup {Newest}
        /\ \A p \in DOMAIN image : Wanted(p) => p \in todo \cup Listed
        /\ \A p \in Listed :
              /\ p \notin todo
              /\ Wanted(p) \/ (setting.rename /\ Wanted(Parent(p)))
              /\ p \in merged \/ (p \in Protected /\ image[p].type = "file")
        /\ merged \subseteq Listed \cup Updates

(* What is listed of it is in its place,                                   *)
InPlace(p) ==
    IF image[p].type = "dir"
    THEN Leads(p) \/ (root[p].type = "sym" /\ ~ \E q \in Below(p) \cap DOMAIN image : Wanted(q))
    ELSE \/ Place(p) \in touched
         \/ Is(p, Place(p))
         \/ p \in Protected /\ image[p].type = "file" /\ \E q \in Range(UpdateNames[p]) : Is(p, q)

(* cannot be taken for that of an older version,                           *)
IsRecent(p) ==
    LET node == root[Place(p)]
    IN  \/ node.type = "file" /\ node.content = UserContent
        \/ node.type = "file" /\ image[p].type = "file" /\ setting.preserveMtimes /\ node.mtime = version
        \/ There(Place(p)) /\ ~ (image[p].type = "file" /\ setting.preserveMtimes) /\ node.mtime >= 10 + Newest

(* and is listed as it is.                                                 *)
IsListed(p) == Place(p) \in DOMAIN user \/ \E l \in entries[Newest].contents : Matches(l, Place(p))

IsPlaced(p) == InPlace(p) /\ (image[p].type # "dir" /\ p \notin Protected => IsRecent(p) /\ IsListed(p))

Placed == Placing => \A p \in Listed : IsPlaced(p)

IInv == TypeOK /\ Disk /\ Control /\ Walk /\ StepFits /\ LinesFit /\ UserFits /\ Tracked /\ Progress /\ Placed
-----------------------------------------------------------------------------
(* Paths.                                                                  *)

LEMMA PathParts ==
    ASSUME TwoLevels, NEW p \in Paths
    PROVE  /\ p \in Seq(STRING) /\ p # <<>>
           /\ Len(p) = 1 => Parent(p) = <<>>
           /\ Len(p) # 1 => /\ Len(p) = 2 /\ Parent(p) \in Paths /\ Parent(p) # <<>> /\ Len(Parent(p)) = 1
                            /\ Last(p) \in STRING
<1>1. p \in Seq(STRING) /\ Len(p) \in 1..2 /\ (Len(p) = 2 => Parent(p) \in Paths) BY DEF TwoLevels
<1>2. Len(p) = 1 => Parent(p) = <<>> BY <1>1 DEF Parent, Front
<1>3. ASSUME Len(p) = 2 PROVE Len(Parent(p)) = 1 /\ Last(p) \in STRING
  <2>1. Len(Parent(p)) = 1 BY <1>1, <1>3 DEF Parent, Front
  <2>2. p[2] \in STRING BY <1>1, <1>3, ElementOfSeq
  <2>3. QED BY <1>3, <2>1, <2>2 DEF Last
<1>4. QED BY <1>1, <1>2, <1>3

LEMMA BelowIsChild ==
    ASSUME TwoLevels, NEW p \in Paths, NEW q \in Paths
    PROVE  q \in Below(p) <=> Len(q) = 2 /\ Parent(q) = p
<1>1. p \in Seq(STRING) /\ Len(p) \in 1..2 /\ q \in Seq(STRING) /\ Len(q) \in 1..2 BY DEF TwoLevels
<1>2. ASSUME q \in Below(p) PROVE Len(q) = 2 /\ Parent(q) = p
  <2>1. Len(p) <= Len(q) /\ SubSeq(p, 1, Len(p)) = SubSeq(q, 1, Len(p)) /\ p # q
    BY <1>2 DEF Below, IsStrictPrefix, IsPrefix
  <2>2. SubSeq(p, 1, Len(p)) = p BY <1>1
  <2>3. Len(p) # Len(q)
    <3>1. SUFFICES ASSUME Len(p) = Len(q) PROVE FALSE OBVIOUS
    <3>2. SubSeq(q, 1, Len(p)) = q BY <1>1, <3>1
    <3>3. QED BY <2>1, <2>2, <3>2
  <2>4. Len(q) = 2 /\ Len(p) = 1 BY <1>1, <2>1, <2>3
  <2>5. QED BY <1>1, <2>1, <2>2, <2>4 DEF Parent, Front
<1>3. ASSUME Len(q) = 2, Parent(q) = p PROVE q \in Below(p)
  <2>1. p = SubSeq(q, 1, 1) BY <1>3 DEF Parent, Front
  <2>2. Len(p) = 1 BY <1>1, <1>3, <2>1
  <2>3. SubSeq(p, 1, Len(p)) = p BY <1>1
  <2>4. QED BY <1>1, <1>3, <2>1, <2>2, <2>3 DEF Below, IsStrictPrefix, IsPrefix
<1>4. QED BY <1>2, <1>3

LEMMA PrefixOrSame ==
    ASSUME TwoLevels, NEW p \in Paths, NEW q \in Paths
    PROVE  IsPrefix(p, q) <=> p = q \/ q \in Below(p)
<1>1. p \in Seq(STRING) BY DEF TwoLevels
<1>2. SubSeq(p, 1, Len(p)) = p BY <1>1
<1>3. IsPrefix(p, p) BY <1>1 DEF IsPrefix
<1>4. QED BY <1>3 DEF Below, IsStrictPrefix

(* A directory that is a symlink.                                          *)
LEMMA ThroughLink ==
    ASSUME TwoLevels, NEW files, NEW p \in Paths, ResolvedOn(files, p) \in Paths
    PROVE  /\ Len(p) = 1 => ResolvedOn(files, p) = p
           /\ Len(p) = 2 => Len(ResolvedOn(files, p)) \in 1..2
           /\ Len(p) = 2 /\ files[Parent(p)].type # "sym" => ResolvedOn(files, p) = p
           /\ Len(p) = 2 /\ files[Parent(p)].type = "sym" /\ files[Parent(p)].content \in Paths =>
                /\ Len(ResolvedOn(files, p)) = 2
                /\ Parent(ResolvedOn(files, p)) = files[Parent(p)].content
<1>1. Len(p) \in 1..2 /\ ResolvedOn(files, p) \in Seq(STRING) /\ Len(ResolvedOn(files, p)) \in 1..2
  BY DEF TwoLevels
<1>2. ASSUME Len(p) = 2, files[Parent(p)].type = "sym", files[Parent(p)].content \in Paths
      PROVE  /\ Len(ResolvedOn(files, p)) = 2
             /\ Parent(ResolvedOn(files, p)) = files[Parent(p)].content
  <2> DEFINE c == files[Parent(p)].content
  <2>1. c \in Seq(STRING) /\ Len(c) \in 1..2 BY <1>2 DEF TwoLevels
  <2>2. ResolvedOn(files, p) = Append(c, Last(p)) BY <1>2 DEF ResolvedOn
  <2>3. Last(p) \in STRING
    <3>1. Len(p) # 1 BY <1>2
    <3>2. QED BY <3>1, PathParts
  <2>4. Len(ResolvedOn(files, p)) = Len(c) + 1 BY <2>1, <2>2, <2>3
  <2>5. Front(Append(c, Last(p))) = c BY <2>1, <2>3 DEF Front
  <2>6. QED BY <1>1, <2>1, <2>2, <2>4, <2>5 DEF Parent
<1>3. Len(p) = 1 => ResolvedOn(files, p) = p BY DEF ResolvedOn
<1>4. files[Parent(p)].type # "sym" => ResolvedOn(files, p) = p BY DEF ResolvedOn
<1>5. QED BY <1>1, <1>2, <1>3, <1>4

-----------------------------------------------------------------------------
(* What is assumed of the setting.                                         *)

LEMMA Fit ==
    ASSUME setting \in Settings
    PROVE  TwoLevels /\ UpdatesAreNear /\ SettingIsFit(setting)
BY MergerAssumption

LEMMA NodeTypes ==
    /\ Nothing.type = "nothing" /\ Nothing.content = <<>> /\ Nothing.mtime = 0
    /\ Dir.type = "dir" /\ Dir.content = <<>> /\ Dir.mtime = 0
    /\ \A c, m : File(c, m).type = "file" /\ File(c, m).content = c /\ File(c, m).mtime = m
    /\ \A c, m : Sym(c, m).type = "sym" /\ Sym(c, m).content = c /\ Sym(c, m).mtime = m
BY DEF Nothing, Dir, File, Sym

LEMMA TwoIsNotOne == \A n : n = 2 => n # 1
OBVIOUS

LEMMA NodeParts ==
    ASSUME NEW n \in Nodes
    PROVE  /\ n.type \in {"nothing", "dir", "file", "sym"} /\ n.content \in Seq(STRING) /\ n.mtime \in Nat
           /\ n.type = "sym" => n.content \in Paths
           /\ n.type = "dir" => n = Dir
           /\ n.type = "nothing" <=> n = Nothing
           /\ n.type = "file" => n = File(n.content, n.mtime)
<1>1. TwoLevels BY MergerAssumption
<1>2. <<>> \in Seq(STRING) OBVIOUS
<1>3. \A p \in Paths : p \in Seq(STRING) BY <1>1 DEF TwoLevels
<1>4. CASE n = Nothing
  <2>1. n.type = "nothing" /\ n.content = <<>> /\ n.mtime = 0 BY <1>4 DEF Nothing
  <2>2. QED BY <1>2, <1>4, <2>1
<1>8. CASE n = Dir
  <2>1. n.type = "dir" /\ n.content = <<>> /\ n.mtime = 0 BY <1>8 DEF Dir
  <2>2. n # Nothing BY <2>1 DEF Nothing
  <2>3. QED BY <1>2, <1>8, <2>1, <2>2
<1>5. CASE n \in [type : {"file"}, content : Seq(STRING), mtime : Nat] BY <1>5 DEF Nothing, Dir, File
<1>6. CASE n \in [type : {"sym"}, content : Paths, mtime : Nat] BY <1>3, <1>6 DEF Nothing, Dir
<1>7. QED BY <1>4, <1>5, <1>6, <1>8 DEF Nodes

LEMMA UserContentParts == UserContent \in Seq(STRING) /\ Len(UserContent) = 1
BY MergerAssumption DEF UserContentFits

LEMMA NewNodes ==
    /\ Nothing \in Nodes /\ Dir \in Nodes
    /\ \A c \in Seq(STRING), m \in Nat : File(c, m) \in Nodes
    /\ \A c \in Paths, m \in Nat : Sym(c, m) \in Nodes
BY DEF Nodes, File, Sym

LEMMA ImageParts ==
    ASSUME setting \in Settings, NEW v \in Versions, NEW p \in DOMAIN setting.image[v]
    PROVE  LET im == setting.image[v]
           IN  /\ p \in Paths /\ p \notin Updates
               /\ im[p].type \in {"file", "sym", "dir"} /\ im[p].content \in Seq(STRING)
               /\ im[p].type = "dir" => Len(p) = 1 /\ p \notin Protected
               /\ im[p].type = "sym" => im[p].content \in Paths
               /\ im[p].type = "file" => /\ im[p].content # <<>> /\ im[p].content # UserContent
                                         /\ im[p].content[1] # UserContent[1]
               /\ Len(p) = 2 => Parent(p) \in DOMAIN im
<1> DEFINE im == setting.image[v]
<1>1. ImageIsFit(im) BY Fit DEF SettingIsFit
<1>2. im[p] \in ImageNodes BY <1>1 DEF ImageIsFit
<1>3. \A q \in Paths : q \in Seq(STRING) BY Fit DEF TwoLevels
<1>4. /\ im[p].type \in {"file", "sym", "dir"} /\ im[p].content \in Seq(STRING)
      /\ im[p].type = "sym" => im[p].content \in Paths
      /\ im[p].type = "file" => /\ im[p].content # <<>> /\ im[p].content # UserContent
                                /\ im[p].content[1] # UserContent[1]
  <2>1. CASE im[p] = [type |-> "dir", content |-> <<>>] BY <2>1
  <2>2. CASE im[p] \in [type : {"file"}, content : {c \in Seq(STRING) : c # <<>> /\ c[1] # UserContent[1]}] BY <2>2
  <2>3. CASE im[p] \in [type : {"sym"}, content : Paths] BY <1>3, <2>3
  <2>4. QED BY <1>2, <2>1, <2>2, <2>3 DEF ImageNodes
<1>5. QED BY <1>1, <1>4 DEF ImageIsFit

(* What is not a directory in one version leads nowhere in any.            *)
LEMMA NoDirectory ==
    ASSUME setting \in Settings, NEW v \in Versions, NEW p \in DOMAIN setting.image[v],
           setting.image[v][p].type # "dir"
    PROVE  /\ ~ MayLead(p)
           /\ Below(p) = {}
           /\ \A w \in Versions : p \in DOMAIN setting.image[w] => setting.image[w][p].type # "dir"
BY Fit DEF SettingIsFit, DirectoriesStay, MayLead

LEMMA PlaceParts ==
    ASSUME setting \in Settings, NEW p \in Paths
    PROVE  /\ Place(p) \in Paths /\ Len(Place(p)) = Len(p)
           /\ Len(p) = 1 => Place(p) = p
           /\ Len(p) = 2 /\ setting.root[Parent(p)].type # "sym" => Place(p) = p
           /\ Len(p) = 2 /\ setting.root[Parent(p)].type = "sym" =>
                Parent(Place(p)) = setting.root[Parent(p)].content
<1>1. TwoLevels /\ RootIsFit(setting.root) BY Fit DEF SettingIsFit
<1>2. setting.root \in [Paths -> Nodes] /\ Place(p) \in Paths BY <1>1 DEF RootIsFit, Place
<1>3. Len(p) \in 1..2 BY <1>1 DEF TwoLevels
<1>4. ASSUME Len(p) = 2, setting.root[Parent(p)].type = "sym" PROVE setting.root[Parent(p)].content \in Paths
  <2>1. Parent(p) \in Paths BY <1>1, <1>4 DEF TwoLevels
  <2>2. QED BY <1>2, <1>4, <2>1, NodeParts
<1>5. QED BY <1>1, <1>2, <1>3, <1>4, ThroughLink DEF Place

(* What is protected has one name only.                                    *)
LEMMA PlaceOfProtected ==
    ASSUME setting \in Settings, NEW p \in Paths, NEW q \in Protected \cup Updates
    PROVE  Place(p) = q <=> p = q
BY Fit DEF SettingIsFit, NamesAreDistinct, Place

LEMMA PlacesAreDistinct ==
    ASSUME setting \in Settings, NEW v \in Versions,
           NEW p \in DOMAIN setting.image[v], NEW q \in DOMAIN setting.image[v],
           setting.image[v][p].type # "dir", setting.image[v][q].type # "dir", Place(p) = Place(q)
    PROVE  p = q
BY Fit DEF SettingIsFit, NamesAreDistinct, Place

LEMMA PlaceOfVolatile ==
    ASSUME setting \in Settings, NEW p \in Paths, NEW q \in setting.volatile, Place(p) = Place(q)
    PROVE  p = q
BY Fit DEF SettingIsFit, NamesAreDistinct, Place

LEMMA UpdateParts ==
    ASSUME setting \in Settings, NEW p \in Protected, NEW u \in Range(UpdateNames[p])
    PROVE  /\ p \in Paths /\ u \in Paths /\ u \in Updates /\ p \notin Updates /\ u \notin Protected
           /\ Below(p) = {} /\ Below(u) = {} /\ Parent(u) = Parent(p) /\ Len(u) = Len(p)
           /\ Place(u) = u /\ Place(p) = p
           /\ \A q \in Protected : u \in Range(UpdateNames[q]) => q = p
<1>1. UpdatesAreNear /\ TwoLevels BY Fit
<1>2. UpdateNames[p] \in Seq(Paths) BY <1>1 DEF UpdatesAreNear
<1>3. u \in Paths BY <1>2, ElementOfSeq DEF Range
<1>4. u \in Updates BY DEF Updates
<1>5. p \in Paths /\ Parent(u) = Parent(p) /\ Below(p) = {} /\ Below(u) = {} /\ p \notin Updates /\ u \notin Protected
  BY <1>1, <1>4 DEF UpdatesAreNear
<1>6. \A q \in Protected : u \in Range(UpdateNames[q]) => q = p BY <1>1 DEF UpdatesAreNear
<1>7. Len(u) = Len(p)
  <2>1. Len(u) \in 1..2 /\ Len(p) \in 1..2 BY <1>1, <1>3, <1>5 DEF TwoLevels
  <2>2. Len(u) = 1 <=> Parent(u) = <<>> BY <1>1, <1>3, PathParts
  <2>3. Len(p) = 1 <=> Parent(p) = <<>> BY <1>1, <1>5, PathParts
  <2>4. QED BY <1>5, <2>1, <2>2, <2>3
<1>8. Place(u) = u /\ Place(p) = p BY <1>3, <1>4, <1>5, PlaceOfProtected
<1>9. QED BY <1>3, <1>4, <1>5, <1>6, <1>7, <1>8

LEMMA InitialRoot ==
    ASSUME setting \in Settings, NEW p \in Paths
    PROVE  /\ setting.root \in [Paths -> Nodes]
           /\ setting.root[p].type = "dir" => Len(p) = 1
           /\ setting.root[p] # Nothing /\ Len(p) = 2 => setting.root[Parent(p)].type = "dir"
           /\ setting.root[p].type = "file" => setting.root[p].mtime = 0
BY Fit DEF SettingIsFit, RootIsFit

(* Symlinks that are directories stay what they are.                       *)
LEMMA LinksAreFixed ==
    ASSUME setting \in Settings, NEW files, NEW p \in Paths,
           \A q \in Paths : MayLead(q) /\ "sym" \in {files[q].type, setting.root[q].type} =>
              files[q] = setting.root[q]
    PROVE  ResolvedOn(files, p) = Place(p)
<1>1. TwoLevels /\ Len(p) \in 1..2 BY Fit DEF TwoLevels
<1>2. CASE Len(p) = 1 BY <1>2 DEF ResolvedOn, Place
<1>3. CASE Len(p) = 2
  <2>1. Parent(p) \in Paths BY <1>1, <1>3 DEF TwoLevels
  <2>2. p \in Below(Parent(p)) BY <1>1, <1>3, <2>1, BelowIsChild
  <2>3. MayLead(Parent(p)) BY <2>2 DEF MayLead
  <2>4. QED BY <2>1, <2>3 DEF ResolvedOn, Place
<1>4. QED BY <1>1, <1>2, <1>3

LEMMA ResolvedIsPlace ==
    ASSUME setting \in Settings, LinksStay, NEW p \in Paths
    PROVE  Resolved(p) = Place(p) /\ Stat(p) = root[Place(p)]
BY LinksAreFixed DEF LinksStay, Resolved, Stat

LEMMA DirectoryLeads ==
    ASSUME setting \in Settings, NEW p \in Paths, Len(p) = 1
    PROVE  Resolved(p) = p /\ Stat(p) = root[p] /\ (IsDirectory(p) <=> Leads(p))
BY DEF Resolved, ResolvedOn, Stat, IsDirectory, Leads

LEMMA WantedParts ==
    ASSUME setting \in Settings, NEW p \in Paths
    PROVE  /\ Wanted(p) => p \notin setting.skip
           /\ Len(p) = 1 => (Wanted(p) <=> p \notin setting.skip)
           /\ Len(p) = 2 => (Wanted(p) <=> p \notin setting.skip /\ Parent(p) \notin setting.skip)
           /\ \A q \in Below(p) : Wanted(q) <=> q \notin setting.skip /\ p \notin setting.skip
<1>1. TwoLevels /\ setting.skip \subseteq Paths BY Fit DEF SettingIsFit
<1>2. \A r \in Paths : Wanted(r) <=> r \notin setting.skip /\ \A q \in setting.skip : r \notin Below(q)
  <2> TAKE r \in Paths
  <2>1. \A q \in setting.skip : IsPrefix(q, r) <=> q = r \/ r \in Below(q) BY <1>1, PrefixOrSame
  <2>2. QED BY <2>1 DEF Wanted
<1>3. \A r, q \in Paths : r \in Below(q) <=> Len(r) = 2 /\ Parent(r) = q BY <1>1, BelowIsChild
<1>4. \A q \in Below(p) : q \in Paths BY DEF Below
<1>5. QED BY <1>1, <1>2, <1>3, <1>4

-----------------------------------------------------------------------------
(* Contents, and what a copy makes of them.                                *)

LEMMA WholeSeq == ASSUME NEW s \in Seq(STRING) PROVE SubSeq(s, 1, Len(s)) = s
OBVIOUS

LEMMA PrefixNoLonger ==
    ASSUME NEW s \in Seq(STRING), NEW t \in Seq(STRING), IsPrefix(s, t), Len(t) <= Len(s)
    PROVE  t = s
<1>1. Len(s) \in Nat /\ Len(t) \in Nat OBVIOUS
<1>2. Len(s) = Len(t) BY <1>1 DEF IsPrefix
<1>3. QED BY <1>2, WholeSeq DEF IsPrefix

LEMMA OverwrittenParts ==
    ASSUME NEW new \in Seq(STRING), NEW old \in Seq(STRING)
    PROVE  /\ Overwritten(new, old) \in Seq(STRING)
           /\ Len(Overwritten(new, old)) = (IF Len(new) < Len(old) THEN Len(old) ELSE Len(new))
           /\ new # <<>> => Overwritten(new, old) # <<>> /\ Overwritten(new, old)[1] = new[1]
           /\ IsPrefix(new, Overwritten(new, old))
           /\ old = <<>> => Overwritten(new, old) = new
<1> DEFINE rest == SubSeq(old, Len(new) + 1, Len(old))
<1>1. rest \in Seq(STRING) /\ Len(new) \in Nat /\ Len(rest) \in Nat OBVIOUS
<1>2. Overwritten(new, old) = new \o rest BY DEF Overwritten
<1> HIDE DEF rest
<1>3. Len(new \o rest) = Len(new) + Len(rest) /\ new \o rest \in Seq(STRING) BY <1>1
<1>4. SubSeq(new \o rest, 1, Len(new)) = new BY <1>1, <1>3
<1>5. IsPrefix(new, new \o rest) BY <1>1, <1>3, <1>4, WholeSeq DEF IsPrefix
<1>6. old = <<>> => rest = <<>> BY <1>1 DEF rest
<1>7. new \o <<>> = new OBVIOUS
<1>8. Len(rest) = (IF Len(new) < Len(old) THEN Len(old) - Len(new) ELSE 0) BY DEF rest
<1>9. Len(new \o rest) = (IF Len(new) < Len(old) THEN Len(old) ELSE Len(new)) BY <1>1, <1>3, <1>8
<1>10. new # <<>> => new \o rest # <<>> /\ (new \o rest)[1] = new[1]
  <2> SUFFICES ASSUME new # <<>> PROVE new \o rest # <<>> /\ (new \o rest)[1] = new[1] OBVIOUS
  <2>1. Len(new) # 0 BY EmptySeq
  <2>2. 1 \in 1..Len(new) BY <1>1, <2>1
  <2>3. (new \o rest)[1] = new[1] BY <1>1, <2>2
  <2>4. Len(new \o rest) # 0 BY <1>1, <1>3, <2>1
  <2>5. QED BY <2>3, <2>4, EmptySeq
<1>11. QED BY <1>2, <1>3, <1>5, <1>6, <1>7, <1>9, <1>10

(* What is written of something is no longer, and begins the same.         *)
LEMMA WrittenParts ==
    ASSUME NEW s \in Seq(STRING), NEW w \in Written(s)
    PROVE  /\ w \in Seq(STRING) /\ Len(w) <= Len(s)
           /\ s # <<>> => w # <<>> /\ w[1] = s[1]
<1>0. PICK n \in 0..Len(s) : w \in {[k \in 1..n |-> s[f[k]]] : f \in Kept(s, n)} BY DEF Written
<1>a. PICK g \in Kept(s, n) : w = [k \in 1..n |-> s[g[k]]] BY <1>0
<1>b. g \in [1..n -> DOMAIN s] /\ (s # <<>> => n > 0 /\ g[1] = 1) BY <1>a DEF Kept
<1>1. /\ s # <<>> => n > 0 /\ g[1] = 1
      /\ w = [k \in 1..n |-> s[g[k]]]
  BY <1>a, <1>b
<1>2. n \in Nat /\ Len(s) \in Nat /\ n <= Len(s) OBVIOUS
<1>3. \A i \in DOMAIN s : s[i] \in STRING OBVIOUS
<1>4. w \in [1..n -> STRING] BY <1>1, <1>3, <1>b
<1>5. w \in Seq(STRING) /\ Len(w) = n BY <1>2, <1>4
<1>6. ASSUME s # <<>> PROVE w # <<>> /\ w[1] = s[1]
  <2>1. n > 0 /\ g[1] = 1 BY <1>1, <1>6
  <2>2. 1 \in 1..n BY <1>2, <2>1
  <2>3. w[1] = s[g[1]] BY <1>1, <2>2
  <2>4. QED BY <1>5, <2>1, <2>3
<1>7. QED BY <1>2, <1>5, <1>6

(* What a copy leaves that was all written, or failed after n of it.       *)
LEMMA CopyParts ==
    ASSUME NEW new \in Seq(STRING), NEW old \in Seq(STRING), NEW n \in 0..Len(new),
           NEW w \in Written(SubSeq(new, 1, n))
    PROVE  LET copy == Overwritten(w, old)
           IN  /\ copy \in Seq(STRING)
               /\ Len(copy) <= Len(new) \/ Len(copy) <= Len(old)
               /\ n = Len(new) /\ new # <<>> => copy # <<>> /\ copy[1] = new[1]
               /\ w = new => IsPrefix(new, copy) /\ (old = <<>> => copy = new)
<1> DEFINE s == SubSeq(new, 1, n)
           copy == Overwritten(w, old)
<1>1. s \in Seq(STRING) /\ Len(s) = n /\ n \in Nat /\ Len(new) \in Nat /\ Len(old) \in Nat /\ n <= Len(new) OBVIOUS
<1>2. n = Len(new) => s = new BY WholeSeq
<1>3. w \in Written(s) OBVIOUS
<1> HIDE DEF s
<1>4. w \in Seq(STRING) /\ Len(w) <= Len(s) /\ (s # <<>> => w # <<>> /\ w[1] = s[1]) BY <1>1, <1>3, WrittenParts
<1>5. /\ copy \in Seq(STRING)
      /\ Len(copy) = (IF Len(w) < Len(old) THEN Len(old) ELSE Len(w))
      /\ w # <<>> => copy # <<>> /\ copy[1] = w[1]
      /\ IsPrefix(w, copy)
      /\ old = <<>> => copy = w
  BY <1>4, OverwrittenParts
<1> HIDE DEF copy
<1>6. Len(w) \in Nat BY <1>4
<1>7. Len(copy) <= Len(new) \/ Len(copy) <= Len(old) BY <1>1, <1>4, <1>5, <1>6
<1>8. QED BY <1>2, <1>4, <1>5, <1>7 DEF copy
-----------------------------------------------------------------------------
(* What holds of the entry that a merge is at.                             *)

LEMMA DeepLeadsNowhere ==
    ASSUME setting \in Settings, NEW p \in Paths, Len(p) = 2
    PROVE  ~ MayLead(p) /\ Below(p) = {}
<1>1. TwoLevels BY Fit
<1>2. Below(p) = {}
  <2>1. SUFFICES ASSUME NEW q \in Below(p) PROVE FALSE OBVIOUS
  <2>2. q \in Paths BY DEF Below
  <2>3. Len(q) = 2 /\ Parent(q) = p BY <1>1, <2>2, BelowIsChild
  <2>4. Len(q) # 1 BY <2>3
  <2>5. QED BY <1>1, <2>2, <2>3, <2>4, PathParts
<1>3. \A v \in Versions : p \in DOMAIN setting.image[v] => setting.image[v][p].type # "dir"
  <2> SUFFICES ASSUME NEW v \in Versions, p \in DOMAIN setting.image[v] PROVE setting.image[v][p].type # "dir"
    OBVIOUS
  <2>1. setting.image[v][p].type = "dir" => Len(p) = 1 BY ImageParts
  <2>2. QED BY <2>1
<1>4. QED BY <1>2, <1>3 DEF MayLead

LEMMA UpdateLeadsNowhere ==
    ASSUME setting \in Settings, NEW p \in Protected, NEW u \in Range(UpdateNames[p])
    PROVE  ~ MayLead(u)
<1>1. Below(u) = {} /\ u \in Updates BY UpdateParts
<1>2. \A v \in Versions : u \notin DOMAIN setting.image[v] BY <1>1, ImageParts
<1>3. QED BY <1>1, <1>2 DEF MayLead

LEMMA AtEntry ==
    ASSUME TypeOK, Disk, Control, Walk, stage = "merging", now.step # "none"
    PROVE  /\ version \in Versions /\ now # Idle
           /\ now.path \in todo /\ now.path \in DOMAIN image /\ now.path \in Paths /\ now.path \notin Updates
           /\ Parent(now.path) = at /\ Wanted(now.path)
           /\ now.dst \in Paths /\ Len(now.dst) = Len(now.path) /\ Parent(now.dst) = at
           /\ Resolved(now.dst) = Place(now.dst) /\ Place(now.dst) \in Paths
           /\ Stat(now.dst) = root[Place(now.dst)]
           /\ image[now.path].type \in {"file", "sym", "dir"}
           /\ \/ now.dst = now.path
              \/ /\ image[now.path].type = "file" /\ now.path \in Protected
                 /\ now.dst \in Range(UpdateNames[now.path]) /\ now.dst \in Updates /\ Place(now.dst) = now.dst
           /\ now.path \in Protected => Place(now.path) = now.path /\ Place(now.dst) = now.dst
           /\ now.path \notin Protected => Place(now.dst) \notin Protected \cup Updates
           /\ image[now.path].type # "dir" => ~ MayLead(Place(now.dst)) /\ Below(now.path) = {}
           /\ image[now.path].type = "dir" =>
                now.dst = now.path /\ Len(now.path) = 1 /\ Place(now.path) = now.path /\ at = <<>>
<1> USE DEF image
<1>1. version \in Versions /\ now # Idle /\ setting \in Settings BY DEF TypeOK, Control, Idle
<1>2. /\ todo \subseteq DOMAIN image /\ now.path \in todo /\ Parent(now.path) = at /\ Wanted(now.path)
      /\ \/ now.dst = now.path
         \/ /\ image[now.path].type = "file" /\ now.path \in Protected
            /\ now.dst \in Range(UpdateNames[now.path])
  BY <1>1 DEF Walk
<1>3. /\ now.path \in Paths /\ now.path \notin Updates /\ image[now.path].type \in {"file", "sym", "dir"}
      /\ image[now.path].type = "dir" => Len(now.path) = 1 /\ now.path \notin Protected
  BY <1>1, <1>2, ImageParts
<1>4. \/ now.dst = now.path
      \/ /\ image[now.path].type = "file" /\ now.path \in Protected
         /\ now.dst \in Range(UpdateNames[now.path]) /\ now.dst \in Updates /\ Place(now.dst) = now.dst
         /\ now.dst \in Paths /\ Len(now.dst) = Len(now.path) /\ Parent(now.dst) = Parent(now.path)
  BY <1>1, <1>2, UpdateParts
<1>5. now.dst \in Paths BY <1>3, <1>4
<1>6. Resolved(now.dst) = Place(now.dst) /\ Stat(now.dst) = root[Place(now.dst)]
  BY <1>1, <1>5, ResolvedIsPlace DEF Disk
<1>7. Place(now.dst) \in Paths BY <1>1, <1>5, PlaceParts
<1>8. now.path \in Protected => Place(now.path) = now.path /\ Place(now.dst) = now.dst
  BY <1>1, <1>3, <1>4, PlaceOfProtected
<1>9. now.path \notin Protected => Place(now.dst) \notin Protected \cup Updates
  BY <1>1, <1>3, <1>4, PlaceOfProtected
<1>10. ASSUME image[now.path].type # "dir" PROVE ~ MayLead(Place(now.dst)) /\ Below(now.path) = {}
  <2>1. Below(now.path) = {} /\ ~ MayLead(now.path) BY <1>1, <1>2, <1>10, NoDirectory
  <2>2. CASE now.dst # now.path BY <1>1, <1>4, <2>1, <2>2, UpdateLeadsNowhere
  <2>3. CASE now.dst = now.path
    <3>1. Len(now.path) \in 1..2 BY Fit, <1>1, <1>3 DEF TwoLevels
    <3>2. CASE Len(now.path) = 1 BY <1>1, <1>3, <2>1, <2>3, <3>2, PlaceParts
    <3>3. CASE Len(now.path) = 2 BY <1>1, <1>3, <1>7, <2>1, <2>3, <3>3, PlaceParts, DeepLeadsNowhere
    <3>4. QED BY <3>1, <3>2, <3>3
  <2>4. QED BY <2>2, <2>3
<1>11. image[now.path].type = "dir" => Len(now.path) = 1 /\ Place(now.path) = now.path
  BY <1>1, <1>3, PlaceParts
<1>12. image[now.path].type = "dir" => Parent(now.path) = <<>>
  BY <1>1, <1>3, PathParts, Fit
<1>13. QED BY <1>1, <1>2, <1>3, <1>4, <1>5, <1>6, <1>7, <1>8, <1>9, <1>10, <1>11, <1>12

LEMMA LineParts ==
    ASSUME TypeOK, Disk, Control, Walk, stage = "merging", now.step # "none",
           NEW p \in Paths, p \in DOMAIN image, NEW dst \in Paths
    PROVE  Line(p, dst) \in Lines /\ Stat(dst) = root[Place(dst)]
<1>1. version \in Versions /\ setting \in Settings /\ root \in [Paths -> Nodes] BY DEF TypeOK, Control
<1>2. Stat(dst) = root[Place(dst)] /\ Place(dst) \in Paths BY <1>1, ResolvedIsPlace, PlaceParts DEF Disk
<1>3. Stat(dst).content \in Seq(STRING) /\ Stat(dst).mtime \in Nat BY <1>1, <1>2, NodeParts
<1>4. image[p].type \in {"file", "sym", "dir"} BY <1>1, ImageParts DEF image
<1>5. QED BY <1>2, <1>3, <1>4 DEF Line, Lines

-----------------------------------------------------------------------------
(* Types.                                                                  *)

LEMMA TypeInit == Init => TypeOK
<1> SUFFICES ASSUME Init PROVE TypeOK OBVIOUS
<1>1. setting \in Settings /\ root \in [Paths -> Nodes] BY InitialRoot, Fit DEF Init, SettingIsFit, RootIsFit
<1>2. DOMAIN user \subseteq Paths /\ user \in [DOMAIN user -> Seq(STRING)] BY <1>1, NodeParts DEF Init
<1>3. DOMAIN midmerge \subseteq Paths /\ midmerge \in [DOMAIN midmerge -> Seq(STRING)] BY DEF Init
<1>4. DOMAIN entries \subseteq 1..clock /\ entries \in [DOMAIN entries -> [version : Versions, contents : SUBSET Lines]]
  BY DEF Init
<1>5. QED BY <1>1, <1>2, <1>3, <1>4 DEF Init, TypeOK, Stages, Steps, Idle

LEMMA TypeStep == IInv /\ Next => TypeOK'
<1> SUFFICES ASSUME IInv, Next PROVE TypeOK' OBVIOUS
<1> USE DEF Stages, Steps
<1>0. TypeOK /\ Disk /\ Control /\ Walk /\ StepFits BY DEF IInv
<1>a. clock \in Nat /\ setting \in Settings BY <1>0 DEF TypeOK
<1>b. \A e \in DOMAIN entries : e \in Nat
  <2>1. DOMAIN entries \subseteq 1..clock BY <1>0 DEF TypeOK
  <2>2. QED BY <1>a, <2>1
<1>1. ASSUME NEW v \in Versions, CheckMerge(v) PROVE TypeOK'
  BY <1>0, <1>1 DEF CheckMerge, TypeOK, merging
<1>2. CASE BeginMerge
  <2>1. version \in Versions BY <1>0, <1>2 DEF BeginMerge, Control
  <2>2. clock' \in Nat /\ entry' \in Nat /\ 1..clock \subseteq 1..clock' /\ entry' \in 1..clock' BY <1>a, <1>2 DEF BeginMerge
  <2>3. /\ DOMAIN entries' \subseteq 1..clock' /\ DOMAIN entries \subseteq DOMAIN entries'
        /\ entries' \in [DOMAIN entries' -> [version : Versions, contents : SUBSET Lines]]
    BY <1>0, <1>2, <2>1, <2>2 DEF BeginMerge, TypeOK
  <2>4. todo' \subseteq Paths BY <1>2, <1>a, <2>1, ImageParts DEF BeginMerge, image
  <2>5. QED BY <1>0, <1>2, <2>2, <2>3, <2>4 DEF BeginMerge, TypeOK, index, Idle
<1>3. ASSUME NEW p \in todo, Skip(p) PROVE TypeOK'
  BY <1>0, <1>3 DEF Skip, TypeOK, index, observed
<1>4. ASSUME NEW p \in todo, StartEntry(p) PROVE TypeOK'
  <2>1. p \in Paths /\ version \in Versions /\ p \in DOMAIN image
    BY <1>0, <1>4 DEF StartEntry, IsNext, TypeOK, Control, Walk
  <2>2. PICK dst \in IF image[p].type = "file" THEN FileGoesTo(p) ELSE {p} :
          now' = [path |-> p, dst |-> dst, step |-> FirstStep(image[p], Stat(p).type)]
    BY <1>4 DEF StartEntry
  <2>3. dst \in Paths
    <3>1. CASE dst \in ConfigProtectName(p) /\ p \in Protected
      <4>1. dst = p \/ dst \in Range(UpdateNames[p]) BY <3>1 DEF ConfigProtectName, Range
      <4>2. QED BY <1>a, <2>1, <3>1, <4>1, UpdateParts
    <3>2. QED BY <2>1, <2>2, <3>1 DEF FileGoesTo
  <2>4. now' \in [path : Paths \cup {<<>>}, dst : Paths \cup {<<>>}, step : Steps]
    BY <2>1, <2>2, <2>3 DEF FirstStep
  <2>5. QED BY <1>0, <1>4, <2>4 DEF StartEntry, TypeOK, index, observed
<1>5. CASE LeaveDirectory
  <2>1. at' \in Paths \cup {<<>>}
    <3>1. at \in Paths BY <1>0, <1>5 DEF LeaveDirectory, TypeOK
    <3>2. Parent(at) \in Paths \cup {<<>>} BY <1>a, <3>1, Fit, PathParts
    <3>3. QED BY <1>5, <3>2 DEF LeaveDirectory
  <2>2. QED BY <1>0, <1>5, <2>1 DEF LeaveDirectory, TypeOK, index, observed
<1>6. CASE Unlink
  <2>1. root' \in [Paths -> Nodes] BY <1>0, <1>6, NewNodes DEF Unlink, TypeOK
  <2>2. DOMAIN user' \subseteq Paths /\ user' \in [DOMAIN user' -> Seq(STRING)]
    BY <1>0, <1>6 DEF Unlink, TypeOK, Forget
  <2>3. now' \in [path : Paths \cup {<<>>}, dst : Paths \cup {<<>>}, step : Steps]
    BY <1>0, <1>6 DEF Unlink, TypeOK
  <2>4. QED BY <1>0, <1>6, <2>1, <2>2, <2>3 DEF Unlink, TypeOK, index
<1>7. CASE CopyFile
  <2> DEFINE d == Resolved(now.dst)
             new == image[now.path].content
             old == IF d \in DOMAIN midmerge THEN midmerge[d] ELSE <<>>
  <2>1. stage = "merging" /\ now.step # "none" BY <1>7 DEF CopyFile, Ready
  <2>2. d \in Paths /\ new \in Seq(STRING)
    BY <1>0, <1>a, <2>1, AtEntry, ImageParts DEF image
  <2>3. old \in Seq(STRING)
    <3>1. <<>> \in Seq(STRING) OBVIOUS
    <3>2. d \in DOMAIN midmerge => midmerge[d] \in Seq(STRING) BY <1>0 DEF TypeOK
    <3>3. QED BY <3>1, <3>2
  <2>n. PICK n \in 0..Len(new) : \E w \in Written(SubSeq(new, 1, n)) :
          /\ midmerge' = [p \in DOMAIN midmerge \cup {d} |-> IF p = d THEN Overwritten(w, old) ELSE midmerge[p]]
          /\ now' = [now EXCEPT !.step = IF n = Len(new) THEN "rename" ELSE "failed"]
          /\ cut' = IF w = new THEN cut \ {d} ELSE cut \cup {d}
    BY <1>7 DEF CopyFile
  <2>4. PICK w \in Written(SubSeq(new, 1, n)) :
          /\ midmerge' = [p \in DOMAIN midmerge \cup {d} |-> IF p = d THEN Overwritten(w, old) ELSE midmerge[p]]
          /\ now' = [now EXCEPT !.step = IF n = Len(new) THEN "rename" ELSE "failed"]
          /\ cut' = IF w = new THEN cut \ {d} ELSE cut \cup {d}
    BY <2>n
  <2>5. Overwritten(w, old) \in Seq(STRING)
    <3> HIDE DEF new, old
    <3>1. QED BY <2>2, <2>3, CopyParts
  <2>6. DOMAIN midmerge' \subseteq Paths /\ midmerge' \in [DOMAIN midmerge' -> Seq(STRING)]
    <3> HIDE DEF new, old, d
    <3>1. QED BY <1>0, <2>2, <2>4, <2>5 DEF TypeOK
  <2>7. now' \in [path : Paths \cup {<<>>}, dst : Paths \cup {<<>>}, step : Steps]
    BY <1>0, <2>4 DEF TypeOK
  <2>8. mixed' \subseteq Paths /\ cut' \subseteq Paths BY <1>0, <1>7, <2>2, <2>4 DEF CopyFile, TypeOK
  <2>9. QED BY <1>0, <1>7, <2>6, <2>7, <2>8 DEF CopyFile, TypeOK, index
<1>8. CASE RenameFile
  <2> DEFINE d == Resolved(now.dst)
             c == IF setting.rename THEN image[now.path].content ELSE midmerge[d]
  <2>1. stage = "merging" /\ now.step # "none" /\ image[now.path].type = "file"
        /\ (~ setting.rename => now.step = "rename")
    BY <1>8 DEF RenameFile, Ready
  <2>2. d \in Paths /\ d = Place(now.dst) /\ now # Idle /\ version \in Versions /\ image[now.path].content \in Seq(STRING)
    BY <1>0, <1>a, <2>1, AtEntry, ImageParts DEF image
  <2>3. ~ setting.rename => d \in DOMAIN midmerge BY <1>0, <2>1, <2>2 DEF StepFits
  <2>4. c \in Seq(STRING) BY <1>0, <2>2, <2>3 DEF TypeOK
  <2>5. FileTime \in Nat BY <1>a, <2>2 DEF FileTime, Versions
  <2>6. root' = [root EXCEPT ![d] = File(c, FileTime)] BY <1>8 DEF RenameFile
  <2>7. root' \in [Paths -> Nodes] BY <1>0, <2>4, <2>5, <2>6, NewNodes DEF TypeOK
  <2>8. DOMAIN user' \subseteq Paths /\ user' \in [DOMAIN user' -> Seq(STRING)]
    BY <1>0, <1>8 DEF RenameFile, TypeOK, Forget
  <2>9. DOMAIN midmerge' \subseteq Paths /\ midmerge' \in [DOMAIN midmerge' -> Seq(STRING)]
    BY <1>0, <1>8 DEF RenameFile, TypeOK, Forget
  <2>10. now' \in [path : Paths \cup {<<>>}, dst : Paths \cup {<<>>}, step : Steps]
    BY <1>0, <1>8 DEF RenameFile, TypeOK
  <2>11. QED BY <1>0, <1>8, <2>7, <2>8, <2>9, <2>10 DEF RenameFile, TypeOK, index
<1>9. CASE InstallSym
  <2>1. stage = "merging" /\ now.step # "none" /\ image[now.path].type = "sym" BY <1>9 DEF InstallSym, Ready
  <2>2. image[now.path].content \in Paths BY <1>0, <1>a, <2>1, AtEntry, ImageParts DEF image
  <2>3. root' \in [Paths -> Nodes]
    <3>1. 10 + clock \in Nat BY <1>a
    <3>2. Sym(image[now.path].content, 10 + clock) \in Nodes BY <2>2, <3>1, NewNodes
    <3>3. QED BY <1>0, <1>9, <3>2 DEF InstallSym, TypeOK
  <2>4. now' \in [path : Paths \cup {<<>>}, dst : Paths \cup {<<>>}, step : Steps]
    BY <1>0, <1>9 DEF InstallSym, TypeOK
  <2>5. QED BY <1>0, <1>9, <2>3, <2>4 DEF InstallSym, TypeOK, index, observed
<1>10. CASE InstallDir
  <2>1. stage = "merging" /\ now.step # "none" BY <1>10 DEF InstallDir, Ready
  <2>2. version \in Versions /\ now.path \in DOMAIN image BY <1>0, <2>1, AtEntry
  <2>3. \A p \in DOMAIN image : OnRoot(p) \in Nodes
    <3> TAKE p \in DOMAIN image
    <3>1. image[p].content \in Seq(STRING) /\ (image[p].type = "sym" => image[p].content \in Paths)
      BY <1>a, <2>2, ImageParts DEF image
    <3>2. FileTime \in Nat BY <1>a, <2>2 DEF FileTime, Versions
    <3>3. QED BY <1>a, <3>1, <3>2, NewNodes DEF OnRoot
  <2>4. root' \in [Paths -> Nodes]
    <3>1. CASE setting.rename
      <4>1. root' = [p \in Paths |-> IF p \in (Below(now.path) \cap DOMAIN image) \cup {now.path} THEN OnRoot(p) ELSE root[p]]
        BY <1>10, <3>1 DEF InstallDir, OnRoot
      <4>2. QED BY <1>0, <2>2, <2>3, <4>1 DEF TypeOK
    <3>2. CASE ~ setting.rename
      BY <1>0, <1>10, <3>2, NewNodes DEF InstallDir, TypeOK
    <3>3. QED BY <3>1, <3>2
  <2>5. now' \in [path : Paths \cup {<<>>}, dst : Paths \cup {<<>>}, step : Steps]
    BY <1>0, <1>10 DEF InstallDir, TypeOK
  <2>6. QED BY <1>0, <1>10, <2>4, <2>5 DEF InstallDir, TypeOK, index, observed
<1>11. ASSUME NEW p \in todo \cup {now.path}, NEW dst \in Paths, Record(p, dst),
              stage = "merging", now.step # "none", p \in Paths, p \in DOMAIN image, now.path \in Paths,
              now' = Idle \/ now' = now, at' \in {at, now.path},
              UNCHANGED <<setting, root, midmerge, index, stage, version, clock, entry, unmerge,
                          user, touched, mixed, cut, complete>>
       PROVE TypeOK'
  <2>1. Line(p, dst) \in Lines BY <1>0, <1>11, LineParts
  <2>2. DOMAIN entries' = DOMAIN entries BY <1>0, <1>11 DEF Record, TypeOK
  <2>3. entries' \in [DOMAIN entries' -> [version : Versions, contents : SUBSET Lines]]
    BY <1>0, <1>11, <2>1 DEF Record, TypeOK
  <2>4. merged' \subseteq Paths /\ todo' \subseteq Paths /\ stray' \subseteq Paths
    BY <1>0, <1>11 DEF Record, TypeOK
  <2>5. now' \in [path : Paths \cup {<<>>}, dst : Paths \cup {<<>>}, step : Steps]
    <3>1. Idle \in [path : Paths \cup {<<>>}, dst : Paths \cup {<<>>}, step : Steps] BY DEF Idle
    <3>2. QED BY <1>0, <1>11, <3>1 DEF TypeOK
  <2>6. at' \in Paths \cup {<<>>} BY <1>0, <1>11 DEF TypeOK
  <2>7. QED BY <1>0, <1>11, <2>2, <2>3, <2>4, <2>5, <2>6 DEF TypeOK, index
<1>12. ASSUME NEW p \in todo, TrackRenamed(p) PROVE TypeOK'
  <2>1. stage = "merging" /\ now.step # "none" /\ p \in todo \cap Below(now.path)
    BY <1>12 DEF TrackRenamed, Ready
  <2>2. p \in DOMAIN image BY <1>0, <2>1 DEF Walk
  <2>3. p \in Paths BY <2>1 DEF Below
  <2>4. now.path \in Paths BY <1>0, <2>1, AtEntry
  <2>5. QED BY <1>11, <1>12, <2>1, <2>2, <2>3, <2>4 DEF TrackRenamed
<1>13. CASE Track
  <2>1. stage = "merging" /\ now.step # "none" BY <1>13 DEF Track, Ready
  <2>2. now.path \in Paths /\ now.path \in DOMAIN image /\ now.dst \in Paths /\ now.path \in todo
    BY <1>0, <2>1, AtEntry
  <2>3. PICK dst \in Paths : Record(now.path, dst) BY <1>13, <2>2 DEF Track
  <2>4. QED BY <1>11, <1>13, <2>1, <2>2, <2>3 DEF Track
<1>14. CASE MergeDone
  BY <1>0, <1>14 DEF MergeDone, TypeOK, merging, observed
<1>15. ASSUME NEW e \in DOMAIN entries, Replace(e) PROVE TypeOK'
  <2>1. e \in Nat BY <1>b
  <2>2. QED BY <1>0, <1>15, <2>1 DEF Replace, TypeOK, merging, observed, index
<1>16. ASSUME NEW e \in Installed, Uninstall(e) PROVE TypeOK'
  <2>1. e \in Nat BY <1>b DEF Installed
  <2>2. QED BY <1>0, <1>16, <2>1 DEF Uninstall, TypeOK
<1>17. CASE UnmergeEntry
  <2>1. stage = "unmerging" BY <1>17 DEF UnmergeEntry
  <2>2. root' \in [Paths -> Nodes] /\ user' \in [DOMAIN user' -> Seq(STRING)] /\ DOMAIN user' \subseteq Paths
    <3>1. PICK l \in unmerge : IF Removes(l)
                               THEN /\ root' = [root EXCEPT ![Resolved(l.path)] = Nothing]
                                    /\ user' = IF l.volatile THEN Forget(user, {Resolved(l.path)}) ELSE user
                               ELSE UNCHANGED <<root, user>>
      BY <1>17 DEF UnmergeEntry, LastOf
    <3>2. root' \in [Paths -> Nodes] BY <1>0, <3>1, NewNodes DEF TypeOK
    <3>3. DOMAIN user' \subseteq DOMAIN user /\ \A q \in DOMAIN user' : user'[q] = user[q]
      BY <3>1 DEF Forget
    <3>4. user' = [q \in DOMAIN user' |-> user'[q]] BY <1>0, <3>1 DEF TypeOK, Forget
    <3>5. QED BY <1>0, <3>2, <3>3, <3>4 DEF TypeOK
  <2>3. QED BY <1>0, <1>17, <2>2 DEF UnmergeEntry, TypeOK, merging, index
<1>18. CASE UnmergeDone
  <2>1. /\ DOMAIN entries' = DOMAIN entries \ {entry}
        /\ entries' \in [DOMAIN entries' -> [version : Versions, contents : SUBSET Lines]]
    BY <1>0, <1>18 DEF UnmergeDone, TypeOK, Forget
  <2>2. entry \notin unseen
    BY <1>0, <1>18 DEF UnmergeDone, Control
  <2>3. entry' \in Nat /\ stage' \in Stages
    <3>1. CASE version = 0 BY <1>18, <3>1 DEF UnmergeDone
    <3>2. CASE version # 0
      <4>1. entry' = Newest /\ stage' = "replacing" BY <1>18, <3>2 DEF UnmergeDone
      <4>2. Placing BY <1>18, <3>2 DEF Placing, UnmergeDone
      <4>3. Newest \in DOMAIN entries BY <4>2 DEF IInv, Progress
      <4>4. QED BY <1>b, <4>1, <4>3
    <3>3. QED BY <3>1, <3>2
  <2>4. QED BY <1>0, <1>18, <2>1, <2>2, <2>3 DEF UnmergeDone, TypeOK, merging, observed
<1>19. CASE InstallDone
  BY <1>0, <1>19 DEF InstallDone, TypeOK, merging, index
<1>20. ASSUME StopHere PROVE TypeOK'
  <2>1. UnderWay \subseteq Paths
    <3>1. CASE now = Idle BY <3>1 DEF UnderWay
    <3>2. CASE now # Idle
      <4>1. stage = "merging" /\ now.step # "none" BY <1>0, <3>2 DEF Control, Walk
      <4>2. now.path \in Paths /\ now.dst \in Paths BY <1>0, <4>1, AtEntry
      <4>3. \A p \in Paths : Resolved(p) \in Paths BY <1>0, <1>a, ResolvedIsPlace, PlaceParts DEF Disk
      <4>4. Below(now.path) \subseteq Paths BY DEF Below
      <4>5. QED BY <4>2, <4>3, <4>4 DEF UnderWay
    <3>3. QED BY <3>1, <3>2
  <2>2. QED BY <1>0, <1>20, <2>1 DEF StopHere, TypeOK, index, Idle
<1>21. CASE Fail BY <1>20, <1>21 DEF Fail
<1>22. CASE Crash BY <1>20, <1>22 DEF Crash
<1>23. ASSUME NEW p \in Paths, UserWrites(p) PROVE TypeOK'
  <2>1. root' \in [Paths -> Nodes]
    <3>1. 11 + clock \in Nat /\ UserContent \in Seq(STRING) BY <1>a, UserContentParts
    <3>2. QED BY <1>0, <1>23, <3>1, NewNodes DEF UserWrites, Edits, TypeOK
  <2>2. DOMAIN user' \subseteq Paths /\ user' \in [DOMAIN user' -> Seq(STRING)]
    BY <1>0, <1>23, UserContentParts DEF UserWrites, TypeOK
  <2>3. clock' \in Nat /\ 1..clock \subseteq 1..clock' BY <1>a, <1>23 DEF UserWrites, Edits
  <2>4. QED BY <1>0, <1>23, <2>1, <2>2, <2>3 DEF UserWrites, Edits, TypeOK, merging, index
<1>24. ASSUME NEW p \in Protected, NEW i \in DOMAIN UpdateNames[p], UserAccepts(p, i) PROVE TypeOK'
  <2> DEFINE u == UpdateNames[p][i]
  <2>1. u \in Range(UpdateNames[p]) BY DEF Range
  <2>2. u \in Paths /\ p \in Paths BY <1>a, <2>1, UpdateParts
  <2>3. root' = [root EXCEPT ![p] = root[u], ![u] = Nothing] BY <1>24 DEF UserAccepts
  <2>4. root' \in [Paths -> Nodes] BY <1>0, <2>2, <2>3, NewNodes DEF TypeOK
  <2>5. DOMAIN user' \subseteq Paths /\ user' \in [DOMAIN user' -> Seq(STRING)]
    BY <1>0, <1>24 DEF UserAccepts, TypeOK, Forget
  <2>6. touched' \subseteq Paths BY <1>0, <1>24, <2>2 DEF UserAccepts, TypeOK
  <2>7. QED BY <1>0, <1>24, <2>4, <2>5, <2>6 DEF UserAccepts, TypeOK, merging, index
<1>25. QED
  BY <1>1, <1>2, <1>3, <1>4, <1>5, <1>6, <1>7, <1>8, <1>9, <1>10, <1>12, <1>13, <1>14, <1>15, <1>16, <1>17, <1>18,
     <1>19, <1>21, <1>22, <1>23, <1>24 DEF Next

-----------------------------------------------------------------------------
(* The file system stays one, and its directories where they are.          *)

LEMMA DiskAfterRemoval ==
    ASSUME TypeOK, Disk, setting' = setting, NEW q \in Paths, root' = [root EXCEPT ![q] = Nothing],
           root[q].type = "dir" => \A p \in Below(q) : root[p] = Nothing,
           MayLead(q) => root[q].type # "sym"
    PROVE  Disk'
<1>1. TwoLevels BY Fit DEF TypeOK
<1>2. Nothing.type = "nothing" BY DEF Nothing
<1>3. root \in [Paths -> Nodes] BY DEF TypeOK
<1>4. LinksStay' BY <1>2, <1>3 DEF Disk, LinksStay, MayLead
<1>5. ASSUME NEW p \in Paths
      PROVE  /\ root'[p].type = "dir" => Len(p) = 1
             /\ root'[p] # Nothing /\ Len(p) = 2 => root'[Parent(p)].type = "dir"
  <2>1. root'[p].type = "dir" => Len(p) = 1 BY <1>2, <1>3 DEF Disk, FileSystem
  <2>2. ASSUME root'[p] # Nothing, Len(p) = 2 PROVE root'[Parent(p)].type = "dir"
    <3>1. root[p] # Nothing BY <1>3, <2>2
    <3>2. root[Parent(p)].type = "dir" /\ Parent(p) \in Paths BY <1>1, <2>2, <3>1 DEF Disk, FileSystem, TwoLevels
    <3>3. CASE Parent(p) = q
      <4>1. p \in Below(q) BY <1>1, <2>2, <3>3, BelowIsChild
      <4>2. QED BY <3>1, <3>2, <3>3, <4>1
    <3>4. CASE Parent(p) # q BY <1>3, <3>2, <3>4
    <3>5. QED BY <3>3, <3>4
  <2>3. QED BY <2>1, <2>2
<1>6. QED BY <1>4, <1>5 DEF Disk, FileSystem

LEMMA DiskAfterPlacing ==
    ASSUME TypeOK, Disk, setting' = setting, NEW q \in Paths, NEW n \in Nodes, root' = [root EXCEPT ![q] = n],
           n.type # "dir", root[q].type # "dir", MayLead(q) => root[q].type # "sym" /\ n.type # "sym",
           Len(q) = 2 => root[Parent(q)].type = "dir"
    PROVE  Disk'
<1>1. TwoLevels BY Fit DEF TypeOK
<1>2. root \in [Paths -> Nodes] BY DEF TypeOK
<1>3. LinksStay' BY <1>2 DEF Disk, LinksStay, MayLead
<1>4. ASSUME NEW p \in Paths
      PROVE  /\ root'[p].type = "dir" => Len(p) = 1
             /\ root'[p] # Nothing /\ Len(p) = 2 => root'[Parent(p)].type = "dir"
  <2>1. root'[p].type = "dir" => Len(p) = 1 BY <1>2 DEF Disk, FileSystem
  <2>2. ASSUME root'[p] # Nothing, Len(p) = 2 PROVE root'[Parent(p)].type = "dir"
    <3>1. root[Parent(p)].type = "dir" BY <1>2, <2>2 DEF Disk, FileSystem
    <3>2. Parent(p) \in Paths BY <1>1, <2>2 DEF TwoLevels
    <3>3. QED BY <1>2, <3>1, <3>2
  <2>3. QED BY <2>1, <2>2
<1>5. QED BY <1>3, <1>4 DEF Disk, FileSystem

LEMMA ParentIsThere ==
    ASSUME TypeOK, Disk, Control, Walk, stage = "merging", now.step # "none", Len(Place(now.dst)) = 2
    PROVE  root[Parent(Place(now.dst))].type = "dir"
<1>1. setting \in Settings /\ TwoLevels /\ root \in [Paths -> Nodes] BY Fit DEF TypeOK
<1>2. now.dst \in Paths /\ Parent(now.dst) = at BY AtEntry
<1>3. Len(now.dst) = 2 BY <1>1, <1>2, PlaceParts
<1>4. at \in Paths /\ at # <<>> /\ now.dst \in Below(at)
  <2>1. Len(now.dst) # 1 BY <1>3
  <2>2. at \in Paths /\ at # <<>> BY <1>1, <1>2, <2>1, PathParts
  <2>3. QED BY <1>1, <1>2, <1>3, <2>2, BelowIsChild
<1>5. Leads(at) /\ MayLead(at) BY <1>4 DEF Walk, MayLead
<1>6. CASE setting.root[at].type = "sym"
  <2>1. root[at] = setting.root[at] BY <1>4, <1>5, <1>6 DEF Disk, LinksStay
  <2>2. Parent(Place(now.dst)) = root[at].content BY <1>1, <1>2, <1>3, <1>6, <2>1, PlaceParts
  <2>3. QED BY <1>5, <1>6, <2>1, <2>2 DEF Leads
<1>7. CASE setting.root[at].type # "sym"
  <2>1. root[at].type # "sym" BY <1>4, <1>5, <1>7 DEF Disk, LinksStay
  <2>2. Place(now.dst) = now.dst BY <1>1, <1>2, <1>3, <1>7, PlaceParts
  <2>3. QED BY <1>2, <1>5, <2>1, <2>2 DEF Leads
<1>8. QED BY <1>6, <1>7

(* What unmerging removes.                                                 *)
LEMMA Removed ==
    ASSUME TypeOK, Disk, Control, LinesFit, stage = "unmerging", NEW l \in unmerge
    PROVE  /\ entry \in DOMAIN entries /\ l \in entries[entry].contents /\ l \in Lines /\ LineFits(entry, l)
           /\ l.path \in Paths /\ l.path \notin Updates
           /\ Resolved(l.path) = Place(l.path) /\ Stat(l.path) = root[Place(l.path)]
           /\ Place(l.path) \in Paths /\ Len(Place(l.path)) = Len(l.path)
           /\ l.type \in {"file", "sym", "dir"}
           /\ l.type = "dir" => Place(l.path) = l.path /\ Len(l.path) = 1
           /\ l.type # "dir" => ~ MayLead(Place(l.path))
           /\ l.path \notin Protected => Place(l.path) \notin Protected \cup Updates
           /\ l.path \in Protected => Place(l.path) = l.path /\ l.type # "dir"
           /\ Removes(l) => /\ l.path \notin merged /\ l.type = root[Place(l.path)].type
                            /\ l.type = "file" => l.path \notin Protected
                            /\ l.type = "dir" => \A p \in Below(l.path) : root[p] = Nothing
                            /\ l.type # "dir" /\ ~ l.volatile => Matches(l, Place(l.path))
<1>1. setting \in Settings /\ root \in [Paths -> Nodes] BY DEF TypeOK
<1>2. /\ entry \in DOMAIN entries /\ l \in entries[entry].contents /\ l \in Lines /\ LineFits(entry, l)
      /\ entries[entry].version \in Versions
  BY DEF Control, TypeOK, LinesFit
<1>3. l.path \in DOMAIN setting.image[entries[entry].version]
      /\ l.type = setting.image[entries[entry].version][l.path].type
  BY <1>2 DEF LineFits
<1>4. l.path \in Paths /\ l.path \notin Updates /\ l.type \in {"file", "sym", "dir"}
      /\ (l.type = "dir" => Len(l.path) = 1 /\ l.path \notin Protected)
  BY <1>1, <1>2, <1>3, ImageParts
<1>5. Resolved(l.path) = Place(l.path) /\ Stat(l.path) = root[Place(l.path)]
  BY <1>1, <1>4, ResolvedIsPlace DEF Disk
<1>6. Place(l.path) \in Paths /\ Len(Place(l.path)) = Len(l.path) /\ (Len(l.path) = 1 => Place(l.path) = l.path)
  BY <1>1, <1>4, PlaceParts
<1>7. l.type # "dir" => ~ MayLead(Place(l.path))
  <2>1. Len(l.path) \in 1..2 BY <1>4, Fit, <1>1 DEF TwoLevels
  <2>2. CASE Len(l.path) = 1 BY <1>1, <1>2, <1>3, <1>6, <2>2, NoDirectory
  <2>3. CASE Len(l.path) = 2 BY <1>1, <1>6, <2>3, DeepLeadsNowhere
  <2>4. QED BY <2>1, <2>2, <2>3
<1>8. l.path \notin Protected => Place(l.path) \notin Protected \cup Updates
  BY <1>1, <1>4, PlaceOfProtected
<1>9. l.path \in Protected => Place(l.path) = l.path /\ l.type # "dir" BY <1>1, <1>4, PlaceOfProtected
<1>10. ASSUME Removes(l)
       PROVE  /\ l.path \notin merged /\ l.type = root[Place(l.path)].type
              /\ l.type = "file" => l.path \notin Protected
              /\ l.type = "dir" => \A p \in Below(l.path) : root[p] = Nothing
              /\ l.type # "dir" /\ ~ l.volatile => Matches(l, Place(l.path))
  <2>1. CASE l.type = "file" BY <1>5, <1>10, <2>1 DEF Removes, CheckFile, Matches
  <2>2. CASE l.type = "sym" BY <1>5, <1>10, <2>2 DEF Removes, CheckSym, Matches
  <2>3. CASE l.type = "dir" BY <1>4, <1>5, <1>6, <1>10, <2>3 DEF Removes, CheckDir
  <2>4. QED BY <1>4, <2>1, <2>2, <2>3
<1>11. QED BY <1>2, <1>4, <1>5, <1>6, <1>7, <1>8, <1>9, <1>10

LEMMA DiskInit == Init => Disk
<1> SUFFICES ASSUME Init PROVE Disk OBVIOUS
<1>1. setting \in Settings /\ root = setting.root BY DEF Init
<1>2. QED BY <1>1, InitialRoot DEF Disk, LinksStay, FileSystem

LEMMA DiskStep == IInv /\ Next => Disk'
<1> SUFFICES ASSUME IInv, Next PROVE Disk' OBVIOUS
<1>0. TypeOK /\ Disk /\ Control /\ Walk /\ StepFits /\ LinesFit BY DEF IInv
<1>a. setting \in Settings /\ TwoLevels /\ root \in [Paths -> Nodes] BY <1>0, Fit DEF TypeOK
<1>b. ASSUME UNCHANGED <<setting, root>> PROVE Disk'
  BY <1>0, <1>b DEF Disk, LinksStay, FileSystem, MayLead
<1>1. ASSUME NEW v \in Versions, CheckMerge(v) PROVE Disk' BY <1>b, <1>1 DEF CheckMerge
<1>2. CASE BeginMerge BY <1>b, <1>2 DEF BeginMerge
<1>3. ASSUME NEW p \in todo, Skip(p) PROVE Disk' BY <1>b, <1>3 DEF Skip
<1>4. ASSUME NEW p \in todo, StartEntry(p) PROVE Disk' BY <1>b, <1>4 DEF StartEntry
<1>5. CASE LeaveDirectory BY <1>b, <1>5 DEF LeaveDirectory
<1>6. CASE Unlink
  <2> DEFINE q == Place(now.dst)
  <2>1. stage = "merging" /\ now.step = "unlink" BY <1>6 DEF Unlink, Ready
  <2>2. q \in Paths /\ Resolved(now.dst) = q /\ now # Idle /\ (image[now.path].type # "dir" => ~ MayLead(q))
    BY <1>0, <2>1, AtEntry
  <2>3. There(q) /\ image[now.path].type = "sym" BY <1>0, <2>1, <2>2 DEF StepFits
  <2>4. root' = [root EXCEPT ![q] = Nothing] /\ setting' = setting BY <1>6, <2>2 DEF Unlink
  <2>5. QED BY <1>0, <2>2, <2>3, <2>4, DiskAfterRemoval DEF There
<1>7. CASE CopyFile BY <1>b, <1>7 DEF CopyFile
<1>8. CASE RenameFile
  <2> DEFINE q == Place(now.dst)
             n == File(IF setting.rename THEN image[now.path].content ELSE midmerge[q], FileTime)
  <2>1. stage = "merging" /\ now.step \in {"install", "rename"} /\ image[now.path].type = "file"
    BY <1>8 DEF RenameFile, Ready
  <2>2. q \in Paths /\ Resolved(now.dst) = q /\ now # Idle /\ ~ MayLead(q) BY <1>0, <2>1, AtEntry
  <2>3. root[q].type # "dir" BY <1>0, <2>1, <2>2 DEF StepFits
  <2>4. root' = [root EXCEPT ![q] = n] /\ setting' = setting BY <1>8, <2>2 DEF RenameFile
  <2>5. n.type = "file" BY DEF File
  <2>6. n \in Nodes
    <3>1. TypeOK' BY TypeStep
    <3>2. root'[q] = n BY <1>a, <2>2, <2>4
    <3>3. QED BY <2>2, <3>1, <3>2 DEF TypeOK
  <2>7. Len(q) = 2 => root[Parent(q)].type = "dir" BY <1>0, <2>1, ParentIsThere
  <2> HIDE DEF n, q
  <2>8. QED BY <1>0, <2>2, <2>3, <2>4, <2>5, <2>6, <2>7, DiskAfterPlacing
<1>9. CASE InstallSym
  <2> DEFINE q == Place(now.dst)
             n == Sym(image[now.path].content, 10 + clock)
  <2>1. stage = "merging" /\ now.step = "install" /\ image[now.path].type = "sym"
    BY <1>9 DEF InstallSym, Ready
  <2>2. q \in Paths /\ Resolved(now.dst) = q /\ now # Idle /\ ~ MayLead(q) BY <1>0, <2>1, AtEntry
  <2>3. root[q].type # "dir" BY <1>0, <2>1, <2>2 DEF StepFits, Nothing
  <2>4. root' = [root EXCEPT ![q] = n] /\ setting' = setting BY <1>9, <2>2 DEF InstallSym
  <2>5. n.type = "sym" BY DEF Sym
  <2>6. n \in Nodes
    <3>1. TypeOK' BY TypeStep
    <3>2. root'[q] = n BY <1>a, <2>2, <2>4
    <3>3. QED BY <2>2, <3>1, <3>2 DEF TypeOK
  <2>7. Len(q) = 2 => root[Parent(q)].type = "dir" BY <1>0, <2>1, ParentIsThere
  <2> HIDE DEF n, q
  <2>8. QED BY <1>0, <2>2, <2>3, <2>4, <2>5, <2>6, <2>7, DiskAfterPlacing
<1>10. CASE InstallDir
  <2> DEFINE d == now.path
             inside == IF setting.rename THEN Below(d) \cap DOMAIN image ELSE {}
  <2>1. stage = "merging" /\ now.step = "install" /\ image[d].type = "dir" BY <1>10 DEF InstallDir, Ready
  <2>2. d \in Paths /\ Len(d) = 1 /\ Place(now.dst) = d /\ now # Idle /\ version \in Versions
    BY <1>0, <2>1, AtEntry
  <2>3. root[d] = Nothing BY <1>0, <2>1, <2>2 DEF StepFits
  <2>4. root' = [p \in Paths |-> IF p = d THEN Dir ELSE IF p \in inside THEN OnRoot(p) ELSE root[p]]
        /\ setting' = setting
    <3>1. d \notin Below(d) BY DEF Below, IsStrictPrefix
    <3>2. OnRoot(d) = Dir BY <2>1 DEF OnRoot
    <3>3. CASE setting.rename
      <4>1. root' = [p \in Paths |-> IF p \in (Below(d) \cap DOMAIN image) \cup {d} THEN OnRoot(p) ELSE root[p]]
        BY <1>10, <3>3 DEF InstallDir, OnRoot
      <4>2. QED BY <1>10, <3>1, <3>2, <3>3, <4>1 DEF InstallDir
    <3>4. CASE ~ setting.rename BY <1>10, <1>a, <2>2, <3>4 DEF InstallDir
    <3>5. QED BY <3>3, <3>4
  <2>5. ASSUME NEW p \in inside PROVE p \in Paths /\ Len(p) = 2 /\ Parent(p) = d /\ ~ MayLead(p) /\ OnRoot(p).type # "dir"
    <3>1. p \in Paths /\ p \in DOMAIN image /\ p \in Below(d) BY DEF Below
    <3>2. Len(p) = 2 /\ Parent(p) = d BY <1>a, <2>2, <3>1, BelowIsChild
    <3>3. image[p].type \in {"file", "sym", "dir"} /\ (image[p].type = "dir" => Len(p) = 1)
      BY <1>a, <2>2, <3>1, ImageParts DEF image
    <3>4. OnRoot(p).type # "dir" BY <3>2, <3>3 DEF OnRoot, File, Sym
    <3>5. QED BY <1>a, <3>1, <3>2, <3>4, DeepLeadsNowhere
  <2>6. LinksStay'
    <3>1. ASSUME NEW p \in Paths, MayLead(p), "sym" \in {root'[p].type, setting.root[p].type}
          PROVE  root'[p] = setting.root[p]
      <4>1. p \notin inside BY <2>5, <3>1
      <4>2. p # d
        <5>1. SUFFICES ASSUME p = d PROVE FALSE OBVIOUS
        <5>2. root'[d] = Dir BY <2>2, <2>4
        <5>3. setting.root[d].type = "sym" BY <3>1, <5>1, <5>2 DEF Dir
        <5>4. root[d] = setting.root[d] BY <1>0, <2>2, <3>1, <5>1, <5>3 DEF Disk, LinksStay
        <5>5. QED BY <2>3, <5>3, <5>4 DEF Nothing
      <4>3. QED BY <1>0, <2>4, <3>1, <4>1, <4>2 DEF Disk, LinksStay
    <3>2. QED BY <2>4, <3>1 DEF LinksStay, MayLead
  <2>7. FileSystem'
    <3>1. ASSUME NEW p \in Paths
          PROVE  /\ root'[p].type = "dir" => Len(p) = 1
                 /\ root'[p] # Nothing /\ Len(p) = 2 => root'[Parent(p)].type = "dir"
      <4>1. Dir.type = "dir" BY DEF Dir
      <4>2. CASE p = d BY <2>2, <2>4, <4>2
      <4>3. CASE p \in inside BY <2>2, <2>4, <2>5, <4>1, <4>3
      <4>4. CASE p # d /\ p \notin inside
        <5>1. root'[p] = root[p] BY <2>4, <4>4
        <5>2. root[p].type = "dir" => Len(p) = 1 BY <1>0 DEF Disk, FileSystem
        <5>3. ASSUME root[p] # Nothing, Len(p) = 2 PROVE root'[Parent(p)].type = "dir"
          <6>1. root[Parent(p)].type = "dir" /\ Parent(p) \in Paths
            BY <1>0, <1>a, <5>3 DEF Disk, FileSystem, TwoLevels
          <6>2. Parent(p) # d BY <2>3, <6>1 DEF Nothing
          <6>3. Parent(p) \notin inside
            <7>1. Len(Parent(p)) = 1 BY <1>0, <6>1 DEF Disk, FileSystem
            <7>2. QED BY <2>5, <7>1
          <6>4. QED BY <2>4, <6>1, <6>2, <6>3
        <5>4. QED BY <5>1, <5>2, <5>3
      <4>5. QED BY <4>2, <4>3, <4>4
    <3>2. QED BY <3>1 DEF FileSystem
  <2>8. QED BY <2>6, <2>7 DEF Disk
<1>12. ASSUME NEW p \in todo, TrackRenamed(p) PROVE Disk' BY <1>b, <1>12 DEF TrackRenamed
<1>13. CASE Track BY <1>b, <1>13 DEF Track
<1>14. CASE MergeDone BY <1>b, <1>14 DEF MergeDone
<1>15. ASSUME NEW e \in DOMAIN entries, Replace(e) PROVE Disk' BY <1>b, <1>15 DEF Replace
<1>16. ASSUME NEW e \in Installed, Uninstall(e) PROVE Disk' BY <1>b, <1>16 DEF Uninstall
<1>17. CASE UnmergeEntry
  <2>1. stage = "unmerging" /\ setting' = setting BY <1>17 DEF UnmergeEntry
  <2>2. PICK l \in unmerge : IF Removes(l) THEN root' = [root EXCEPT ![Resolved(l.path)] = Nothing]
                             ELSE root' = root
    BY <1>17 DEF UnmergeEntry, LastOf
  <2>3. CASE ~ Removes(l) BY <1>b, <2>1, <2>2, <2>3
  <2>4. CASE Removes(l)
    <3> DEFINE q == Place(l.path)
    <3>1. /\ q \in Paths /\ Resolved(l.path) = q /\ l.type = root[q].type
          /\ l.type = "dir" => q = l.path /\ \A p \in Below(l.path) : root[p] = Nothing
          /\ l.type # "dir" => ~ MayLead(q)
      BY <1>0, <2>1, <2>4, Removed
    <3>2. root' = [root EXCEPT ![q] = Nothing] BY <2>2, <2>4, <3>1
    <3> HIDE DEF q
    <3>3. QED BY <1>0, <2>1, <3>1, <3>2, DiskAfterRemoval
  <2>5. QED BY <2>3, <2>4
<1>18. CASE UnmergeDone BY <1>b, <1>18 DEF UnmergeDone
<1>19. CASE InstallDone BY <1>b, <1>19 DEF InstallDone
<1>21. CASE Fail BY <1>b, <1>21 DEF Fail, StopHere
<1>22. CASE Crash BY <1>b, <1>22 DEF Crash, StopHere
<1>23. ASSUME NEW p \in Paths, UserWrites(p) PROVE Disk'
  <2> DEFINE n == File(UserContent, 11 + clock)
  <2>1. /\ root' = [root EXCEPT ![p] = n] /\ setting' = setting /\ root[p].type \in {"file", "nothing"}
        /\ Len(p) > 1 => root[Parent(p)].type = "dir"
    BY <1>23 DEF UserWrites, Edits
  <2>2. n.type = "file" BY DEF File
  <2>3. n \in Nodes
    <3>1. TypeOK' BY TypeStep
    <3>2. root'[p] = n BY <1>a, <2>1
    <3>3. QED BY <3>1, <3>2 DEF TypeOK
  <2> HIDE DEF n
  <2>4. Len(p) = 2 => root[Parent(p)].type = "dir" BY <2>1
  <2>5. n.type # "dir" /\ n.type # "sym" /\ root[p].type # "dir" /\ root[p].type # "sym" BY <2>1, <2>2
  <2>6. QED BY <1>0, <2>1, <2>3, <2>4, <2>5, DiskAfterPlacing
<1>24. ASSUME NEW p \in Protected, NEW i \in DOMAIN UpdateNames[p], UserAccepts(p, i) PROVE Disk'
  <2> DEFINE u == UpdateNames[p][i]
  <2>1. u \in Range(UpdateNames[p]) BY DEF Range
  <2>2. u \in Paths /\ p \in Paths /\ u # p /\ Parent(u) = Parent(p) /\ Len(u) = Len(p) /\ Below(p) = {} /\ Below(u) = {}
    BY <1>a, <2>1, UpdateParts
  <2>3. root' = [root EXCEPT ![p] = root[u], ![u] = Nothing] /\ setting' = setting
        /\ root[u].type = "file" /\ root[p].type # "dir"
    BY <1>24 DEF UserAccepts
  <2>4. ~ MayLead(u) BY <1>a, <2>1, UpdateLeadsNowhere
  <2>5. ~ MayLead(p)
    <3>1. \A v \in Versions : p \in DOMAIN setting.image[v] => setting.image[v][p].type # "dir"
      BY <1>a, ImageParts
    <3>2. QED BY <2>2, <3>1 DEF MayLead
  <2>6. root'[p] = root[u] /\ root'[u] = Nothing /\ \A r \in Paths \ {p, u} : root'[r] = root[r]
    <3> HIDE DEF u
    <3>1. QED BY <1>a, <2>2, <2>3
  <2> HIDE DEF u
  <2>7. LinksStay'
    <3>1. ASSUME NEW r \in Paths, MayLead(r) PROVE root'[r] = root[r] BY <2>4, <2>5, <2>6, <3>1
    <3>2. QED BY <1>0, <2>3, <3>1 DEF Disk, LinksStay, MayLead
  <2>8. FileSystem'
    <3>1. ASSUME NEW r \in Paths
          PROVE  /\ root'[r].type = "dir" => Len(r) = 1
                 /\ root'[r] # Nothing /\ Len(r) = 2 => root'[Parent(r)].type = "dir"
      <4>1. root[u] # Nothing BY <2>3 DEF Nothing
      <4>2. root'[r].type = "dir" => Len(r) = 1
        <5>1. Nothing.type = "nothing" BY DEF Nothing
        <5>2. r = p \/ r = u => root'[r].type # "dir" BY <2>3, <2>6, <5>1
        <5>3. QED BY <1>0, <2>6, <5>2 DEF Disk, FileSystem
      <4>3. ASSUME root'[r] # Nothing, Len(r) = 2 PROVE root'[Parent(r)].type = "dir"
        <5>1. root[Parent(r)].type = "dir"
          <6>1. CASE r = p BY <1>0, <2>2, <4>1, <4>3, <6>1 DEF Disk, FileSystem
          <6>2. CASE r # p BY <1>0, <2>6, <4>3, <6>2 DEF Disk, FileSystem
          <6>3. QED BY <6>1, <6>2
        <5>2. Parent(r) \in Paths BY <1>a, <4>3 DEF TwoLevels
        <5>3. Parent(r) \notin {p, u} BY <2>3, <5>1
        <5>4. QED BY <2>6, <5>1, <5>2, <5>3
      <4>4. QED BY <4>2, <4>3
    <3>2. QED BY <3>1 DEF FileSystem
  <2>9. QED BY <2>7, <2>8 DEF Disk
<1>25. QED
  BY <1>1, <1>2, <1>3, <1>4, <1>5, <1>6, <1>7, <1>8, <1>9, <1>10, <1>12, <1>13, <1>14, <1>15, <1>16, <1>17, <1>18,
     <1>19, <1>21, <1>22, <1>23, <1>24 DEF Next

-----------------------------------------------------------------------------
(* Where the installation is.                                              *)

LEMMA ControlStep == IInv /\ Next => Control'
<1> SUFFICES ASSUME IInv, Next PROVE Control' OBVIOUS
<1>0. TypeOK /\ Control /\ Walk /\ Progress BY DEF IInv
<1>a. stage \in Stages /\ version \in {0} \cup Versions BY <1>0 DEF TypeOK
<1>b. ASSUME stage # "unmerging" \/ UNCHANGED <<version, merged>>,
             UNCHANGED <<stage, version, complete, unmerge, entry, unseen>>,
             DOMAIN entries' = DOMAIN entries,
             stage = "unmerging" => entries'[entry].contents = entries[entry].contents,
             stage # "merging" => UNCHANGED <<now, at, todo>>
      PROVE  Control'
  BY <1>0, <1>b DEF Control
<1>c. stage = "merging" => version \in Versions /\ complete = 0 BY <1>0 DEF Control
<1>1. ASSUME NEW v \in Versions, CheckMerge(v) PROVE Control'
  BY <1>0, <1>1 DEF CheckMerge, Control, merging
<1>2. CASE BeginMerge BY <1>0, <1>2 DEF BeginMerge, Control
<1>3. ASSUME NEW p \in todo, Skip(p) PROVE Control'
  BY <1>0, <1>3 DEF Skip, IsNext, Control, observed, index
<1>4. ASSUME NEW p \in todo, StartEntry(p) PROVE Control'
  BY <1>0, <1>4 DEF StartEntry, IsNext, Control, observed, index
<1>5. CASE LeaveDirectory BY <1>0, <1>5 DEF LeaveDirectory, Control, observed, index
<1>6. CASE Unlink BY <1>0, <1>6 DEF Unlink, Ready, Control, index
<1>7. CASE CopyFile
  <2>1. stage = "merging" /\ UNCHANGED <<stage, version, complete, unmerge, entry, unseen, entries>>
    BY <1>7 DEF CopyFile, Ready, index
  <2>2. QED BY <1>b, <2>1
<1>8. CASE RenameFile
  <2>1. stage = "merging" /\ UNCHANGED <<stage, version, complete, unmerge, entry, unseen, entries>>
    BY <1>8 DEF RenameFile, Ready, index
  <2>2. QED BY <1>b, <2>1
<1>9. CASE InstallSym BY <1>0, <1>9 DEF InstallSym, Ready, Control, observed, index
<1>10. CASE InstallDir
  <2>1. stage = "merging" /\ UNCHANGED <<stage, version, complete, unmerge, entry, unseen, entries>>
    BY <1>10 DEF InstallDir, Ready, index, observed
  <2>2. QED BY <1>b, <2>1
<1>12. ASSUME NEW p \in todo, TrackRenamed(p) PROVE Control'
  <2>1. stage = "merging" /\ UNCHANGED <<stage, version, complete, unmerge, entry, unseen>>
        /\ DOMAIN entries' = DOMAIN entries
    BY <1>12 DEF TrackRenamed, Ready, Record, index
  <2>2. QED BY <1>b, <2>1
<1>13. CASE Track
  <2>1. stage = "merging" /\ UNCHANGED <<stage, version, complete, unmerge, entry, unseen>>
        /\ DOMAIN entries' = DOMAIN entries
    BY <1>13 DEF Track, Ready, Record, index
  <2>2. QED BY <1>b, <2>1
<1>14. CASE MergeDone BY <1>0, <1>14 DEF MergeDone, Control, merging, observed
<1>15. ASSUME NEW e \in DOMAIN entries, Replace(e) PROVE Control'
  BY <1>0, <1>15 DEF Replace, Others, Control, merging, observed, index, Versions
<1>16. ASSUME NEW e \in Installed, Uninstall(e) PROVE Control'
  <2>1. e \in DOMAIN entries BY DEF Installed
  <2>2. QED BY <1>0, <1>16, <2>1 DEF Uninstall, Control
<1>17. CASE UnmergeEntry BY <1>0, <1>17 DEF UnmergeEntry, Control, merging, index
<1>18. CASE UnmergeDone BY <1>0, <1>a, <1>18 DEF UnmergeDone, Control, merging, observed
<1>19. CASE InstallDone BY <1>0, <1>19 DEF InstallDone, Control, merging, index
<1>21. CASE Fail BY <1>0, <1>21, <1>c DEF Fail, StopHere, Control
<1>22. CASE Crash BY <1>0, <1>22 DEF Crash, StopHere, Control
<1>23. ASSUME NEW p \in Paths, UserWrites(p) PROVE Control'
  <2>1. UNCHANGED <<stage, version, complete, unmerge, entry, unseen, entries, now, at, todo, merged>>
    BY <1>23 DEF UserWrites, Edits, merging, index
  <2>2. QED BY <1>b, <2>1
<1>24. ASSUME NEW p \in Protected, NEW i \in DOMAIN UpdateNames[p], UserAccepts(p, i) PROVE Control'
  <2>1. UNCHANGED <<stage, version, complete, unmerge, entry, unseen, entries, now, at, todo, merged>>
    BY <1>24 DEF UserAccepts, merging, index
  <2>2. QED BY <1>b, <2>1
<1>25. QED
  BY <1>1, <1>2, <1>3, <1>4, <1>5, <1>6, <1>7, <1>8, <1>9, <1>10, <1>12, <1>13, <1>14, <1>15, <1>16, <1>17, <1>18,
     <1>19, <1>21, <1>22, <1>23, <1>24 DEF Next

(* A directory is one as long as it is not removed.                        *)
LEMMA LeadsKept ==
    ASSUME TypeOK, NEW p \in Paths, Leads(p), NEW q \in Paths, NEW n, root' = [root EXCEPT ![q] = n],
           root[q].type # "dir", q # p
    PROVE  Leads(p)'
<1>1. root \in [Paths -> Nodes] BY DEF TypeOK
<1>2. root'[p] = root[p] BY <1>1
<1>3. CASE root[p].type = "dir" BY <1>2, <1>3 DEF Leads
<1>4. CASE root[p].type = "sym" /\ root[root[p].content].type = "dir"
  <2>1. root[p].content \in Paths BY <1>1, <1>4, NodeParts
  <2>2. root'[root[p].content] = root[root[p].content] BY <1>1, <1>4, <2>1
  <2>3. QED BY <1>2, <1>4, <2>2 DEF Leads
<1>5. QED BY <1>3, <1>4 DEF Leads

LEMMA AtDirectory ==
    ASSUME TypeOK, Control, Walk, stage = "merging", at # <<>>
    PROVE  /\ at \in Paths /\ MayLead(at) /\ Leads(at) /\ at \notin todo /\ at \in DOMAIN image
           /\ image[at].type = "dir" /\ Len(at) = 1 /\ Parent(at) = <<>> /\ at \notin Protected \cup Updates
           /\ at \notin setting.skip
<1>1. version \in Versions /\ setting \in Settings BY DEF Control, TypeOK
<1>2. at \in DOMAIN image /\ at \notin todo /\ image[at].type = "dir" /\ Leads(at) /\ Wanted(at) BY DEF Walk
<1>3. at \in Paths /\ at \notin Updates /\ Len(at) = 1 /\ at \notin Protected BY <1>1, <1>2, ImageParts DEF image
<1>4. Parent(at) = <<>> BY <1>1, <1>3, Fit, PathParts
<1>5. MayLead(at) BY <1>1, <1>2 DEF MayLead, image
<1>6. at \notin setting.skip BY <1>1, <1>2, <1>3, WantedParts
<1>7. QED BY <1>2, <1>3, <1>4, <1>5, <1>6

(* The same in all steps that only go on with an entry.                    *)
LEMMA WalkGoesOn ==
    ASSUME TypeOK, Disk, Control, Walk, stage = "merging", now.step # "none",
           UNCHANGED <<setting, version, at, todo>>, now' = [now EXCEPT !.step = now'.step],
           now.step # "renamed", now'.step # "none",
           at # <<>> => Leads(at)'
    PROVE  Walk'
<1>1. now # Idle
  <2>1. Idle.step = "none" BY DEF Idle
  <2>2. QED BY <2>1
<1>2. now'.path = now.path /\ now'.dst = now.dst BY DEF TypeOK
<1>3. \A p : Wanted(p)' <=> Wanted(p) BY DEF Wanted
<1>4. image' = image BY DEF image
<1>5. QED BY <1>1, <1>2, <1>3, <1>4 DEF Walk

LEMMA WalkStep == IInv /\ Next => Walk'
<1> SUFFICES ASSUME IInv, Next PROVE Walk' OBVIOUS
<1>0. TypeOK /\ Disk /\ Control /\ Walk /\ StepFits BY DEF IInv
<1>a. setting \in Settings /\ TwoLevels /\ root \in [Paths -> Nodes] /\ todo \subseteq Paths BY <1>0, Fit DEF TypeOK
<1>b. Idle.step = "none" BY DEF Idle
<1>c. stage' # "merging" => Walk' BY DEF Walk
<1>d. \A p, r \in Paths : r \in Below(p) => Parent(r) = p BY <1>a, BelowIsChild
<1>e. ASSUME setting' = setting PROVE \A p : Wanted(p)' <=> Wanted(p) BY <1>e DEF Wanted
<1>1. ASSUME NEW v \in Versions, CheckMerge(v) PROVE Walk' BY <1>c, <1>1 DEF CheckMerge
<1>2. CASE BeginMerge
  <2>1. at' = <<>> /\ todo' = DOMAIN image' /\ now' = Idle BY <1>2 DEF BeginMerge, image
  <2>2. QED BY <2>1 DEF Walk
<1>3. ASSUME NEW p \in todo, Skip(p) PROVE Walk'
  <2>1. /\ todo' = todo \ ({p} \cup Below(p)) /\ UNCHANGED <<setting, root, version, at, now>>
        /\ stage = "merging" /\ now = Idle /\ Parent(p) = at
    BY <1>3 DEF Skip, IsNext
  <2>2. image' = image /\ (Leads(at) <=> Leads(at)') BY <2>1 DEF image, Leads
  <2>3. ASSUME NEW r \in todo' PROVE Below(r) \cap DOMAIN image \subseteq todo'
    <3>1. Below(r) \cap DOMAIN image \subseteq todo BY <1>0, <1>b, <2>1 DEF Walk
    <3>2. ASSUME NEW x \in Below(r) \cap DOMAIN image PROVE x \notin {p} \cup Below(p)
      <4>1. Parent(x) = r BY <1>a, <1>d, <2>1 DEF Below
      <4>2. x # p
        <5>1. SUFFICES ASSUME x = p PROVE FALSE OBVIOUS
        <5>2. r = at /\ at # <<>> BY <1>a, <2>1, <4>1, <5>1, PathParts
        <5>3. QED BY <1>0, <2>1, <5>2, AtDirectory
      <4>3. x \notin Below(p) BY <1>a, <1>d, <2>1, <4>1 DEF Below
      <4>4. QED BY <4>2, <4>3
    <3>3. QED BY <2>1, <3>1, <3>2
  <2>4. QED BY <1>0, <1>e, <2>1, <2>2, <2>3 DEF Walk
<1>4. ASSUME NEW p \in todo, StartEntry(p) PROVE Walk'
  <2>1. /\ UNCHANGED <<setting, root, version, at, todo>> /\ stage = "merging" /\ now = Idle /\ Parent(p) = at
        /\ p \notin setting.skip
    BY <1>4 DEF StartEntry, IsNext
  <2>2. image' = image /\ (Leads(at) <=> Leads(at)') BY <2>1 DEF image, Leads
  <2>3. PICK dst \in IF image[p].type = "file" THEN FileGoesTo(p) ELSE {p} :
          now' = [path |-> p, dst |-> dst, step |-> FirstStep(image[p], Stat(p).type)]
    BY <1>4 DEF StartEntry
  <2>4. \/ dst = p
        \/ image[p].type = "file" /\ p \in Protected /\ dst \in Range(UpdateNames[p])
    BY <2>3 DEF FileGoesTo, ConfigProtectName, Range
  <2>5. now'.step # "none" BY <2>3 DEF FirstStep
  <2>6. Wanted(p)
    <3>1. Len(p) \in 1..2 BY <1>a DEF TwoLevels
    <3>2. CASE Len(p) = 1 BY <1>a, <2>1, <3>2, WantedParts
    <3>3. CASE Len(p) = 2
      <4>1. Len(p) # 1 BY <3>3
      <4>2. at # <<>> BY <1>a, <2>1, <4>1, PathParts
      <4>3. at \notin setting.skip BY <1>0, <2>1, <4>2, AtDirectory
      <4>4. QED BY <1>a, <2>1, <3>3, <4>3, WantedParts
    <3>4. QED BY <3>1, <3>2, <3>3
  <2>7. now.step # "renamed" BY <1>b, <2>1
  <2>8. QED BY <1>0, <1>e, <2>1, <2>2, <2>3, <2>4, <2>5, <2>6, <2>7 DEF Walk
<1>5. CASE LeaveDirectory
  <2>1. /\ UNCHANGED <<setting, version, todo, now>> /\ at' = Parent(at) /\ at # <<>> /\ now = Idle
        /\ stage = "merging"
    BY <1>5 DEF LeaveDirectory
  <2>2. at' = <<>> BY <1>0, <2>1, AtDirectory
  <2>3. QED BY <1>0, <1>b, <2>1, <2>2 DEF Walk, image
<1>6. CASE Unlink
  <2>1. stage = "merging" /\ now.step = "unlink" /\ now' = [now EXCEPT !.step = "install"]
        /\ UNCHANGED <<setting, version, at, todo>>
    BY <1>6 DEF Unlink, Ready
  <2>2. now # Idle /\ Place(now.dst) \in Paths /\ Resolved(now.dst) = Place(now.dst)
        /\ (image[now.path].type # "dir" => ~ MayLead(Place(now.dst)))
    BY <1>0, <2>1, AtEntry
  <2>3. image[now.path].type = "sym" /\ There(Place(now.dst)) BY <1>0, <2>1, <2>2 DEF StepFits
  <2>4. root' = [root EXCEPT ![Place(now.dst)] = Nothing] BY <1>6, <2>2 DEF Unlink
  <2>5. at # <<>> => Leads(at)'
    BY <1>0, <2>1, <2>2, <2>3, <2>4, AtDirectory, LeadsKept DEF There
  <2>6. now'.step = "install" BY <1>0, <2>1 DEF TypeOK
  <2>7. QED BY <1>0, <2>1, <2>5, <2>6, WalkGoesOn
<1>7. CASE CopyFile
  <2>1. stage = "merging" /\ now.step = "install" /\ UNCHANGED <<setting, version, at, todo, root>>
    BY <1>7 DEF CopyFile, Ready
  <2>2. PICK s \in {"rename", "failed"} : now' = [now EXCEPT !.step = s] BY <1>7 DEF CopyFile
  <2>3. at # <<>> => Leads(at)' BY <1>0, <2>1 DEF Walk, Leads
  <2>4. now'.step = s BY <1>0, <2>2 DEF TypeOK
  <2>5. QED BY <1>0, <2>1, <2>2, <2>3, <2>4, WalkGoesOn
<1>8. CASE RenameFile
  <2>1. stage = "merging" /\ now.step \in {"install", "rename"} /\ now' = [now EXCEPT !.step = "track"]
        /\ UNCHANGED <<setting, version, at, todo>> /\ image[now.path].type = "file"
    BY <1>8 DEF RenameFile, Ready
  <2>2. now # Idle /\ Place(now.dst) \in Paths /\ Resolved(now.dst) = Place(now.dst) /\ ~ MayLead(Place(now.dst))
    BY <1>0, <2>1, AtEntry
  <2>3. root[Place(now.dst)].type # "dir" BY <1>0, <2>1, <2>2 DEF StepFits
  <2>4. PICK n : root' = [root EXCEPT ![Place(now.dst)] = n] BY <1>8, <2>2 DEF RenameFile
  <2>5. at # <<>> => Leads(at)' BY <1>0, <2>1, <2>2, <2>3, <2>4, AtDirectory, LeadsKept
  <2>6. now'.step = "track" BY <1>0, <2>1 DEF TypeOK
  <2>7. QED BY <1>0, <2>1, <2>5, <2>6, WalkGoesOn
<1>9. CASE InstallSym
  <2>1. stage = "merging" /\ now.step = "install" /\ now' = [now EXCEPT !.step = "track"]
        /\ UNCHANGED <<setting, version, at, todo>> /\ image[now.path].type = "sym"
    BY <1>9 DEF InstallSym, Ready
  <2>2. now # Idle /\ Place(now.dst) \in Paths /\ Resolved(now.dst) = Place(now.dst) /\ ~ MayLead(Place(now.dst))
    BY <1>0, <2>1, AtEntry
  <2>3. root[Place(now.dst)].type # "dir" BY <1>0, <2>1, <2>2 DEF StepFits, Nothing
  <2>4. PICK n : root' = [root EXCEPT ![Place(now.dst)] = n] BY <1>9, <2>2 DEF InstallSym
  <2>5. at # <<>> => Leads(at)' BY <1>0, <2>1, <2>2, <2>3, <2>4, AtDirectory, LeadsKept
  <2>6. now'.step = "track" BY <1>0, <2>1 DEF TypeOK
  <2>7. QED BY <1>0, <2>1, <2>5, <2>6, WalkGoesOn
<1>10. CASE InstallDir
  <2>1. stage = "merging" /\ now.step = "install" /\ image[now.path].type = "dir"
        /\ UNCHANGED <<setting, version, at, todo>>
    BY <1>10 DEF InstallDir, Ready
  <2>2. PICK s \in {"track", "renamed"} : now' = [now EXCEPT !.step = s] BY <1>10 DEF InstallDir
  <2>3. at = <<>> BY <1>0, <2>1, AtEntry
  <2>4. now'.step = s BY <1>0, <2>2 DEF TypeOK
  <2>5. QED BY <1>0, <2>1, <2>2, <2>3, <2>4, WalkGoesOn
<1>12. ASSUME NEW p \in todo, TrackRenamed(p) PROVE Walk'
  <2>1. /\ stage = "merging" /\ now.step = "renamed" /\ p \in Below(now.path) /\ image[now.path].type = "dir"
        /\ todo' = todo \ {p} /\ UNCHANGED <<setting, version, at, now, root>>
    BY <1>12 DEF TrackRenamed, Ready, Record
  <2>2. now.path \in Paths /\ now # Idle /\ at = <<>> BY <1>0, <2>1, AtEntry
  <2>3. Parent(p) = now.path /\ p # now.path BY <1>a, <1>d, <2>1, <2>2 DEF Below, IsStrictPrefix
  <2>4. ASSUME NEW r \in todo', r # now.path PROVE Below(r) \cap DOMAIN image \subseteq todo'
    <3>1. Below(r) \cap DOMAIN image \subseteq todo BY <1>0, <2>1, <2>4 DEF Walk
    <3>2. p \notin Below(r) BY <1>a, <1>d, <2>1, <2>3, <2>4
    <3>3. QED BY <2>1, <3>1, <3>2
  <2>5. image' = image BY <2>1 DEF image
  <2>6. QED BY <1>0, <1>e, <2>1, <2>2, <2>3, <2>4, <2>5 DEF Walk
<1>13. CASE Track
  <2>1. /\ stage = "merging" /\ now.step \in {"track", "renamed"} /\ todo' = todo \ {now.path} /\ now' = Idle
        /\ UNCHANGED <<setting, version, root>>
        /\ at' = IF image[now.path].type = "dir" /\ now.step = "track" THEN now.path ELSE at
        /\ now.step = "renamed" => Below(now.path) \cap todo = {}
    BY <1>13 DEF Track, Ready, Record
  <2>2. now.path \in Paths /\ now # Idle /\ now.path \in DOMAIN image /\ Wanted(now.path) /\ Parent(now.path) = at
    BY <1>0, <2>1, AtEntry
  <2>3. ASSUME NEW r \in todo' PROVE Below(r) \cap DOMAIN image \subseteq todo'
    <3>1. Below(r) \cap DOMAIN image \subseteq todo BY <1>0, <2>1, <2>3 DEF Walk
    <3>2. now.path \notin Below(r)
      <4>1. SUFFICES ASSUME now.path \in Below(r) PROVE FALSE OBVIOUS
      <4>2. r = at /\ r \in todo /\ r # <<>> BY <1>a, <1>d, <2>1, <2>2, <4>1, PathParts
      <4>3. QED BY <1>0, <2>1, <4>2, AtDirectory
    <3>3. QED BY <2>1, <3>1, <3>2
  <2>4. image' = image BY <2>1 DEF image
  <2>5. at' # <<>> => at' \in DOMAIN image \ todo' /\ image[at'].type = "dir" /\ Wanted(at') /\ Leads(at')
    <3>1. CASE image[now.path].type = "dir" /\ now.step = "track"
      <4>1. Leads(now.path) BY <1>0, <2>1, <2>2, <3>1 DEF StepFits
      <4>2. QED BY <2>1, <2>2, <3>1, <4>1
    <3>2. CASE ~ (image[now.path].type = "dir" /\ now.step = "track")
      BY <1>0, <2>1, <3>2 DEF Walk
    <3>3. QED BY <3>1, <3>2
  <2>6. at' # <<>> => Leads(at)' BY <2>1, <2>5 DEF Leads
  <2>7. todo' \subseteq DOMAIN image BY <1>0, <2>1 DEF Walk
  <2>8. QED BY <1>e, <2>1, <2>3, <2>4, <2>5, <2>6, <2>7 DEF Walk
<1>14. CASE MergeDone BY <1>c, <1>14 DEF MergeDone
<1>15. ASSUME NEW e \in DOMAIN entries, Replace(e) PROVE Walk' BY <1>c, <1>15 DEF Replace
<1>16. ASSUME NEW e \in Installed, Uninstall(e) PROVE Walk' BY <1>c, <1>16 DEF Uninstall
<1>17. CASE UnmergeEntry BY <1>c, <1>17 DEF UnmergeEntry
<1>18. CASE UnmergeDone BY <1>c, <1>18 DEF UnmergeDone
<1>19. CASE InstallDone BY <1>c, <1>19 DEF InstallDone
<1>21. CASE Fail BY <1>c, <1>21 DEF Fail, StopHere
<1>22. CASE Crash BY <1>c, <1>22 DEF Crash, StopHere
<1>23. ASSUME NEW p \in Paths, UserWrites(p) PROVE Walk'
  <2>1. /\ UNCHANGED <<setting, stage, version, at, todo, now>> /\ root[p].type \in {"file", "nothing"}
        /\ root' = [root EXCEPT ![p] = File(UserContent, 11 + clock)] /\ now = Idle
    BY <1>23 DEF UserWrites, Edits, merging
  <2>2. stage = "merging" /\ at # <<>> => Leads(at)'
    <3>1. SUFFICES ASSUME stage = "merging", at # <<>> PROVE Leads(at)' OBVIOUS
    <3>2. Leads(at) /\ at \in Paths BY <1>0, <3>1, AtDirectory
    <3>3. p # at BY <2>1, <3>2 DEF Leads
    <3>4. QED BY <1>0, <2>1, <3>2, <3>3, LeadsKept
  <2>3. image' = image BY <2>1 DEF image
  <2>4. QED BY <1>0, <1>e, <2>1, <2>2, <2>3 DEF Walk
<1>24. ASSUME NEW p \in Protected, NEW i \in DOMAIN UpdateNames[p], UserAccepts(p, i) PROVE Walk'
  <2> DEFINE u == UpdateNames[p][i]
  <2>1. /\ UNCHANGED <<setting, stage, version, at, todo, now>> /\ now = Idle
        /\ root' = [root EXCEPT ![p] = root[u], ![u] = Nothing]
        /\ root[u].type = "file" /\ root[p].type # "dir"
    BY <1>24 DEF UserAccepts, merging
  <2>2. u \in Range(UpdateNames[p]) BY DEF Range
  <2>3. u \in Paths /\ p \in Paths /\ u \in Updates BY <1>a, <2>2, UpdateParts
  <2> HIDE DEF u
  <2>4. stage = "merging" /\ at # <<>> => Leads(at)'
    <3>1. SUFFICES ASSUME stage = "merging", at # <<>> PROVE Leads(at)' OBVIOUS
    <3>2. Leads(at) /\ at \in Paths /\ at \notin Protected \cup Updates BY <1>0, <3>1, AtDirectory
    <3>3. root'[at] = root[at] BY <1>a, <2>1, <2>3, <3>2
    <3>4. CASE root[at].type = "dir" BY <2>1, <3>3, <3>4 DEF Leads
    <3>5. CASE root[at].type = "sym" /\ root[root[at].content].type = "dir"
      <4>1. root[at].content \in Paths BY <1>a, <3>2, <3>5, NodeParts
      <4>2. root'[root[at].content] = root[root[at].content] BY <1>a, <2>1, <2>3, <3>5, <4>1
      <4>3. QED BY <2>1, <3>3, <3>5, <4>2 DEF Leads
    <3>6. QED BY <3>2, <3>4, <3>5 DEF Leads
  <2>5. image' = image BY <2>1 DEF image
  <2>6. QED BY <1>0, <1>e, <2>1, <2>4, <2>5 DEF Walk
<1>25. QED
  BY <1>1, <1>2, <1>3, <1>4, <1>5, <1>6, <1>7, <1>8, <1>9, <1>10, <1>12, <1>13, <1>14, <1>15, <1>16, <1>17, <1>18,
     <1>19, <1>21, <1>22, <1>23, <1>24 DEF Next

-----------------------------------------------------------------------------
(* What is known of the entry that is being dealt with.                    *)

(* Nothing is known between entries.                                       *)
LEMMA NoStep == now' = Idle \/ stage' # "merging" => StepFits'
BY DEF StepFits

LEMMA RenamedParts ==
    ASSUME TypeOK, Disk, Control, Walk, StepFits, stage = "merging", now.step = "renamed",
           NEW p \in Below(now.path) \cap todo
    PROVE  /\ p \in Paths /\ p \in DOMAIN image /\ Place(p) = p /\ root[p] = OnRoot(p) /\ Stat(p) = root[p]
           /\ Parent(p) = now.path /\ image[p].type # "dir" /\ p \notin Updates
<1>1. setting \in Settings /\ TwoLevels BY Fit DEF TypeOK
<1>2. now.path \in Paths /\ now # Idle /\ version \in Versions BY AtEntry
<1>3. root[now.path] = Dir /\ root[p] = OnRoot(p) BY <1>2 DEF StepFits
<1>4. p \in Paths /\ p \in DOMAIN image /\ p \in Below(now.path) BY DEF Walk, Below
<1>5. Len(p) = 2 /\ Parent(p) = now.path BY <1>1, <1>2, <1>4, BelowIsChild
<1>6. setting.root[now.path].type # "sym"
  <2>1. MayLead(now.path) BY <1>4 DEF MayLead
  <2>2. root[now.path].type = "dir" BY <1>3, NodeTypes
  <2>3. SUFFICES ASSUME setting.root[now.path].type = "sym" PROVE FALSE OBVIOUS
  <2>4. root[now.path] = setting.root[now.path] BY <1>2, <2>1, <2>3 DEF Disk, LinksStay
  <2>5. QED BY <2>2, <2>3, <2>4
<1>7. Place(p) = p BY <1>1, <1>4, <1>5, <1>6, PlaceParts
<1>8. Stat(p) = root[p] BY <1>1, <1>4, <1>7, ResolvedIsPlace DEF Disk
<1>9. image[p].type # "dir" /\ p \notin Updates
  <2>1. image[p].type = "dir" => Len(p) = 1 BY <1>1, <1>2, <1>4, ImageParts DEF image
  <2>2. p \notin Updates BY <1>1, <1>2, <1>4, ImageParts DEF image
  <2>3. Len(p) # 1 BY <1>5, TwoIsNotOne
  <2>4. QED BY <2>1, <2>2, <2>3
<1>10. QED BY <1>3, <1>4, <1>5, <1>7, <1>8, <1>9

LEMMA StepFitsStep == IInv /\ Next => StepFits'
<1> SUFFICES ASSUME IInv, Next PROVE StepFits' OBVIOUS
<1>0. TypeOK /\ Disk /\ Control /\ Walk /\ StepFits BY DEF IInv
<1>a. setting \in Settings /\ root \in [Paths -> Nodes] /\ todo \subseteq Paths /\ clock \in Nat BY <1>0 DEF TypeOK
<1>b. Nothing.type = "nothing" BY DEF Nothing
<1>1. ASSUME NEW v \in Versions, CheckMerge(v) PROVE StepFits' BY <1>1, NoStep DEF CheckMerge
<1>2. CASE BeginMerge BY <1>2, NoStep DEF BeginMerge
<1>3. ASSUME NEW p \in todo, Skip(p) PROVE StepFits' BY <1>3, NoStep DEF Skip, IsNext
<1>4. ASSUME NEW p \in todo, StartEntry(p) PROVE StepFits'
  <2>1. /\ UNCHANGED <<setting, root, version, midmerge, mixed, cut>> /\ stage = "merging"
        /\ MayGoOver(image[p], p)
    BY <1>4 DEF StartEntry, IsNext, observed
  <2>2. PICK dst \in IF image[p].type = "file" THEN FileGoesTo(p) ELSE {p} :
          now' = [path |-> p, dst |-> dst, step |-> FirstStep(image[p], Stat(p).type)]
    BY <1>4 DEF StartEntry
  <2>3. version \in Versions /\ p \in DOMAIN image /\ p \in Paths BY <1>0, <1>a, <2>1 DEF Control, Walk
  <2>4. image' = image /\ Place(dst)' = Place(dst) BY <2>1 DEF image, Place
  <2>5. image[p].type \in {"file", "sym", "dir"} /\ (image[p].type = "dir" => Len(p) = 1)
    BY <1>a, <2>3, ImageParts DEF image
  <2>6. Stat(p) = root[Place(p)] /\ Place(p) \in Paths BY <1>0, <1>a, <2>3, ResolvedIsPlace, PlaceParts DEF Disk
  <2>7. /\ root[Place(p)].type = "nothing" <=> root[Place(p)] = Nothing
        /\ root[Place(p)].type \in {"nothing", "dir", "file", "sym"}
    BY <1>a, <2>6, NodeParts
  <2>8. now'.path = p /\ now'.dst = dst /\ now'.step = FirstStep(image[p], Stat(p).type) BY <2>2
  <2>9. CASE image[p].type = "sym"
    <3>1. dst = p /\ Stat(p).type # "dir" BY <2>1, <2>2, <2>9 DEF MayGoOver
    <3>2. CASE Stat(p).type = "nothing"
      <4>1. now'.step = "install" BY <2>8, <2>9, <3>2 DEF FirstStep
      <4>2. QED BY <2>1, <2>4, <2>6, <2>7, <2>8, <2>9, <3>1, <3>2, <4>1 DEF StepFits
    <3>3. CASE Stat(p).type # "nothing"
      <4>1. now'.step = "unlink" BY <2>8, <2>9, <3>3 DEF FirstStep
      <4>2. There(Place(p)) BY <2>6, <2>7, <3>1, <3>3 DEF There
      <4>3. There(Place(p))' BY <2>1, <4>2, <2>4, <3>1 DEF There
      <4>4. QED BY <2>1, <2>4, <2>8, <2>9, <3>1, <4>1, <4>3 DEF StepFits
    <3>4. QED BY <3>2, <3>3
  <2>10. CASE image[p].type = "dir"
    <3>1. dst = p /\ Place(p) = p BY <1>a, <2>2, <2>3, <2>5, <2>10, PlaceParts
    <3>2. CASE Stat(p).type = "nothing"
      <4>1. now'.step = "install" BY <2>8, <2>10, <3>2 DEF FirstStep
      <4>2. QED BY <2>1, <2>4, <2>6, <2>7, <2>8, <2>10, <3>1, <3>2, <4>1 DEF StepFits
    <3>3. CASE Stat(p).type # "nothing"
      <4>1. now'.step = "track" BY <2>8, <2>10, <3>3 DEF FirstStep
      <4>2. Stat(p).type = "dir" \/ IsDirectory(p) BY <2>1, <2>10, <3>3 DEF MayGoOver
      <4>3. Leads(p)
        <5>1. IsDirectory(p) <=> Leads(p) BY <1>a, <2>3, <2>5, <2>10, DirectoryLeads
        <5>2. Stat(p).type = "dir" => Leads(p) BY <2>6, <3>1 DEF Leads
        <5>3. QED BY <4>2, <5>1, <5>2
      <4>4. Leads(now.path)' BY <2>1, <2>8, <4>3 DEF Leads
      <4>5. QED BY <2>1, <2>4, <2>8, <2>10, <4>1, <4>4 DEF StepFits
    <3>4. QED BY <3>2, <3>3
  <2>11. CASE image[p].type = "file"
    <3>1. now'.step = "install" BY <2>8, <2>11 DEF FirstStep
    <3>2. Stat(p).type # "dir" BY <2>1, <2>11 DEF MayGoOver
    <3>3. root[Place(dst)].type # "dir"
          /\ (p \in Protected /\ root[Place(dst)].type = "file" => root[Place(dst)].content = image[p].content)
      <4>1. CASE ~ (Stat(p).type = "file" /\ p \in Protected)
        <5>1. dst = p BY <2>2, <2>11, <4>1 DEF FileGoesTo
        <5>2. QED BY <2>6, <3>2, <4>1, <5>1
      <4>2. CASE Stat(p).type = "file" /\ p \in Protected
        <5>1. dst \in ConfigProtectName(p) BY <2>2, <2>11, <4>2 DEF FileGoesTo
        <5>2. Suits(p, dst) BY <5>1 DEF ConfigProtectName
        <5>3. dst = p \/ dst \in Range(UpdateNames[p]) BY <5>1 DEF ConfigProtectName, Range
        <5>4. dst \in Paths BY <1>a, <2>3, <4>2, <5>3, UpdateParts
        <5>5. Stat(dst) = root[Place(dst)] BY <1>0, <1>a, <5>4, ResolvedIsPlace DEF Disk
        <5>6. QED BY <1>b, <5>2, <5>5 DEF Suits
      <4>3. QED BY <4>1, <4>2
    <3>4. QED BY <2>1, <2>4, <2>8, <2>11, <3>1, <3>3 DEF StepFits
  <2>12. QED BY <2>5, <2>9, <2>10, <2>11
<1>5. CASE LeaveDirectory BY <1>5, NoStep DEF LeaveDirectory
<1>6. CASE Unlink
  <2> DEFINE q == Place(now.dst)
  <2>1. stage = "merging" /\ now.step = "unlink" /\ now' = [now EXCEPT !.step = "install"]
        /\ UNCHANGED <<setting, version, midmerge, mixed, cut>>
    BY <1>6 DEF Unlink, Ready
  <2>2. now # Idle /\ q \in Paths /\ Resolved(now.dst) = q BY <1>0, <2>1, AtEntry
  <2>3. image[now.path].type = "sym" BY <1>0, <2>1, <2>2 DEF StepFits
  <2>4. root'[q] = Nothing BY <1>6, <1>a, <2>2 DEF Unlink
  <2>5. now'.path = now.path /\ now'.dst = now.dst /\ now'.step = "install" BY <1>0, <2>1 DEF TypeOK
  <2>6. image' = image /\ Place(now.dst)' = Place(now'.dst) /\ Place(now'.dst) = q BY <2>1, <2>5 DEF image, Place
  <2>7. Place(now.dst)' = q BY <2>6
  <2>8. QED BY <2>3, <2>4, <2>5, <2>6, <2>7 DEF StepFits
<1>7. CASE CopyFile
  <2> DEFINE q == Place(now.dst)
             new == image[now.path].content
             old == IF q \in DOMAIN midmerge THEN midmerge[q] ELSE <<>>
  <2>1. stage = "merging" /\ now.step = "install" /\ image[now.path].type = "file"
        /\ UNCHANGED <<setting, version, root>>
    BY <1>7 DEF CopyFile, Ready
  <2>2. now # Idle /\ q \in Paths /\ Resolved(now.dst) = q /\ version \in Versions /\ now.path \in DOMAIN image
    BY <1>0, <2>1, AtEntry
  <2>a. new \in Seq(STRING) /\ new # <<>> /\ new[1] # UserContent[1] BY <1>a, <2>1, <2>2, ImageParts DEF image
  <2>b. old \in Seq(STRING)
    <3>1. <<>> \in Seq(STRING) OBVIOUS
    <3>2. q \in DOMAIN midmerge => midmerge[q] \in Seq(STRING) BY <1>0 DEF TypeOK
    <3>3. QED BY <3>1, <3>2
  <2>n. PICK n \in 0..Len(new) : \E w \in Written(SubSeq(new, 1, n)) :
          /\ midmerge' = [p \in DOMAIN midmerge \cup {q} |-> IF p = q THEN Overwritten(w, old) ELSE midmerge[p]]
          /\ now' = [now EXCEPT !.step = IF n = Len(new) THEN "rename" ELSE "failed"]
          /\ cut' = IF w = new THEN cut \ {q} ELSE cut \cup {q}
    BY <1>7, <2>2 DEF CopyFile
  <2>3. PICK w \in Written(SubSeq(new, 1, n)) :
          /\ midmerge' = [p \in DOMAIN midmerge \cup {q} |-> IF p = q THEN Overwritten(w, old) ELSE midmerge[p]]
          /\ now' = [now EXCEPT !.step = IF n = Len(new) THEN "rename" ELSE "failed"]
          /\ cut' = IF w = new THEN cut \ {q} ELSE cut \cup {q}
    BY <2>n
  <2>4. mixed' = IF q \in DOMAIN midmerge THEN mixed \cup {q} ELSE mixed \ {q} BY <1>7, <2>2 DEF CopyFile
  <2>5. now'.path = now.path /\ now'.dst = now.dst /\ now'.step = IF n = Len(new) THEN "rename" ELSE "failed"
    BY <1>0, <2>3 DEF TypeOK
  <2>6. image' = image /\ Place(now'.dst) = q /\ Place(now.dst)' = Place(now'.dst) BY <2>1, <2>5 DEF image, Place
  <2>7. Place(now.dst)' = q BY <2>6
  <2>8. CASE n # Len(new) BY <2>1, <2>5, <2>6, <2>8 DEF StepFits
  <2>9. CASE n = Len(new)
    <3>1. midmerge'[q] = Overwritten(w, old) /\ q \in DOMAIN midmerge' BY <2>3
    <3>2. old = <<>> \/ q \in DOMAIN midmerge OBVIOUS
    <3>3. /\ root[q].type # "dir"
          /\ now.path \in Protected /\ root[q].type = "file" => root[q].content = new
      BY <1>0, <2>1, <2>2 DEF StepFits
    <3>4. now'.step = "rename" BY <2>5, <2>9
    <3> HIDE DEF old, new
    <3>5. /\ midmerge'[q] # <<>> /\ midmerge'[q][1] = new[1]
          /\ w = new => IsPrefix(new, midmerge'[q]) /\ (old = <<>> => midmerge'[q] = new)
      BY <2>9, <2>a, <2>b, <3>1, CopyParts
    <3>6. midmerge'[q] # UserContent BY <2>a, <3>5
    <3>7. q \in cut' \/ (IsPrefix(new, midmerge'[q]) /\ (midmerge'[q] = new \/ q \in mixed'))
      BY <2>3, <2>4, <3>2, <3>5
    <3> USE DEF new
    <3>8. QED BY <2>1, <2>5, <2>6, <2>7, <3>1, <3>3, <3>4, <3>6, <3>7 DEF StepFits
  <2>10. QED BY <2>8, <2>9
<1>8. CASE RenameFile
  <2> DEFINE q == Place(now.dst)
             new == image[now.path].content
             c == IF setting.rename THEN new ELSE midmerge[q]
  <2>1. /\ stage = "merging" /\ now.step = (IF setting.rename THEN "install" ELSE "rename")
        /\ image[now.path].type = "file" /\ now' = [now EXCEPT !.step = "track"]
        /\ UNCHANGED <<setting, version, clock, mixed, cut>>
    BY <1>8 DEF RenameFile, Ready
  <2>2. now # Idle /\ q \in Paths /\ Resolved(now.dst) = q /\ version \in Versions /\ now.path \in DOMAIN image
    BY <1>0, <2>1, AtEntry
  <2>3. new \in Seq(STRING) /\ new # <<>> /\ new # UserContent BY <1>a, <2>1, <2>2, ImageParts DEF image
  <2>4. ~ setting.rename => /\ q \in DOMAIN midmerge /\ midmerge[q] # UserContent
                            /\ q \in cut \/ (IsPrefix(new, midmerge[q]) /\ (midmerge[q] = new \/ q \in mixed))
    BY <1>0, <2>1, <2>2 DEF StepFits
  <2>5. c # UserContent
    <3>1. CASE setting.rename BY <2>3, <3>1
    <3>2. CASE ~ setting.rename BY <2>4, <3>2
    <3>3. QED BY <3>1, <3>2
  <2>6. c = new \/ (q \in mixed /\ IsPrefix(new, c)) \/ q \in cut BY <2>4
  <2>7. root'[q] = File(c, FileTime) BY <1>8, <1>a, <2>2 DEF RenameFile
  <2>8. root'[q].type = "file" /\ root'[q].content = c /\ root'[q].mtime = FileTime BY <2>7 DEF File
  <2>9. now'.path = now.path /\ now'.dst = now.dst /\ now'.step = "track" BY <1>0, <2>1 DEF TypeOK
  <2>10. image' = image /\ Place(now'.dst) = q /\ Place(now.dst)' = Place(now'.dst) /\ FileTime' = FileTime
    BY <2>1, <2>9 DEF image, Place, FileTime
  <2>11. Place(now.dst)' = q BY <2>10
  <2>12. Is(now.path, Place(now.dst))' BY <2>1, <2>6, <2>8, <2>9, <2>10, <2>11 DEF Is
  <2> HIDE DEF c, q
  <2>13. QED BY <2>1, <2>5, <2>8, <2>9, <2>10, <2>11, <2>12 DEF StepFits
<1>9. CASE InstallSym
  <2> DEFINE q == Place(now.dst)
  <2>1. stage = "merging" /\ now.step = "install" /\ now' = [now EXCEPT !.step = "track"]
        /\ image[now.path].type = "sym" /\ UNCHANGED <<setting, version, clock>>
    BY <1>9 DEF InstallSym, Ready
  <2>2. now # Idle /\ q \in Paths /\ Resolved(now.dst) = q BY <1>0, <2>1, AtEntry
  <2>3. root'[q] = OnRoot(now.path) BY <1>9, <1>a, <2>1, <2>2 DEF InstallSym, OnRoot
  <2>4. now'.path = now.path /\ now'.dst = now.dst /\ now'.step = "track" BY <1>0, <2>1 DEF TypeOK
  <2>5. image' = image /\ Place(now'.dst) = q /\ Place(now.dst)' = Place(now'.dst) BY <2>1, <2>4 DEF image, Place
  <2>6. Place(now.dst)' = q /\ OnRoot(now.path)' = OnRoot(now.path)
    BY <2>1, <2>4, <2>5 DEF OnRoot, FileTime
  <2> HIDE DEF q
  <2>7. QED BY <2>1, <2>3, <2>4, <2>5, <2>6 DEF StepFits
<1>10. CASE InstallDir
  <2> DEFINE d == now.path
  <2>1. stage = "merging" /\ now.step = "install" /\ image[d].type = "dir"
        /\ UNCHANGED <<setting, version, clock, todo>>
    BY <1>10 DEF InstallDir, Ready
  <2>2. d \in Paths /\ now # Idle BY <1>0, <2>1, AtEntry
  <2>3. now' = [now EXCEPT !.step = IF setting.rename THEN "renamed" ELSE "track"] BY <1>10 DEF InstallDir
  <2>4. now'.path = d /\ now'.dst = now.dst /\ now'.step = (IF setting.rename THEN "renamed" ELSE "track")
    BY <1>0, <2>3 DEF TypeOK
  <2>5. image' = image BY <2>1 DEF image
  <2>6. \A p : OnRoot(p)' = OnRoot(p) BY <2>1, <2>5 DEF OnRoot, FileTime
  <2>7. OnRoot(d) = Dir BY <2>1 DEF OnRoot
  <2>8. root'[d] = Dir /\ (setting.rename => \A p \in Below(d) \cap todo : root'[p] = OnRoot(p))
    <3>1. CASE setting.rename
      <4>1. root' = [p \in Paths |-> IF p \in (Below(d) \cap DOMAIN image) \cup {d} THEN OnRoot(p) ELSE root[p]]
        BY <1>10, <3>1 DEF InstallDir, OnRoot
      <4>2. todo \subseteq DOMAIN image BY <1>0, <2>1 DEF Walk
      <4>3. QED BY <1>a, <2>2, <2>7, <4>1, <4>2
    <3>2. CASE ~ setting.rename BY <1>10, <1>a, <2>2, <3>2 DEF InstallDir
    <3>3. QED BY <3>1, <3>2
  <2>9. Leads(now.path)'
    <3>1. root'[now'.path].type = "dir" BY <2>4, <2>8, NodeTypes
    <3>2. QED BY <3>1 DEF Leads
  <2>10. CASE setting.rename
    <3>1. now'.step = "renamed" BY <2>4, <2>10
    <3>2. \A p \in (Below(now.path) \cap todo)' : root'[p] = OnRoot(p)' BY <2>1, <2>4, <2>6, <2>8, <2>10
    <3>3. QED BY <2>1, <2>4, <2>5, <2>8, <2>10, <3>1, <3>2 DEF StepFits
  <2>11. CASE ~ setting.rename
    <3>1. now'.step = "track" BY <2>4, <2>11
    <3>2. QED BY <2>1, <2>4, <2>5, <2>9, <3>1 DEF StepFits
  <2>12. QED BY <2>10, <2>11
<1>12. ASSUME NEW p \in todo, TrackRenamed(p) PROVE StepFits'
  <2>1. /\ stage = "merging" /\ now.step = "renamed" /\ image[now.path].type = "dir"
        /\ UNCHANGED <<setting, root, version, clock, now>> /\ todo' \subseteq todo
    BY <1>12 DEF TrackRenamed, Ready, Record
  <2>2. now # Idle BY <1>0, <2>1, AtEntry
  <2>3. image' = image /\ \A r : OnRoot(r)' = OnRoot(r) BY <2>1 DEF image, OnRoot, FileTime
  <2>4. /\ setting.rename /\ root[now.path] = Dir
        /\ \A r \in Below(now.path) \cap todo : root[r] = OnRoot(r)
    BY <1>0, <2>1, <2>2 DEF StepFits
  <2>5. QED BY <2>1, <2>3, <2>4 DEF StepFits
<1>13. CASE Track BY <1>13, NoStep DEF Track
<1>14. CASE MergeDone BY <1>14, NoStep DEF MergeDone
<1>15. ASSUME NEW e \in DOMAIN entries, Replace(e) PROVE StepFits' BY <1>15, NoStep DEF Replace
<1>16. ASSUME NEW e \in Installed, Uninstall(e) PROVE StepFits' BY <1>16, NoStep DEF Uninstall
<1>17. CASE UnmergeEntry BY <1>17, NoStep DEF UnmergeEntry
<1>18. CASE UnmergeDone BY <1>18, NoStep DEF UnmergeDone
<1>19. CASE InstallDone BY <1>19, NoStep DEF InstallDone
<1>21. CASE Fail BY <1>21, NoStep DEF Fail, StopHere
<1>22. CASE Crash BY <1>22, NoStep DEF Crash, StopHere
<1>23. ASSUME NEW p \in Paths, UserWrites(p) PROVE StepFits'
  BY <1>23, NoStep DEF UserWrites, Edits, merging
<1>24. ASSUME NEW p \in Protected, NEW i \in DOMAIN UpdateNames[p], UserAccepts(p, i) PROVE StepFits'
  BY <1>24, NoStep DEF UserAccepts, merging
<1>25. QED
  BY <1>1, <1>2, <1>3, <1>4, <1>5, <1>6, <1>7, <1>8, <1>9, <1>10, <1>12, <1>13, <1>14, <1>15, <1>16, <1>17, <1>18,
     <1>19, <1>21, <1>22, <1>23, <1>24 DEF Next

-----------------------------------------------------------------------------
(* What is recorded.                                                       *)

(* The line that Track or TrackRenamed writes is about p, which is at dst. *)
IsRecorded(p, dst) ==
    /\ p \in todo /\ p \in DOMAIN image /\ p \in Paths /\ p \notin Updates /\ dst \in Paths
    /\ stage = "merging" /\ version \in Versions
    /\ Record(p, dst)
    /\ \/ dst = p
       \/ image[p].type = "file" /\ p \in Protected /\ dst \in Range(UpdateNames[p])
    /\ Resolved(dst) = Place(dst) /\ Stat(dst) = root[Place(dst)] /\ Place(dst) \in Paths
    /\ image[p].type \in {"file", "sym", "dir"}
    /\ image[p].type = "dir" => Leads(p) /\ Len(p) = 1
    /\ image[p].type = "file" =>
          Is(p, Place(dst)) /\ root[Place(dst)].mtime = FileTime /\ root[Place(dst)].content # UserContent
    /\ image[p].type = "sym" => root[Place(dst)] = Sym(image[p].content, 10 + clock)
    /\ Wanted(p) \/ (setting.rename /\ Wanted(Parent(p)))
    /\ UNCHANGED <<setting, root, midmerge, index, stage, version, clock, entry, unmerge, user, touched,
                   mixed, cut, complete>>

LEMMA RenamedIsRecorded ==
    ASSUME TypeOK, Disk, Control, Walk, StepFits, NEW p \in todo, TrackRenamed(p)
    PROVE  IsRecorded(p, p)
<1>1. /\ stage = "merging" /\ now.step = "renamed" /\ p \in Below(now.path) \cap todo /\ Record(p, p)
      /\ UNCHANGED <<setting, root, midmerge, index, stage, version, clock, entry, unmerge, user, touched,
                     mixed, cut, complete>>
  BY DEF TrackRenamed, Ready
<1>2. setting \in Settings BY DEF TypeOK
<1>3. version \in Versions /\ now # Idle /\ Wanted(now.path) BY <1>1, AtEntry
<1>4. /\ p \in Paths /\ p \in DOMAIN image /\ Place(p) = p /\ root[p] = OnRoot(p) /\ Stat(p) = root[p]
      /\ Parent(p) = now.path /\ image[p].type # "dir" /\ p \notin Updates
  BY <1>1, RenamedParts
<1>5. setting.rename BY <1>1, <1>3 DEF StepFits
<1>6. image[p].type \in {"file", "sym"} /\ (image[p].type = "file" => image[p].content # UserContent)
  BY <1>2, <1>3, <1>4, ImageParts DEF image
<1>7. Resolved(p) = Place(p) BY <1>2, <1>4, ResolvedIsPlace DEF Disk
<1>8. image[p].type = "file" => root[p] = File(image[p].content, FileTime) BY <1>4 DEF OnRoot
<1>9. image[p].type = "sym" => root[p] = Sym(image[p].content, 10 + clock) BY <1>4 DEF OnRoot
<1>10. image[p].type = "file" =>
         Is(p, Place(p)) /\ root[Place(p)].mtime = FileTime /\ root[Place(p)].content # UserContent
  BY <1>4, <1>6, <1>8, NodeTypes DEF Is
<1>11. QED BY <1>1, <1>3, <1>4, <1>5, <1>6, <1>7, <1>9, <1>10 DEF IsRecorded

LEMMA TrackIsRecorded ==
    ASSUME TypeOK, Disk, Control, Walk, StepFits, Track
    PROVE  \E dst \in Paths : IsRecorded(now.path, dst) /\ (image[now.path].type # "dir" => dst = now.dst)
<1> DEFINE p == now.path
           dst == IF image[p].type = "file" THEN now.dst ELSE p
<1>1. /\ stage = "merging" /\ now.step \in {"track", "renamed"} /\ Record(p, dst)
      /\ UNCHANGED <<setting, root, midmerge, index, stage, version, clock, entry, unmerge, user, touched,
                     mixed, cut, complete>>
  BY DEF Track, Ready
<1>2. setting \in Settings BY DEF TypeOK
<1>3. /\ version \in Versions /\ now # Idle /\ p \in todo /\ p \in DOMAIN image /\ p \in Paths /\ p \notin Updates
      /\ Wanted(p) /\ now.dst \in Paths /\ image[p].type \in {"file", "sym", "dir"}
      /\ image[p].type = "dir" => Len(p) = 1
      /\ \/ now.dst = p
         \/ image[p].type = "file" /\ p \in Protected /\ now.dst \in Range(UpdateNames[p])
  BY <1>1, AtEntry
<1>4. dst = now.dst BY <1>3
<1>5. dst \in Paths BY <1>3
<1>6. Resolved(dst) = Place(dst) /\ Stat(dst) = root[Place(dst)] /\ Place(dst) \in Paths
  BY <1>2, <1>5, ResolvedIsPlace, PlaceParts DEF Disk
<1>7. now.step = "renamed" => image[p].type = "dir" /\ root[p] = Dir BY <1>1, <1>3 DEF StepFits
<1>8. image[p].type = "dir" => Leads(p)
  <2>1. CASE now.step = "renamed" BY <1>7, <2>1, NodeTypes DEF Leads
  <2>2. CASE now.step = "track" BY <1>1, <1>3, <2>2 DEF StepFits
  <2>3. QED BY <1>1, <2>1, <2>2
<1>9. ASSUME image[p].type # "dir"
      PROVE  /\ image[p].type = "file" => Is(p, Place(now.dst)) /\ root[Place(now.dst)].mtime = FileTime
                                            /\ root[Place(now.dst)].content # UserContent
             /\ image[p].type = "sym" => root[Place(now.dst)] = OnRoot(p)
  <2>1. now.step = "track" BY <1>1, <1>7, <1>9
  <2>2. QED BY <1>1, <1>3, <2>1 DEF StepFits
<1>10. image[p].type = "sym" => OnRoot(p) = Sym(image[p].content, 10 + clock) BY DEF OnRoot
<1> HIDE DEF dst
<1>11. IsRecorded(p, dst) BY <1>1, <1>3, <1>4, <1>5, <1>6, <1>8, <1>9, <1>10 DEF IsRecorded
<1>12. QED BY <1>4, <1>5, <1>11

LEMMA EntryIsNewest ==
    ASSUME Control, Progress, stage = "merging"
    PROVE  /\ version \in Versions /\ Placing /\ entry = Newest /\ entry \in DOMAIN entries
           /\ entries[entry].version = version /\ \A o \in DOMAIN entries : o <= entry
<1>1. version \in Versions /\ version # 0 BY DEF Control, Versions
<1>2. Placing BY <1>1 DEF Placing
<1>3. QED BY <1>1, <1>2 DEF Progress

LEMMA RecordedLine ==
    ASSUME TypeOK, Control, Progress, NEW p, NEW dst, IsRecorded(p, dst)
    PROVE  /\ DOMAIN entries' = DOMAIN entries
           /\ entries'[entry].contents = entries[entry].contents \cup {Line(p, dst)}
           /\ entries'[entry].version = entries[entry].version
           /\ \A e \in DOMAIN entries \ {entry} : entries'[e] = entries[e]
           /\ Line(p, dst).path = p /\ Line(p, dst).type = image[p].type
           /\ image[p].type # "dir" => LineFits(entry, Line(p, dst)) /\ root[Place(dst)].type = image[p].type
           /\ image[p].type = "dir" => LineFits(entry, Line(p, dst))
<1>1. entries' = [entries EXCEPT ![entry].contents = @ \cup {Line(p, dst)}] BY DEF IsRecorded, Record
<1>2. /\ version \in Versions /\ entry = Newest /\ entry \in DOMAIN entries /\ entries[entry].version = version
      /\ \A o \in DOMAIN entries : o <= entry
  BY EntryIsNewest DEF IsRecorded
<1>3. /\ DOMAIN entries' = DOMAIN entries
      /\ entries'[entry].contents = entries[entry].contents \cup {Line(p, dst)}
      /\ entries'[entry].version = entries[entry].version
      /\ \A e \in DOMAIN entries \ {entry} : entries'[e] = entries[e]
  BY <1>1, <1>2 DEF TypeOK
<1> DEFINE l == Line(p, dst)
<1>4. /\ l.path = p /\ l.type = image[p].type /\ l.content = root[Place(dst)].content
      /\ l.mtime = root[Place(dst)].mtime /\ l.volatile = (dst \in setting.volatile)
  BY DEF Line, IsRecorded
<1>5. clock \in Nat /\ DOMAIN entries \subseteq 1..clock BY DEF TypeOK
<1>6. \A o \in DOMAIN entries : ~ (entry < o)
  <2> TAKE o \in DOMAIN entries
  <2>1. o <= entry /\ o \in 1..clock /\ entry \in 1..clock BY <1>2, <1>5
  <2>2. QED BY <1>5, <2>1
<1>7. l.type = "file" => /\ l.content # UserContent /\ l.mtime = FileTime /\ l.mtime > 0
                         /\ setting.preserveMtimes => l.mtime = version
                         /\ ~ setting.preserveMtimes => l.mtime <= 10 + clock
  BY <1>2, <1>4, <1>5 DEF IsRecorded, FileTime, Versions
<1>8. l.type = "sym" => l.mtime <= 10 + clock BY <1>4, <1>5, NodeTypes DEF IsRecorded
<1>9. l.volatile => l.path \in setting.volatile \cup Protected BY <1>4 DEF IsRecorded
<1>10. p \in DOMAIN setting.image[entries[entry].version] /\ l.type = setting.image[entries[entry].version][p].type
  BY <1>2, <1>4 DEF IsRecorded, image
<1>11. LineFits(entry, l)
  <2> HIDE DEF l
  <2>1. QED BY <1>2, <1>4, <1>6, <1>7, <1>8, <1>9, <1>10 DEF LineFits
<1>12. image[p].type # "dir" => root[Place(dst)].type = image[p].type
  BY NodeTypes DEF IsRecorded, Is
<1>13. QED BY <1>3, <1>4, <1>11, <1>12

LEMMA LinesKept ==
    ASSUME TypeOK, LinesFit, setting' = setting, clock' \in Nat, clock <= clock',
           \A e \in DOMAIN entries' : \/ e \in DOMAIN entries /\ entries'[e] = entries[e]
                                      \/ e \notin DOMAIN entries /\ entries'[e].contents = {} /\ e = clock + 1
    PROVE  LinesFit'
<1>1. clock \in Nat /\ \A e \in DOMAIN entries : e \in Nat /\ e <= clock
  <2>1. clock \in Nat /\ DOMAIN entries \subseteq 1..clock BY DEF TypeOK
  <2>2. QED BY <2>1
<1>2. SUFFICES ASSUME NEW e \in DOMAIN entries', NEW l \in entries'[e].contents PROVE LineFits(e, l)'
  BY DEF LinesFit
<1>3. e \in DOMAIN entries /\ entries'[e] = entries[e] OBVIOUS
<1>4. LineFits(e, l) /\ l.mtime \in Nat BY <1>3 DEF LinesFit, TypeOK, Lines
<1>5. ASSUME l.mtime <= 10 + clock /\ \A o \in DOMAIN entries : e < o => l.mtime < 10 + o
      PROVE  l.mtime <= 10 + clock' /\ \A o \in DOMAIN entries' : e < o => l.mtime < 10 + o
  BY <1>1, <1>4, <1>5
<1>6. QED BY <1>3, <1>4, <1>5 DEF LineFits

LEMMA LinesFitRecorded ==
    ASSUME TypeOK, Control, Progress, LinesFit, NEW p, NEW dst, IsRecorded(p, dst)
    PROVE  LinesFit'
<1>1. UNCHANGED <<setting, clock>> BY DEF IsRecorded
<1>2. /\ DOMAIN entries' = DOMAIN entries
      /\ entries'[entry].contents = entries[entry].contents \cup {Line(p, dst)}
      /\ entries'[entry].version = entries[entry].version
      /\ \A e \in DOMAIN entries \ {entry} : entries'[e] = entries[e]
      /\ LineFits(entry, Line(p, dst))
  <2>1. image[p].type = "dir" \/ image[p].type # "dir" OBVIOUS
  <2>2. QED BY <2>1, RecordedLine
<1>3. ASSUME NEW e \in DOMAIN entries', NEW l \in entries'[e].contents PROVE LineFits(e, l)'
  <2>1. entries'[e].version = entries[e].version BY <1>2
  <2>2. LineFits(e, l) BY <1>2 DEF LinesFit
  <2>3. QED BY <1>1, <1>2, <2>1, <2>2 DEF LineFits
<1>4. QED BY <1>3 DEF LinesFit

LEMMA LinesFitStep == IInv /\ Next => LinesFit'
<1> SUFFICES ASSUME IInv, Next PROVE LinesFit' OBVIOUS
<1>0. TypeOK /\ Disk /\ Control /\ Walk /\ StepFits /\ LinesFit /\ Progress BY DEF IInv
<1>a. clock \in Nat BY <1>0 DEF TypeOK
<1>b. ASSUME UNCHANGED <<setting, entries>>, clock' \in {clock, clock + 1} PROVE LinesFit'
  BY <1>0, <1>a, <1>b, LinesKept
<1>1. ASSUME NEW v \in Versions, CheckMerge(v) PROVE LinesFit' BY <1>b, <1>1 DEF CheckMerge
<1>2. CASE BeginMerge
  <2>1. clock' = clock + 1 /\ clock' \in Nat /\ setting' = setting BY <1>2, <1>a DEF BeginMerge
  <2>2. clock + 1 \notin DOMAIN entries
    <3>1. DOMAIN entries \subseteq 1..clock BY <1>0 DEF TypeOK
    <3>2. QED BY <1>a, <3>1
  <2>3. entries' = [e \in DOMAIN entries \cup {clock + 1} |->
                      IF e = clock + 1 THEN [version |-> version, contents |-> {}] ELSE entries[e]]
    BY <1>2 DEF BeginMerge
  <2>4. \A e \in DOMAIN entries' : \/ e \in DOMAIN entries /\ entries'[e] = entries[e]
                                   \/ e \notin DOMAIN entries /\ entries'[e].contents = {} /\ e = clock + 1
    BY <2>2, <2>3
  <2>5. QED BY <1>0, <1>a, <2>1, <2>4, LinesKept
<1>3. ASSUME NEW p \in todo, Skip(p) PROVE LinesFit' BY <1>b, <1>3 DEF Skip
<1>4. ASSUME NEW p \in todo, StartEntry(p) PROVE LinesFit' BY <1>b, <1>4 DEF StartEntry
<1>5. CASE LeaveDirectory BY <1>b, <1>5 DEF LeaveDirectory
<1>6. CASE Unlink BY <1>b, <1>6 DEF Unlink
<1>7. CASE CopyFile BY <1>b, <1>7 DEF CopyFile
<1>8. CASE RenameFile BY <1>b, <1>8 DEF RenameFile
<1>9. CASE InstallSym BY <1>b, <1>9 DEF InstallSym
<1>10. CASE InstallDir BY <1>b, <1>10 DEF InstallDir
<1>12. ASSUME NEW p \in todo, TrackRenamed(p) PROVE LinesFit'
  BY <1>0, <1>12, RenamedIsRecorded, LinesFitRecorded
<1>13. CASE Track BY <1>0, <1>13, TrackIsRecorded, LinesFitRecorded
<1>14. CASE MergeDone BY <1>b, <1>14 DEF MergeDone
<1>15. ASSUME NEW e \in DOMAIN entries, Replace(e) PROVE LinesFit' BY <1>b, <1>15 DEF Replace
<1>16. ASSUME NEW e \in Installed, Uninstall(e) PROVE LinesFit' BY <1>b, <1>16 DEF Uninstall
<1>17. CASE UnmergeEntry BY <1>b, <1>17 DEF UnmergeEntry
<1>18. CASE UnmergeDone
  <2>1. UNCHANGED <<setting, clock>> /\ entries' = Forget(entries, {entry}) BY <1>18 DEF UnmergeDone
  <2>2. QED BY <1>0, <1>a, <2>1, LinesKept DEF Forget
<1>19. CASE InstallDone BY <1>b, <1>19 DEF InstallDone
<1>21. CASE Fail BY <1>b, <1>21 DEF Fail, StopHere
<1>22. CASE Crash BY <1>b, <1>22 DEF Crash, StopHere
<1>23. ASSUME NEW p \in Paths, UserWrites(p) PROVE LinesFit' BY <1>b, <1>23 DEF UserWrites, Edits
<1>24. ASSUME NEW p \in Protected, NEW i \in DOMAIN UpdateNames[p], UserAccepts(p, i) PROVE LinesFit'
  BY <1>b, <1>24 DEF UserAccepts
<1>25. QED
  BY <1>1, <1>2, <1>3, <1>4, <1>5, <1>6, <1>7, <1>8, <1>9, <1>10, <1>12, <1>13, <1>14, <1>15, <1>16, <1>17, <1>18,
     <1>19, <1>21, <1>22, <1>23, <1>24 DEF Next


-----------------------------------------------------------------------------
(* What the user has written.                                              *)

LEMMA UserKept ==
    ASSUME UserFits, DOMAIN user' \subseteq DOMAIN user,
           \A q \in DOMAIN user' :
              /\ user'[q] = user[q] /\ root'[q] = root[q]
              /\ q \in DOMAIN midmerge' => q \in DOMAIN midmerge /\ midmerge'[q] = midmerge[q]
    PROVE  UserFits'
<1>1. \A q \in DOMAIN user' :
        /\ root'[q].type = "file" /\ root'[q].content = user'[q]
        /\ user'[q] = UserContent \/ root'[q].mtime = 0 \/ q \in Protected \cup Updates
  BY DEF UserFits, UserFilesSurvive
<1>2. \A q \in DOMAIN user' \cap DOMAIN midmerge' \cap (Protected \cup Updates) :
        user'[q] = UserContent \/ Len(midmerge'[q]) <= Len(user'[q])
  BY DEF UserFits
<1>3. QED BY <1>1, <1>2 DEF UserFits, UserFilesSurvive

(* A change of one file.                                                   *)
LEMMA UserKeptElsewhere ==
    ASSUME TypeOK, UserFits, midmerge' = midmerge, NEW q \in Paths, NEW n, root' = [root EXCEPT ![q] = n],
           user' = Forget(user, {q}) \/ (user' = user /\ q \notin DOMAIN user)
    PROVE  UserFits'
<1>1. root \in [Paths -> Nodes] BY DEF TypeOK
<1>2. DOMAIN user \subseteq Paths BY DEF TypeOK
<1>3. \A r \in DOMAIN user : r # q => root'[r] = root[r] BY <1>1, <1>2
<1>4. DOMAIN user' \subseteq DOMAIN user /\ \A r \in DOMAIN user' : r # q /\ user'[r] = user[r]
  <2>1. CASE user' = Forget(user, {q}) BY <2>1 DEF Forget
  <2>2. QED BY <2>1
<1>5. QED BY <1>3, <1>4, UserKept

(* What a copy writes over a file of the user's is what is in it, and what *)
(* another copy has left is not longer.                                    *)
LEMMA UserUnderCopy ==
    ASSUME TypeOK, Disk, Control, Walk, StepFits, UserFits, stage = "merging", now.step \in {"install", "rename"},
           image[now.path].type = "file", Place(now.dst) \in DOMAIN user, Place(now.dst) \in Protected \cup Updates
    PROVE  LET q == Place(now.dst)
           IN  /\ user[q] = image[now.path].content /\ user[q] \in Seq(STRING) /\ now.path \in Protected
               /\ q \in DOMAIN midmerge => midmerge[q] \in Seq(STRING) /\ Len(midmerge[q]) <= Len(user[q])
<1> DEFINE q == Place(now.dst)
<1>1. /\ version \in Versions /\ now # Idle /\ q \in Paths /\ now.path \in DOMAIN image
      /\ now.path \notin Protected => q \notin Protected \cup Updates
  BY AtEntry
<1>2. now.path \in Protected BY <1>1
<1>3. root[q].type = "file" /\ root[q].content = user[q] BY DEF UserFits, UserFilesSurvive
<1>4. root[q].content = image[now.path].content BY <1>1, <1>2, <1>3 DEF StepFits
<1>5. setting \in Settings BY DEF TypeOK
<1>6. image[now.path].content # UserContent BY <1>1, <1>5, ImageParts DEF image
<1>7. user[q] \in Seq(STRING) /\ (q \in DOMAIN midmerge => midmerge[q] \in Seq(STRING)) BY DEF TypeOK
<1>8. q \in DOMAIN midmerge => Len(midmerge[q]) <= Len(user[q]) BY <1>3, <1>4, <1>6 DEF UserFits
<1>9. QED BY <1>2, <1>3, <1>4, <1>7, <1>8

LEMMA UserFitsInit == Init => UserFits
<1> SUFFICES ASSUME Init PROVE UserFits OBVIOUS
<1>1. /\ setting \in Settings /\ root = setting.root /\ midmerge = <<>>
      /\ user = [p \in {p \in Paths : root[p].type = "file"} |-> root[p].content]
  BY DEF Init
<1>2. \A p \in DOMAIN user : p \in Paths /\ root[p].type = "file" /\ root[p].content = user[p] BY <1>1
<1>3. \A p \in DOMAIN user : root[p].mtime = 0 BY <1>1, <1>2, InitialRoot
<1>4. DOMAIN midmerge = {} BY <1>1
<1>5. QED BY <1>2, <1>3, <1>4 DEF UserFits, UserFilesSurvive

LEMMA UserFitsStep == IInv /\ Next => UserFits'
<1> SUFFICES ASSUME IInv, Next PROVE UserFits' OBVIOUS
<1>0. TypeOK /\ Disk /\ Control /\ Walk /\ StepFits /\ LinesFit /\ UserFits BY DEF IInv
<1>a. setting \in Settings /\ root \in [Paths -> Nodes] /\ DOMAIN user \subseteq Paths BY <1>0 DEF TypeOK
<1>b. ASSUME UNCHANGED <<root, midmerge, user>> PROVE UserFits' BY <1>0, <1>b, UserKept
<1>c. \A p \in DOMAIN user : root[p].type = "file" /\ root[p].content = user[p]
  BY <1>0 DEF UserFits, UserFilesSurvive
<1>1. ASSUME NEW v \in Versions, CheckMerge(v) PROVE UserFits' BY <1>b, <1>1 DEF CheckMerge
<1>2. CASE BeginMerge BY <1>b, <1>2 DEF BeginMerge
<1>3. ASSUME NEW p \in todo, Skip(p) PROVE UserFits' BY <1>b, <1>3 DEF Skip, observed
<1>4. ASSUME NEW p \in todo, StartEntry(p) PROVE UserFits' BY <1>b, <1>4 DEF StartEntry, observed
<1>5. CASE LeaveDirectory BY <1>b, <1>5 DEF LeaveDirectory, observed
<1>6. CASE Unlink
  <2>1. stage = "merging" /\ now.step = "unlink" BY <1>6 DEF Unlink, Ready
  <2>2. Resolved(now.dst) \in Paths BY <1>0, <2>1, AtEntry
  <2>3. QED BY <1>0, <1>6, <2>2, UserKeptElsewhere DEF Unlink
<1>7. CASE CopyFile
  <2> DEFINE q == Place(now.dst)
             new == image[now.path].content
             old == IF q \in DOMAIN midmerge THEN midmerge[q] ELSE <<>>
  <2>1. stage = "merging" /\ now.step = "install" /\ image[now.path].type = "file" /\ UNCHANGED <<root, user>>
    BY <1>7 DEF CopyFile, Ready
  <2>2. Resolved(now.dst) = q BY <1>0, <2>1, AtEntry
  <2>n. PICK n \in 0..Len(new) : \E w \in Written(SubSeq(new, 1, n)) :
          midmerge' = [p \in DOMAIN midmerge \cup {q} |-> IF p = q THEN Overwritten(w, old) ELSE midmerge[p]]
    BY <1>7, <2>2 DEF CopyFile
  <2>3. PICK w \in Written(SubSeq(new, 1, n)) :
          midmerge' = [p \in DOMAIN midmerge \cup {q} |-> IF p = q THEN Overwritten(w, old) ELSE midmerge[p]]
    BY <2>n
  <2>4. \A p \in DOMAIN midmerge' : p # q => p \in DOMAIN midmerge /\ midmerge'[p] = midmerge[p] BY <2>3
  <2>5. ASSUME q \in DOMAIN user, q \in Protected \cup Updates PROVE Len(midmerge'[q]) <= Len(user[q])
    <3>1. /\ user[q] = new /\ new \in Seq(STRING)
          /\ q \in DOMAIN midmerge => midmerge[q] \in Seq(STRING) /\ Len(midmerge[q]) <= Len(user[q])
      BY <1>0, <2>1, <2>5, UserUnderCopy
    <3>2. <<>> \in Seq(STRING) /\ Len(<<>>) = 0 /\ Len(new) \in Nat BY <3>1
    <3>3. old \in Seq(STRING) /\ Len(old) <= Len(new)
      <4>1. CASE q \in DOMAIN midmerge BY <3>1, <4>1
      <4>2. CASE q \notin DOMAIN midmerge
        <5>1. old = <<>> BY <4>2
        <5> HIDE DEF old
        <5>2. QED BY <3>2, <5>1
      <4>3. QED BY <4>1, <4>2
    <3>4. midmerge'[q] = Overwritten(w, old) BY <2>3
    <3> HIDE DEF old, new
    <3>5. /\ Overwritten(w, old) \in Seq(STRING)
          /\ Len(Overwritten(w, old)) <= Len(new) \/ Len(Overwritten(w, old)) <= Len(old)
      BY <3>1, <3>3, CopyParts
    <3>6. Len(Overwritten(w, old)) \in Nat /\ Len(old) \in Nat BY <3>3, <3>5
    <3>7. QED BY <3>1, <3>2, <3>3, <3>4, <3>5, <3>6
  <2> HIDE DEF q, old, new
  <2>6. QED BY <1>0, <2>1, <2>4, <2>5 DEF UserFits, UserFilesSurvive
<1>8. CASE RenameFile
  <2> DEFINE q == Place(now.dst)
             c == IF setting.rename THEN image[now.path].content ELSE midmerge[q]
  <2>1. /\ stage = "merging" /\ now.step = (IF setting.rename THEN "install" ELSE "rename")
        /\ image[now.path].type = "file"
    BY <1>8 DEF RenameFile, Ready
  <2>2. q \in Paths /\ Resolved(now.dst) = q /\ (now.path \in Protected => q = now.dst) /\ now # Idle
        /\ version \in Versions /\ now.path \in DOMAIN image
    BY <1>0, <2>1, AtEntry
  <2>3. /\ root' = [root EXCEPT ![q] = File(c, FileTime)]
        /\ midmerge' = IF setting.rename THEN midmerge ELSE Forget(midmerge, {q})
        /\ user' = IF now.path \in Protected /\ q \notin cut THEN user ELSE Forget(user, {q})
    BY <1>8, <2>2 DEF RenameFile
  <2>4. \A r \in DOMAIN midmerge' : r \in DOMAIN midmerge /\ midmerge'[r] = midmerge[r] BY <2>3 DEF Forget
  <2>5. \A r \in DOMAIN user' : r \in DOMAIN user /\ user'[r] = user[r] BY <2>3 DEF Forget
  <2>6. \A r \in DOMAIN user' : r # q => root'[r] = root[r] BY <1>a, <2>3, <2>5
  <2>7. CASE q \notin DOMAIN user' BY <1>0, <2>4, <2>5, <2>6, <2>7, UserKept
  <2>8. CASE q \in DOMAIN user'
    <3>1. now.path \in Protected /\ q \notin cut /\ q \in DOMAIN user BY <2>3, <2>8 DEF Forget
    <3>2. q \in Protected \cup Updates
      <4>1. \/ now.dst = now.path
            \/ now.dst \in Updates
        BY <1>0, <2>1, AtEntry
      <4>2. QED BY <2>2, <3>1, <4>1
    <3>3. /\ user[q] = image[now.path].content /\ user[q] \in Seq(STRING)
          /\ q \in DOMAIN midmerge => midmerge[q] \in Seq(STRING) /\ Len(midmerge[q]) <= Len(user[q])
      BY <1>0, <2>1, <3>1, <3>2, UserUnderCopy
    <3>4. c = user[q]
      <4>1. CASE setting.rename BY <3>3, <4>1
      <4>2. CASE ~ setting.rename
        <5>1. q \in DOMAIN midmerge /\ IsPrefix(image[now.path].content, midmerge[q])
          BY <1>0, <2>1, <2>2, <3>1, <4>2 DEF StepFits
        <5>2. midmerge[q] = user[q] BY <3>3, <5>1, PrefixNoLonger
        <5>3. QED BY <4>2, <5>2
      <4>3. QED BY <4>1, <4>2
    <3> HIDE DEF c, q
    <3>5. root'[q].type = "file" /\ root'[q].content = user[q]
      <4>1. root'[q] = File(c, FileTime) BY <1>a, <2>2, <2>3
      <4>2. QED BY <3>4, <4>1, NodeTypes
    <3>6. \A r \in DOMAIN user' :
            /\ root'[r].type = "file" /\ root'[r].content = user'[r]
            /\ user'[r] = UserContent \/ root'[r].mtime = 0 \/ r \in Protected \cup Updates
      <4> TAKE r \in DOMAIN user'
      <4>1. CASE r = q BY <2>5, <3>2, <3>5, <4>1
      <4>2. CASE r # q BY <1>0, <2>5, <2>6, <4>2 DEF UserFits, UserFilesSurvive
      <4>3. QED BY <4>1, <4>2
    <3>7. \A r \in DOMAIN user' \cap DOMAIN midmerge' \cap (Protected \cup Updates) :
            user'[r] = UserContent \/ Len(midmerge'[r]) <= Len(user'[r])
      BY <1>0, <2>4, <2>5 DEF UserFits
    <3>8. QED BY <3>6, <3>7 DEF UserFits, UserFilesSurvive
  <2>9. QED BY <2>7, <2>8
<1>9. CASE InstallSym
  <2>1. stage = "merging" /\ now.step = "install" /\ image[now.path].type = "sym" BY <1>9 DEF InstallSym, Ready
  <2>2. now # Idle /\ Resolved(now.dst) = Place(now.dst) /\ Place(now.dst) \in Paths BY <1>0, <2>1, AtEntry
  <2>3. root[Place(now.dst)] = Nothing BY <1>0, <2>1, <2>2 DEF StepFits
  <2>4. Place(now.dst) \notin DOMAIN user BY <1>c, <2>3, NodeTypes
  <2>5. QED BY <1>0, <1>9, <2>2, <2>4, UserKeptElsewhere DEF InstallSym, observed
<1>10. CASE InstallDir
  <2> DEFINE d == now.path
             new == (Below(d) \cap DOMAIN image) \cup {d}
  <2>1. /\ stage = "merging" /\ now.step = "install" /\ image[d].type = "dir" /\ UNCHANGED <<midmerge, user>>
    BY <1>10 DEF InstallDir, Ready, observed
  <2>2. now # Idle /\ d \in Paths /\ Place(d) = d /\ now.dst = d BY <1>0, <2>1, AtEntry
  <2>3. root[d] = Nothing BY <1>0, <2>1, <2>2 DEF StepFits
  <2>4. \A p \in Below(d) : root[p] = Nothing
    <3>1. TwoLevels BY <1>a, Fit
    <3> TAKE p \in Below(d)
    <3>2. p \in Paths BY DEF Below
    <3>3. Len(p) = 2 /\ Parent(p) = d BY <2>2, <3>1, <3>2, BelowIsChild
    <3>4. root[Parent(p)].type # "dir" BY <2>3, <3>3, NodeTypes
    <3>5. QED BY <1>0, <3>2, <3>3, <3>4 DEF Disk, FileSystem
  <2>5. \A p \in DOMAIN user : p \notin new
    <3> SUFFICES ASSUME NEW p \in DOMAIN user, p \in new PROVE FALSE OBVIOUS
    <3>1. root[p] = Nothing BY <2>3, <2>4
    <3>2. QED BY <1>c, <3>1, NodeTypes
  <2>6. \A p \in DOMAIN user : root'[p] = root[p]
    <3>1. \A p \in Paths : p \notin new => root'[p] = root[p]
      <4>1. CASE setting.rename BY <1>10, <4>1 DEF InstallDir
      <4>2. CASE ~ setting.rename BY <1>10, <1>a, <4>2 DEF InstallDir
      <4>3. QED BY <4>1, <4>2
    <3>2. QED BY <1>a, <2>5, <3>1
  <2>7. QED BY <1>0, <2>1, <2>6, UserKept
<1>12. ASSUME NEW p \in todo, TrackRenamed(p) PROVE UserFits' BY <1>b, <1>12 DEF TrackRenamed
<1>13. CASE Track BY <1>b, <1>13 DEF Track
<1>14. CASE MergeDone BY <1>b, <1>14 DEF MergeDone, observed
<1>15. ASSUME NEW e \in DOMAIN entries, Replace(e) PROVE UserFits' BY <1>b, <1>15 DEF Replace, observed
<1>16. ASSUME NEW e \in Installed, Uninstall(e) PROVE UserFits' BY <1>b, <1>16 DEF Uninstall
<1>17. CASE UnmergeEntry
  <2>1. PICK l \in LastOf(unmerge) :
          IF Removes(l) THEN /\ root' = [root EXCEPT ![Resolved(l.path)] = Nothing]
                             /\ user' = IF l.volatile THEN Forget(user, {Resolved(l.path)}) ELSE user
          ELSE UNCHANGED <<root, user>>
    BY <1>17 DEF UnmergeEntry
  <2>2. stage = "unmerging" /\ midmerge' = midmerge /\ l \in unmerge BY <1>17 DEF UnmergeEntry, LastOf
  <2> DEFINE q == Place(l.path)
  <2>3. /\ l \in Lines /\ LineFits(entry, l) /\ l.path \in Paths /\ l.path \notin Updates
        /\ Resolved(l.path) = q /\ Stat(l.path) = root[q] /\ q \in Paths /\ l.type \in {"file", "sym", "dir"}
    BY <1>0, <2>2, Removed
  <2>4. ASSUME Removes(l), ~ l.volatile PROVE q \notin DOMAIN user
    <3> SUFFICES ASSUME q \in DOMAIN user PROVE FALSE OBVIOUS
    <3>1. root[q].type = "file" /\ root[q].content = user[q] BY <1>c
    <3>2. l.type = "file" BY <2>3, <2>4, <3>1 DEF Removes, CheckSym, CheckDir
    <3>3. l.path \notin Protected /\ root[q].mtime = l.mtime /\ root[q].content = l.content
      BY <2>3, <2>4, <3>2 DEF Removes, CheckFile
    <3>4. l.content # UserContent /\ l.mtime > 0 BY <2>3, <3>2 DEF LineFits
    <3>5. q \notin Protected \cup Updates BY <1>a, <2>3, <3>3, PlaceOfProtected
    <3>6. l.mtime = 0 BY <1>0, <3>1, <3>3, <3>4, <3>5 DEF UserFits
    <3>7. QED BY <3>4, <3>6
  <2>5. CASE Removes(l) BY <1>0, <2>1, <2>2, <2>3, <2>4, <2>5, UserKeptElsewhere
  <2>6. CASE ~ Removes(l) BY <1>b, <2>1, <2>2, <2>6
  <2>7. QED BY <2>5, <2>6
<1>18. CASE UnmergeDone BY <1>b, <1>18 DEF UnmergeDone, observed
<1>19. CASE InstallDone BY <1>b, <1>19 DEF InstallDone
<1>21. CASE Fail BY <1>b, <1>21 DEF Fail, StopHere
<1>22. CASE Crash BY <1>b, <1>22 DEF Crash, StopHere
<1>23. ASSUME NEW p \in Paths, UserWrites(p) PROVE UserFits'
  <2>1. /\ root' = [root EXCEPT ![p] = File(UserContent, 11 + clock)] /\ midmerge' = midmerge
        /\ user' = [q \in DOMAIN user \cup {p} |-> IF q = p THEN UserContent ELSE user[q]]
    BY <1>23 DEF UserWrites, Edits
  <2>2. \A q \in DOMAIN user' : q # p => q \in DOMAIN user /\ user'[q] = user[q] /\ root'[q] = root[q]
    BY <1>a, <2>1
  <2>3. root'[p] = File(UserContent, 11 + clock) /\ user'[p] = UserContent BY <1>a, <2>1
  <2>4. root'[p].type = "file" /\ root'[p].content = UserContent BY <2>3, NodeTypes
  <2>5. \A q \in DOMAIN user' :
          /\ root'[q].type = "file" /\ root'[q].content = user'[q]
          /\ user'[q] = UserContent \/ root'[q].mtime = 0 \/ q \in Protected \cup Updates
    BY <1>0, <2>2, <2>3, <2>4 DEF UserFits, UserFilesSurvive
  <2>6. \A q \in DOMAIN user' \cap DOMAIN midmerge' \cap (Protected \cup Updates) :
          user'[q] = UserContent \/ Len(midmerge'[q]) <= Len(user'[q])
    BY <1>0, <2>1, <2>2, <2>3 DEF UserFits
  <2>7. QED BY <2>5, <2>6 DEF UserFits, UserFilesSurvive
<1>24. ASSUME NEW p \in Protected, NEW i \in DOMAIN UpdateNames[p], UserAccepts(p, i) PROVE UserFits'
  <2> DEFINE u == UpdateNames[p][i]
  <2>1. root' = [root EXCEPT ![p] = root[u], ![u] = Nothing] /\ user' = Forget(user, {p, u}) /\ midmerge' = midmerge
    BY <1>24 DEF UserAccepts
  <2>2. DOMAIN user' = DOMAIN user \ {p, u} /\ \A q \in DOMAIN user' : user'[q] = user[q] BY <2>1 DEF Forget
  <2>3. \A q \in DOMAIN user' : root'[q] = root[q] BY <1>a, <2>1, <2>2
  <2>4. QED BY <1>0, <2>1, <2>2, <2>3, UserKept
<1>25. QED
  BY <1>1, <1>2, <1>3, <1>4, <1>5, <1>6, <1>7, <1>8, <1>9, <1>10, <1>12, <1>13, <1>14, <1>15, <1>16, <1>17, <1>18,
     <1>19, <1>21, <1>22, <1>23, <1>24 DEF Next

-----------------------------------------------------------------------------
(* Everything on the root is listed.                                       *)

LEMMA TrackedKept ==
    ASSUME Tracked, setting' = setting,
           \A q \in Paths : There(q)' =>
              \/ q \in Exempt'
              \/ root'[q] = setting.root[q]
              \/ \E e \in DOMAIN entries' : \E l \in Left(e)' : Matches(l, q)'
              \/ /\ root'[q] = root[q] /\ q \notin Exempt
                 /\ \A e \in DOMAIN entries : \A l \in Left(e) :
                      Matches(l, q) => e \in DOMAIN entries' /\ l \in Left(e)'
    PROVE  Tracked'
<1>1. SUFFICES ASSUME NEW q \in Paths, There(q)', q \notin Exempt', root'[q] # setting.root[q]
               PROVE  \E e \in DOMAIN entries' : \E l \in Left(e)' : Matches(l, q)'
  BY DEF Tracked
<1>2. CASE \E e \in DOMAIN entries' : \E l \in Left(e)' : Matches(l, q)' BY <1>2
<1>3. CASE /\ root'[q] = root[q] /\ q \notin Exempt
           /\ \A e \in DOMAIN entries : \A l \in Left(e) : Matches(l, q) => e \in DOMAIN entries' /\ l \in Left(e)'
  <2>1. There(q) BY <1>1, <1>3 DEF There
  <2>2. PICK e \in DOMAIN entries : \E l \in Left(e) : Matches(l, q) BY <1>1, <1>3, <2>1 DEF Tracked
  <2>3. PICK l \in Left(e) : Matches(l, q) BY <2>2
  <2>4. Matches(l, q)' BY <1>3, <2>3 DEF Matches, Place
  <2>5. QED BY <1>3, <2>2, <2>3, <2>4
<1>4. QED BY <1>1, <1>2, <1>3

(* A step at the entry, which changes what is there.                       *)
LEMMA TrackedElsewhere ==
    ASSUME Tracked, TypeOK, UNCHANGED <<setting, entries, stage, entry, unmerge, stray>>, NEW q \in Paths, NEW n,
           root' = [root EXCEPT ![q] = n], Pending' = Pending, q \in Pending \/ n = Dir,
           DOMAIN user \ {q} \subseteq DOMAIN user'
    PROVE  Tracked'
<1>1. root \in [Paths -> Nodes] BY DEF TypeOK
<1>2. ASSUME NEW e PROVE Left(e)' = Left(e) BY DEF Left
<1>3. ASSUME NEW r \in Paths, There(r)', r \notin Exempt' PROVE root'[r] = root[r] /\ r \notin Exempt
  <2>1. r # q
    <3>1. CASE q \in Pending BY <1>3, <3>1 DEF Exempt
    <3>2. CASE n = Dir BY <1>1, <1>3, <3>2, NodeTypes DEF There
    <3>3. QED BY <1>3, <3>1, <3>2
  <2>2. QED BY <1>1, <1>3, <2>1 DEF Exempt
<1>4. QED BY <1>2, <1>3, TrackedKept

LEMMA TrackedRecorded ==
    ASSUME TypeOK, Disk, Control, Progress, Tracked, NEW p, NEW dst, IsRecorded(p, dst),
           Pending \ {Place(dst)} \subseteq Pending'
    PROVE  Tracked'
<1>1. /\ UNCHANGED <<setting, root, user, stage, entry, unmerge>> /\ stage = "merging" /\ setting \in Settings
      /\ stray' = stray \ {Place(dst)} /\ Resolved(dst) = Place(dst) /\ Stat(dst) = root[Place(dst)]
      /\ p \in Paths /\ p \in DOMAIN image /\ version \in Versions
  BY DEF IsRecorded, Record, TypeOK
<1>2. /\ DOMAIN entries' = DOMAIN entries
      /\ entries'[entry].contents = entries[entry].contents \cup {Line(p, dst)}
      /\ \A e \in DOMAIN entries \ {entry} : entries'[e] = entries[e]
      /\ image[p].type # "dir" => root[Place(dst)].type = image[p].type
  BY RecordedLine
<1>3. entry \in DOMAIN entries BY <1>1, EntryIsNewest
<1>4. \A e : Left(e) = entries[e].contents /\ Left(e)' = entries'[e].contents BY <1>1 DEF Left
<1>5. ASSUME NEW q \in Paths, q # Place(dst), q \notin Exempt' PROVE q \notin Exempt BY <1>1, <1>5 DEF Exempt
<1>6. ASSUME NEW q \in Paths, q = Place(dst), There(q)
      PROVE  \/ q \in Updates
             \/ root[q] = setting.root[q]
             \/ \E e \in DOMAIN entries' : \E l \in Left(e)' : Matches(l, q)'
  <2>1. CASE dst # p
    <3>1. p \in Protected /\ dst \in Range(UpdateNames[p]) BY <2>1 DEF IsRecorded
    <3>2. QED BY <1>1, <1>6, <3>1, UpdateParts
  <2>2. CASE dst = p /\ image[p].type = "dir"
    <3>1. Len(p) = 1 /\ Place(p) = p BY <1>1, <2>2, PlaceParts DEF IsRecorded
    <3>2. Leads(p) BY <2>2 DEF IsRecorded
    <3>3. root[p].type = "sym" BY <1>6, <2>2, <3>1, <3>2 DEF There, Leads
    <3>4. MayLead(p) BY <1>1, <2>2 DEF MayLead, image
    <3>5. QED BY <1>1, <1>6, <2>2, <3>1, <3>3, <3>4 DEF Disk, LinksStay
  <2>3. CASE dst = p /\ image[p].type # "dir"
    <3>1. PICK l : l = Line(p, dst) OBVIOUS
    <3>2. Matches(l, q)' BY <1>1, <1>2, <1>6, <2>3, <3>1 DEF Matches, Line, Place
    <3>3. QED BY <1>2, <1>3, <1>4, <3>1, <3>2
  <2>4. QED BY <2>1, <2>2, <2>3
<1>7. \A q \in Paths : There(q)' => There(q) BY <1>1 DEF There
<1>8. \A q \in Updates : q \in Exempt' BY DEF Exempt
<1>9. QED BY <1>1, <1>2, <1>4, <1>5, <1>6, <1>7, <1>8, TrackedKept

LEMMA PendingIsUnderWay ==
    ASSUME TypeOK, Disk, Control, Walk, StepFits
    PROVE  Pending \subseteq UnderWay
<1>1. CASE now = Idle BY <1>1 DEF Pending
<1>2. CASE now # Idle
  <2>1. stage = "merging" BY <1>2 DEF Control
  <2>2. now.step # "none" BY <1>2, <2>1 DEF Walk
  <2>3. CASE now.step = "renamed"
    <3>1. \A p \in Below(now.path) \cap todo : Place(p) = p BY <2>1, <2>3, RenamedParts
    <3>2. setting \in Settings BY DEF TypeOK
    <3>3. \A p \in Below(now.path) \cap todo : Resolved(p) = p
      <4> TAKE p \in Below(now.path) \cap todo
      <4>1. p \in Paths BY DEF Below
      <4>2. QED BY <3>1, <3>2, <4>1, ResolvedIsPlace DEF Disk
    <3>4. QED BY <1>2, <2>3, <3>3 DEF Pending, UnderWay
  <2>4. CASE now.step # "renamed"
    <3>1. Resolved(now.dst) = Place(now.dst) BY <2>1, <2>2, AtEntry
    <3>2. QED BY <1>2, <2>4, <3>1 DEF Pending, UnderWay
  <2>5. QED BY <2>3, <2>4
<1>3. QED BY <1>1, <1>2

LEMMA TrackedInit == Init => Tracked
BY DEF Init, Tracked

LEMMA TrackedStep == IInv /\ Next => Tracked'
<1> SUFFICES ASSUME IInv, Next PROVE Tracked' OBVIOUS
<1>0. TypeOK /\ Disk /\ Control /\ Walk /\ StepFits /\ LinesFit /\ UserFits /\ Tracked /\ Progress /\ Placed
  BY DEF IInv
<1>a. setting \in Settings /\ root \in [Paths -> Nodes] /\ DOMAIN user \subseteq Paths /\ todo \subseteq Paths
      /\ clock \in Nat
  BY <1>0 DEF TypeOK
<1>b. ASSUME UNCHANGED <<setting, root, user, stray>>, Pending \subseteq Pending',
             \A e \in DOMAIN entries : e \in DOMAIN entries' /\ Left(e) \subseteq Left(e)'
      PROVE  Tracked'
  <2>1. \A q \in Paths : q \notin Exempt' => q \notin Exempt BY <1>b DEF Exempt
  <2>2. \A q \in Paths : There(q)' => There(q) BY <1>b DEF There
  <2>3. QED BY <1>0, <1>b, <2>1, <2>2, TrackedKept
<1>c. ASSUME UNCHANGED <<setting, root, user, stray, entries>>, now = Idle \/ Pending \subseteq Pending',
             stage = "unmerging" => stage' = "unmerging" /\ UNCHANGED <<entry, unmerge>>,
             stage' = "unmerging" => UNCHANGED <<stage, entry, unmerge>> \/ unmerge' = entries[entry'].contents
      PROVE  Tracked'
  <2>1. Pending \subseteq Pending' BY <1>c DEF Pending
  <2>2. \A e \in DOMAIN entries : e \in DOMAIN entries' /\ Left(e) \subseteq Left(e)' BY <1>c DEF Left
  <2>3. QED BY <1>b, <1>c, <2>1, <2>2
<1>1. ASSUME NEW v \in Versions, CheckMerge(v) PROVE Tracked'
  <2>1. UNCHANGED <<setting, root, user, stray, entries, now>> /\ stage = "idle" /\ stage' = "checked"
    BY <1>1 DEF CheckMerge, merging
  <2>2. now = Idle BY <1>0, <2>1 DEF Control
  <2>3. QED BY <1>c, <2>1, <2>2
<1>2. CASE BeginMerge
  <2>1. UNCHANGED <<setting, root, user, stray>> /\ stage = "checked" /\ stage' = "merging"
    BY <1>2 DEF BeginMerge
  <2>2. now = Idle BY <1>0, <2>1 DEF Control
  <2>3. DOMAIN entries \subseteq 1..clock BY <1>0 DEF TypeOK
  <2>4. \A e \in DOMAIN entries : e # clock + 1 BY <1>a, <2>3
  <2>5. \A e \in DOMAIN entries : e \in DOMAIN entries' /\ entries'[e] = entries[e]
    BY <1>2, <2>4 DEF BeginMerge
  <2>6. \A e \in DOMAIN entries : Left(e) \subseteq Left(e)' BY <2>1, <2>5 DEF Left
  <2>7. Pending \subseteq Pending' BY <2>2 DEF Pending
  <2>8. QED BY <1>b, <2>1, <2>5, <2>6, <2>7
<1>3. ASSUME NEW p \in todo, Skip(p) PROVE Tracked' BY <1>c, <1>3 DEF Skip, IsNext, observed
<1>4. ASSUME NEW p \in todo, StartEntry(p) PROVE Tracked' BY <1>c, <1>4 DEF StartEntry, IsNext, observed
<1>5. CASE LeaveDirectory BY <1>c, <1>5 DEF LeaveDirectory, observed
<1>6. CASE Unlink
  <2>1. /\ stage = "merging" /\ now.step = "unlink" /\ image[now.path].type \in {"sym", "file"}
        /\ now' = [now EXCEPT !.step = "install"]
        /\ UNCHANGED <<setting, version, entries, stage, entry, unmerge, stray, todo>>
    BY <1>6 DEF Unlink, Ready
  <2>2. now # Idle /\ Resolved(now.dst) = Place(now.dst) /\ Place(now.dst) \in Paths BY <1>0, <2>1, AtEntry
  <2>3. /\ root' = [root EXCEPT ![Place(now.dst)] = Nothing]
        /\ DOMAIN user \ {Place(now.dst)} \subseteq DOMAIN user'
    BY <1>6, <2>2 DEF Unlink, Forget
  <2>4. now'.path = now.path /\ now'.dst = now.dst /\ now'.step = "install" /\ now' # Idle
    BY <1>0, <2>1 DEF TypeOK, Idle
  <2>5. image' = image BY <2>1 DEF image
  <2>6. Pending = {Place(now.dst)} BY <2>1, <2>2 DEF Pending
  <2>7. Pending' = {Place(now.dst)} BY <2>1, <2>4, <2>5 DEF Pending, Place
  <2>8. QED BY <1>0, <2>1, <2>2, <2>3, <2>6, <2>7, TrackedElsewhere
<1>7. CASE CopyFile
  <2>1. /\ stage = "merging" /\ now.step = "install" /\ image[now.path].type = "file"
        /\ \E n \in 0..Len(image[now.path].content) :
              now' = [now EXCEPT !.step = IF n = Len(image[now.path].content) THEN "rename" ELSE "failed"]
        /\ UNCHANGED <<setting, version, entries, stage, entry, unmerge, stray, todo, root, user>>
    BY <1>7 DEF CopyFile, Ready
  <2>2. now # Idle BY <1>0, <2>1, AtEntry
  <2>3. now'.path = now.path /\ now'.dst = now.dst /\ now'.step \in {"rename", "failed"} /\ now' # Idle
    BY <1>0, <2>1 DEF TypeOK, Idle
  <2>4. image' = image BY <2>1 DEF image
  <2>5. Pending = {Place(now.dst)} BY <2>1, <2>2 DEF Pending
  <2>6. Pending' = {Place(now.dst)} BY <2>1, <2>3, <2>4 DEF Pending, Place
  <2>7. QED BY <1>c, <2>1, <2>5, <2>6
<1>8. CASE RenameFile
  <2>1. /\ stage = "merging" /\ now.step \in {"install", "rename"} /\ image[now.path].type = "file"
        /\ now' = [now EXCEPT !.step = "track"]
        /\ UNCHANGED <<setting, version, entries, stage, entry, unmerge, stray, todo>>
    BY <1>8 DEF RenameFile, Ready
  <2>2. now # Idle /\ Resolved(now.dst) = Place(now.dst) /\ Place(now.dst) \in Paths BY <1>0, <2>1, AtEntry
  <2>3. DOMAIN user \ {Place(now.dst)} \subseteq DOMAIN user' BY <1>8, <2>2 DEF RenameFile, Forget
  <2>4. now'.path = now.path /\ now'.dst = now.dst /\ now'.step = "track" /\ now' # Idle
    BY <1>0, <2>1 DEF TypeOK, Idle
  <2>5. image' = image BY <2>1 DEF image
  <2>6. Pending = {Place(now.dst)} BY <2>1, <2>2 DEF Pending
  <2>7. Pending' = {Place(now.dst)} BY <2>1, <2>4, <2>5 DEF Pending, Place
  <2>8. PICK n : root' = [root EXCEPT ![Place(now.dst)] = n] BY <1>8, <2>2 DEF RenameFile
  <2>9. QED BY <1>0, <2>1, <2>2, <2>3, <2>6, <2>7, <2>8, TrackedElsewhere
<1>9. CASE InstallSym
  <2>1. /\ stage = "merging" /\ now.step = "install" /\ image[now.path].type = "sym"
        /\ now' = [now EXCEPT !.step = "track"]
        /\ UNCHANGED <<setting, version, entries, stage, entry, unmerge, stray, todo, user>>
    BY <1>9 DEF InstallSym, Ready, observed
  <2>2. now # Idle /\ Resolved(now.dst) = Place(now.dst) /\ Place(now.dst) \in Paths BY <1>0, <2>1, AtEntry
  <2>3. now'.path = now.path /\ now'.dst = now.dst /\ now'.step = "track" /\ now' # Idle
    BY <1>0, <2>1 DEF TypeOK, Idle
  <2>4. image' = image BY <2>1 DEF image
  <2>5. Pending = {Place(now.dst)} BY <2>1, <2>2 DEF Pending
  <2>6. Pending' = {Place(now.dst)} BY <2>1, <2>3, <2>4 DEF Pending, Place
  <2>7. PICK n : root' = [root EXCEPT ![Place(now.dst)] = n] BY <1>9, <2>2 DEF InstallSym
  <2>8. QED BY <1>0, <2>1, <2>2, <2>5, <2>6, <2>7, TrackedElsewhere
<1>10. CASE InstallDir
  <2> DEFINE d == now.path
             inside == Below(d) \cap DOMAIN image
  <2>1. /\ stage = "merging" /\ now.step = "install" /\ image[d].type = "dir"
        /\ now' = [now EXCEPT !.step = IF setting.rename THEN "renamed" ELSE "track"]
        /\ UNCHANGED <<setting, version, entries, stage, entry, unmerge, stray, todo, user>>
    BY <1>10 DEF InstallDir, Ready, observed
  <2>2. now # Idle /\ d \in Paths /\ d \in todo BY <1>0, <2>1, AtEntry
  <2>3. now'.path = d /\ now'.step = (IF setting.rename THEN "renamed" ELSE "track") /\ now' # Idle
    BY <1>0, <2>1 DEF TypeOK, Idle
  <2>4. image' = image BY <2>1 DEF image
  <2>5. Pending = {} BY <2>1, <2>2 DEF Pending
  <2>6. CASE ~ setting.rename
    <3>1. root' = [root EXCEPT ![d] = Dir] BY <1>10, <2>6 DEF InstallDir
    <3>2. Pending' = {} BY <2>1, <2>3, <2>4, <2>6 DEF Pending
    <3>3. QED BY <1>0, <2>1, <2>2, <2>5, <3>1, <3>2, TrackedElsewhere
  <2>7. CASE setting.rename
    <3>1. /\ \A r \in Paths : r \notin inside \cup {d} => root'[r] = root[r]
          /\ root'[d] = OnRoot(d)
      BY <1>10, <2>2, <2>7 DEF InstallDir, OnRoot
    <3>2. root'[d].type = "dir" BY <2>1, <3>1, NodeTypes DEF OnRoot
    <3>3. Pending' = todo \cap Below(d) BY <2>1, <2>3, <2>7 DEF Pending
    <3>4. inside \subseteq todo BY <1>0, <2>1, <2>2 DEF Walk
    <3>5. \A q \in Paths : There(q)' /\ q \notin Exempt' => root'[q] = root[q] /\ q \notin Exempt
      <4> SUFFICES ASSUME NEW q \in Paths, There(q)', q \notin Exempt' PROVE root'[q] = root[q] /\ q \notin Exempt
        OBVIOUS
      <4>1. q # d BY <3>2 DEF There
      <4>2. q \notin inside BY <3>3, <3>4 DEF Exempt
      <4>3. QED BY <2>1, <2>5, <3>1, <4>1, <4>2 DEF Exempt
    <3>6. \A e : Left(e)' = Left(e) BY <2>1 DEF Left
    <3>7. QED BY <1>0, <2>1, <3>5, <3>6, TrackedKept
  <2>8. QED BY <2>6, <2>7
<1>12. ASSUME NEW p \in todo, TrackRenamed(p) PROVE Tracked'
  <2>1. /\ stage = "merging" /\ now.step = "renamed" /\ p \in Below(now.path) /\ now' = now
        /\ todo' = todo \ {p}
    BY <1>12 DEF TrackRenamed, Ready, Record
  <2>2. IsRecorded(p, p) /\ Place(p) = p BY <1>0, <1>12, <2>1, RenamedIsRecorded, RenamedParts
  <2>3. now # Idle BY <2>1 DEF Idle
  <2>4. Pending = todo \cap Below(now.path) /\ Pending' = (todo \ {p}) \cap Below(now.path)
    BY <2>1, <2>3 DEF Pending
  <2>5. QED BY <1>0, <2>2, <2>4, TrackedRecorded
<1>13. CASE Track
  <2>1. PICK dst \in Paths : IsRecorded(now.path, dst) /\ (image[now.path].type # "dir" => dst = now.dst)
    BY <1>0, <1>13, TrackIsRecorded
  <2>2. \/ stage = "merging" /\ now.step = "track"
        \/ stage = "merging" /\ now.step = "renamed" /\ todo \cap Below(now.path) = {}
    BY <1>13 DEF Track, Ready
  <2>3. Pending \subseteq {Place(dst)} BY <2>1, <2>2 DEF Pending
  <2>4. QED BY <1>0, <2>1, <2>3, TrackedRecorded
<1>14. CASE MergeDone BY <1>c, <1>14 DEF MergeDone, observed
<1>15. ASSUME NEW e \in DOMAIN entries, Replace(e) PROVE Tracked'
  <2>1. /\ UNCHANGED <<setting, root, user, stray, entries, now>> /\ stage \in {"overwriting", "replacing"}
        /\ entry' = e /\ unmerge' = entries[e].contents
    BY <1>15 DEF Replace, observed, merging
  <2>2. now = Idle BY <1>0, <2>1 DEF Control
  <2>3. QED BY <1>c, <2>1, <2>2
<1>16. ASSUME NEW e \in Installed, Uninstall(e) PROVE Tracked'
  <2>1. /\ UNCHANGED <<setting, root, user, stray, entries, now>> /\ stage = "idle"
        /\ entry' = e /\ unmerge' = entries[e].contents
    BY <1>16 DEF Uninstall
  <2>2. now = Idle BY <1>0, <2>1 DEF Control
  <2>3. QED BY <1>c, <2>1, <2>2
<1>17. CASE UnmergeEntry
  <2>1. PICK l \in LastOf(unmerge) :
          /\ IF Removes(l) THEN /\ root' = [root EXCEPT ![Resolved(l.path)] = Nothing]
                                /\ user' = IF l.volatile THEN Forget(user, {Resolved(l.path)}) ELSE user
             ELSE UNCHANGED <<root, user>>
          /\ unmerge' = unmerge \ {l}
    BY <1>17 DEF UnmergeEntry
  <2>2. stage = "unmerging" /\ l \in unmerge /\ UNCHANGED <<setting, entries, stage, entry, stray, now>>
    BY <1>17 DEF UnmergeEntry, LastOf, merging
  <2> DEFINE p == l.path
  <2>p. Place(p) \in Paths BY <1>0, <2>2, Removed
  <2>q. PICK q \in Paths : q = Place(p) BY <2>p
  <2>3. /\ l \in Lines /\ LineFits(entry, l) /\ p \in Paths /\ p \notin Updates /\ entry \in DOMAIN entries
        /\ Resolved(p) = q /\ Stat(p) = root[q] /\ l.type \in {"file", "sym", "dir"} /\ Place(p) = q
    BY <1>0, <2>2, <2>q, Removed
  <2>4. now = Idle BY <1>0, <2>2 DEF Control
  <2>5. Pending = {} /\ Pending' = {} BY <2>2, <2>4 DEF Pending
  <2>6. /\ \A e : e # entry => Left(e) = entries[e].contents /\ Left(e)' = entries[e].contents
        /\ Left(entry) = unmerge /\ Left(entry)' = unmerge \ {l}
    BY <2>1, <2>2 DEF Left
  <2>7. \A r \in Paths : r # q => ~ Matches(l, r) BY <2>3 DEF Matches
  <2>8. \A r \in Paths : r # q => root'[r] = root[r] /\ (r \in Exempt => r \in Exempt')
    <3>1. CASE Removes(l) BY <1>a, <2>1, <2>2, <2>3, <2>5, <3>1 DEF Exempt, Forget
    <3>2. CASE ~ Removes(l) BY <2>1, <2>2, <2>5, <3>2 DEF Exempt
    <3>3. QED BY <3>1, <3>2
  <2>9. ASSUME NEW r \in Paths, r # q
        PROVE  /\ root'[r] = root[r] /\ (r \notin Exempt' => r \notin Exempt)
               /\ \A e \in DOMAIN entries : \A o \in Left(e) : Matches(o, r) => e \in DOMAIN entries' /\ o \in Left(e)'
    BY <2>2, <2>6, <2>7, <2>8, <2>9
  <2>10. CASE Removes(l)
    <3>1. root'[q] = Nothing BY <1>a, <2>1, <2>3, <2>10
    <3>2. ~ There(q)' BY <3>1, NodeTypes DEF There
    <3>3. QED BY <1>0, <2>2, <2>9, <3>2, TrackedKept
  <2>11. CASE ~ Removes(l)
    <3>1. UNCHANGED <<root, user>> BY <2>1, <2>11
    <3>2. Exempt' = Exempt BY <2>2, <2>5, <3>1 DEF Exempt
    <3>3. ASSUME There(q), Matches(l, q), q \notin Exempt
          PROVE  \E e \in DOMAIN entries' : \E o \in Left(e)' : Matches(o, q)'
      <4>1. l.type = root[q].type /\ l.content = root[q].content /\ l.mtime = root[q].mtime /\ l.type \in {"file", "sym"}
        BY <3>3 DEF Matches, There
      <4>2. p \notin Protected BY <1>a, <2>3, <3>3, PlaceOfProtected DEF Exempt
      <4>3. p \in merged
        <5>1. l.type = "file" => CheckFile(l) BY <2>3, <4>1, <4>2 DEF CheckFile
        <5>2. l.type = "sym" => CheckSym(l) BY <2>3, <4>1 DEF CheckSym
        <5>3. QED BY <2>11, <4>1, <5>1, <5>2 DEF Removes
      <4>4. Placing /\ version \in Versions
        <5>1. version # 0 BY <1>0, <2>2, <4>3 DEF Control
        <5>2. version \in {0} \cup Versions BY <1>0 DEF TypeOK
        <5>3. QED BY <2>2, <5>1, <5>2 DEF Placing
      <4>5. /\ p \in Listed /\ Newest \in DOMAIN entries /\ Newest # entry
            /\ entries[Newest].version = version
        BY <1>0, <2>2, <2>3, <4>3, <4>4 DEF Progress
      <4>6. p \in DOMAIN image
        <5>1. PICK o \in entries[Newest].contents : o.path = p BY <4>5 DEF Listed
        <5>2. LineFits(Newest, o) BY <1>0, <4>5, <5>1 DEF LinesFit
        <5>3. QED BY <4>5, <5>1, <5>2 DEF LineFits, image
      <4>7. image[p].type # "dir"
        <5>1. /\ p \in DOMAIN setting.image[entries[entry].version]
              /\ setting.image[entries[entry].version][p].type # "dir"
          BY <2>3, <4>1 DEF LineFits
        <5>2. entries[entry].version \in Versions BY <1>0, <2>3 DEF TypeOK
        <5>3. QED BY <1>a, <4>4, <4>6, <5>1, <5>2, NoDirectory DEF image
      <4>8. IsListed(p) BY <1>0, <4>2, <4>4, <4>5, <4>7 DEF Placed, IsPlaced
      <4>9. PICK o \in entries[Newest].contents : Matches(o, q) BY <2>3, <3>3, <4>8 DEF IsListed, Exempt
      <4>10. PICK e \in DOMAIN entries : e = Newest BY <4>5
      <4>11. o \in Left(e)' /\ e \in DOMAIN entries' BY <2>2, <2>6, <4>5, <4>9, <4>10
      <4>12. Matches(o, q)' BY <2>2, <3>1, <4>9 DEF Matches, Place
      <4>13. QED BY <4>11, <4>12
    <3>4. There(q)' => There(q) BY <3>1 DEF There
    <3>5. q \notin Exempt' /\ There(q)' =>
            \/ \E e \in DOMAIN entries' : \E o \in Left(e)' : Matches(o, q)'
            \/ /\ root'[q] = root[q] /\ q \notin Exempt
               /\ \A e \in DOMAIN entries : \A o \in Left(e) : Matches(o, q) => e \in DOMAIN entries' /\ o \in Left(e)'
      <4>1. CASE Matches(l, q) BY <3>2, <3>3, <3>4, <4>1
      <4>2. CASE ~ Matches(l, q) BY <2>2, <2>6, <3>1, <3>2, <4>2
      <4>3. QED BY <4>1, <4>2
    <3>6. QED BY <1>0, <2>2, <2>9, <3>5, TrackedKept
  <2>12. QED BY <2>10, <2>11
<1>18. CASE UnmergeDone
  <2>1. /\ UNCHANGED <<setting, root, user, stray, now>> /\ stage = "unmerging" /\ stage' # "unmerging"
        /\ entries' = Forget(entries, {entry}) /\ unmerge = {}
    BY <1>18 DEF UnmergeDone, merging, observed
  <2>2. now = Idle BY <1>0, <2>1 DEF Control
  <2>3. Exempt' = Exempt BY <2>1, <2>2 DEF Exempt, Pending
  <2>4. /\ Left(entry) = {}
        /\ \A e \in DOMAIN entries \ {entry} : e \in DOMAIN entries' /\ Left(e)' = Left(e)
    BY <2>1 DEF Left, Forget
  <2>5. \A e \in DOMAIN entries : \A l \in Left(e) : e \in DOMAIN entries' /\ l \in Left(e)' BY <2>4
  <2>6. QED BY <1>0, <2>1, <2>3, <2>5, TrackedKept
<1>19. CASE InstallDone
  <2>1. /\ UNCHANGED <<setting, root, user, stray, entries, now>> /\ stage \in {"overwriting", "replacing"}
        /\ stage' = "idle"
    BY <1>19 DEF InstallDone, merging
  <2>2. now = Idle BY <1>0, <2>1 DEF Control
  <2>3. QED BY <1>c, <2>1, <2>2
<1>20. ASSUME StopHere PROVE Tracked'
  <2>1. /\ UNCHANGED <<setting, root, user, entries>> /\ stage' = "idle" /\ stray' = stray \cup UnderWay
    BY <1>20 DEF StopHere
  <2>2. Pending \subseteq UnderWay BY <1>0, PendingIsUnderWay
  <2>3. \A q \in Paths : q \notin Exempt' => q \notin Exempt BY <2>1, <2>2 DEF Exempt
  <2>4. \A e \in DOMAIN entries : Left(e) \subseteq Left(e)'
    <3>1. \A e : Left(e)' = entries[e].contents BY <2>1 DEF Left
    <3>2. \A e \in DOMAIN entries : Left(e) \subseteq entries[e].contents BY <1>0 DEF Left, Control
    <3>3. QED BY <3>1, <3>2
  <2>5. QED BY <1>0, <2>1, <2>3, <2>4, TrackedKept
<1>21. CASE Fail BY <1>20, <1>21 DEF Fail
<1>22. CASE Crash BY <1>20, <1>22 DEF Crash
<1>23. ASSUME NEW p \in Paths, UserWrites(p) PROVE Tracked'
  <2>1. /\ root' = [root EXCEPT ![p] = File(UserContent, 11 + clock)] /\ now = Idle
        /\ user' = [q \in DOMAIN user \cup {p} |-> IF q = p THEN UserContent ELSE user[q]]
        /\ UNCHANGED <<setting, entries, stage, entry, unmerge, stray, now>>
    BY <1>23 DEF UserWrites, Edits, merging
  <2>2. \A q \in Paths : q \notin Exempt' => q \notin Exempt /\ q # p BY <2>1 DEF Exempt, Pending
  <2>3. \A q \in Paths : q # p => root'[q] = root[q] BY <1>a, <2>1
  <2>4. \A e : Left(e)' = Left(e) BY <2>1 DEF Left
  <2>5. QED BY <1>0, <2>1, <2>2, <2>3, <2>4, TrackedKept
<1>24. ASSUME NEW p \in Protected, NEW i \in DOMAIN UpdateNames[p], UserAccepts(p, i) PROVE Tracked'
  <2> DEFINE u == UpdateNames[p][i]
  <2>1. /\ root' = [root EXCEPT ![p] = root[u], ![u] = Nothing] /\ user' = Forget(user, {p, u}) /\ now = Idle
        /\ UNCHANGED <<setting, entries, stage, entry, unmerge, stray, now>>
    BY <1>24 DEF UserAccepts, merging
  <2>2. u \in Updates BY DEF Updates, Range
  <2>3. \A q \in Paths : q \notin Exempt' => q \notin Exempt /\ q \notin {p, u}
    BY <2>1, <2>2 DEF Exempt, Pending, Forget
  <2>4. \A q \in Paths : q \notin {p, u} => root'[q] = root[q] BY <1>a, <2>1
  <2>5. \A e : Left(e)' = Left(e) BY <2>1 DEF Left
  <2>6. QED BY <1>0, <2>1, <2>3, <2>4, <2>5, TrackedKept
<1>25. QED
  BY <1>1, <1>2, <1>3, <1>4, <1>5, <1>6, <1>7, <1>8, <1>9, <1>10, <1>12, <1>13, <1>14, <1>15, <1>16, <1>17, <1>18,
     <1>19, <1>21, <1>22, <1>23, <1>24 DEF Next

-----------------------------------------------------------------------------
(* How far the installation of a version has come.                         *)

LEMMA Greatest ==
    ASSUME NEW S, S \subseteq Nat, NEW n \in S, \A o \in S : o <= n
    PROVE  (CHOOSE e \in S : \A o \in S : o <= e) = n
<1> DEFINE max == CHOOSE e \in S : \A o \in S : o <= e
<1>1. max \in S /\ \A o \in S : o <= max OBVIOUS
<1>2. max <= n /\ n <= max BY <1>1
<1>3. max \in Nat /\ n \in Nat BY <1>1
<1> HIDE DEF max
<1>4. max = n BY <1>2, <1>3
<1>5. QED BY <1>4 DEF max

LEMMA EntriesAreNat == TypeOK => DOMAIN entries \subseteq Nat /\ clock \in Nat
<1> SUFFICES ASSUME TypeOK PROVE DOMAIN entries \subseteq Nat /\ clock \in Nat OBVIOUS
<1>1. DOMAIN entries \subseteq 1..clock /\ clock \in Nat BY DEF TypeOK
<1>2. QED BY <1>1

LEMMA NewestStays ==
    ASSUME TypeOK, TypeOK', NEW n \in DOMAIN entries', n = Newest, Newest \in DOMAIN entries,
           \A o \in DOMAIN entries : o <= Newest, DOMAIN entries' \subseteq DOMAIN entries
    PROVE  Newest' = n
<1>1. DOMAIN entries' \subseteq Nat BY EntriesAreNat
<1>2. \A o \in DOMAIN entries' : o <= n OBVIOUS
<1>3. QED BY <1>1, <1>2, Greatest DEF Newest

LEMMA ProgressKept ==
    ASSUME Progress, UNCHANGED <<setting, version, entries, todo, merged, unseen>>,
           Placing' => /\ Placing
                       /\ IF stage' = "unmerging" THEN entry' # Newest ELSE entry' = Newest
                       /\ stage' # "merging" => indexed'
                       /\ complete' # 0 => DOMAIN entries = unseen \cup {Newest}
    PROVE  Progress'
<1>1. Newest' = Newest /\ Listed' = Listed /\ image' = image BY DEF Newest, Listed, image
<1>2. \A p : Wanted(p)' = Wanted(p) BY DEF Wanted
<1>3. \A p : Wanted(Parent(p))' = Wanted(Parent(p)) BY DEF Wanted
<1>4. QED BY <1>1, <1>2, <1>3 DEF Progress

LEMMA ProgressRecorded ==
    ASSUME TypeOK, TypeOK', Control, Progress, NEW p, NEW dst, IsRecorded(p, dst)
    PROVE  Progress'
<1>1. /\ UNCHANGED <<setting, stage, version, complete, indexed, unseen, entry>> /\ stage = "merging"
      /\ todo' = todo \ {p} /\ merged' = merged \cup {dst} /\ setting \in Settings
      /\ Wanted(p) \/ (setting.rename /\ Wanted(Parent(p)))
      /\ \/ dst = p
         \/ image[p].type = "file" /\ p \in Protected /\ dst \in Range(UpdateNames[p])
  BY DEF IsRecorded, Record, TypeOK, index
<1>2. /\ Placing /\ entry = Newest /\ entry \in DOMAIN entries /\ entries[entry].version = version
      /\ \A o \in DOMAIN entries : o <= entry
  BY <1>1, EntryIsNewest
<1>3. /\ DOMAIN entries' = DOMAIN entries
      /\ entries'[entry].contents = entries[entry].contents \cup {Line(p, dst)}
      /\ entries'[entry].version = entries[entry].version /\ Line(p, dst).path = p
  BY RecordedLine
<1>4. Newest' = entry BY <1>2, <1>3, NewestStays
<1>5. Listed' = Listed \cup {p}
  <2>1. Listed = {l.path : l \in entries[entry].contents} BY <1>2 DEF Listed
  <2>2. Listed' = {l.path : l \in entries'[entry].contents} BY <1>1, <1>4 DEF Listed
  <2>3. QED BY <1>3, <2>1, <2>2
<1>6. image' = image BY <1>1 DEF image
<1>7. \A q : Wanted(q)' = Wanted(q) BY <1>1 DEF Wanted
<1>8. \A q : Wanted(Parent(q))' = Wanted(Parent(q)) BY <1>1 DEF Wanted
<1>9. dst = p \/ dst \in Updates BY <1>1 DEF Updates
<1>10. /\ Newest \notin unseen /\ complete # 0 => DOMAIN entries = unseen \cup {Newest}
       /\ \A q \in DOMAIN image : Wanted(q) => q \in todo \cup Listed
       /\ \A q \in Listed :
             /\ q \notin todo
             /\ Wanted(q) \/ (setting.rename /\ Wanted(Parent(q)))
             /\ q \in merged \/ (q \in Protected /\ image[q].type = "file")
       /\ merged \subseteq Listed \cup Updates
  BY <1>2 DEF Progress
<1>11. \A q \in Listed' :
         /\ q \notin todo'
         /\ Wanted(q)' \/ (setting'.rename /\ Wanted(Parent(q))')
         /\ q \in merged' \/ (q \in Protected /\ image'[q].type = "file")
  <2> SUFFICES ASSUME NEW q \in Listed'
               PROVE  /\ q \notin todo'
                      /\ Wanted(q) \/ (setting.rename /\ Wanted(Parent(q)))
                      /\ q \in merged' \/ (q \in Protected /\ image[q].type = "file")
    BY <1>1, <1>6, <1>7, <1>8
  <2>1. CASE q = p BY <1>1, <2>1
  <2>2. CASE q # p BY <1>1, <1>5, <1>10, <2>2
  <2>3. QED BY <2>1, <2>2
<1>12. \A q \in DOMAIN image' : Wanted(q)' => q \in todo' \cup Listed' BY <1>1, <1>5, <1>6, <1>7, <1>10
<1>13. merged' \subseteq Listed' \cup Updates BY <1>1, <1>5, <1>9, <1>10
<1>14. QED BY <1>1, <1>2, <1>3, <1>4, <1>10, <1>11, <1>12, <1>13 DEF Progress

LEMMA ProgressStep == IInv /\ Next => Progress'
<1> SUFFICES ASSUME IInv, Next PROVE Progress' OBVIOUS
<1>0. TypeOK /\ Disk /\ Control /\ Walk /\ StepFits /\ Progress BY DEF IInv
<1>t. TypeOK' BY TypeStep
<1>a. setting \in Settings /\ version \in {0} \cup Versions /\ clock \in Nat /\ unseen \subseteq DOMAIN entries
  BY <1>0 DEF TypeOK
<1>b. ASSUME UNCHANGED <<setting, version, entries, todo, merged, unseen, stage, entry, indexed, complete>>
      PROVE  Progress'
  <2>1. Placing' => Placing BY <1>b DEF Placing
  <2>2. QED BY <1>0, <1>b, <2>1, ProgressKept DEF Progress
<1>1. ASSUME NEW v \in Versions, CheckMerge(v) PROVE Progress' BY <1>1 DEF CheckMerge, Progress, Placing
<1>2. CASE BeginMerge
  <2> DEFINE n == clock + 1
  <2>1. /\ UNCHANGED <<setting, version, complete, unseen>> /\ stage = "checked" /\ stage' = "merging"
        /\ entry' = n /\ todo' = DOMAIN image /\ merged' = {}
        /\ entries' = [e \in DOMAIN entries \cup {n} |->
                         IF e = n THEN [version |-> version, contents |-> {}] ELSE entries[e]]
    BY <1>2 DEF BeginMerge, index
  <2>2. complete = 0 BY <1>0, <2>1 DEF Control
  <2>3. DOMAIN entries \subseteq 1..clock BY <1>0 DEF TypeOK
  <2>4. n \in DOMAIN entries' /\ n \notin unseen /\ \A o \in DOMAIN entries' : o <= n
    <3>1. n \notin DOMAIN entries /\ \A o \in DOMAIN entries : o <= n BY <1>a, <2>3
    <3>2. DOMAIN entries' = DOMAIN entries \cup {n} /\ n <= n BY <1>a, <2>1
    <3>3. QED BY <1>a, <3>1, <3>2
  <2>5. DOMAIN entries' \subseteq Nat
    <3>1. DOMAIN entries' \subseteq 1..clock' /\ clock' \in Nat BY <1>t DEF TypeOK
    <3>2. QED BY <3>1
  <2>6. Newest' = n BY <2>4, <2>5, Greatest DEF Newest
  <2>7. entries'[n].version = version /\ entries'[n].contents = {} BY <2>1
  <2>8. Listed' = {} BY <2>6, <2>7 DEF Listed
  <2>9. image' = image BY <2>1 DEF image
  <2> HIDE DEF n
  <2>10. QED BY <2>1, <2>2, <2>4, <2>6, <2>7, <2>8, <2>9 DEF Progress
<1>3. ASSUME NEW p \in todo, Skip(p) PROVE Progress'
  <2>1. /\ UNCHANGED <<setting, version, entries, merged, unseen, stage, entry, indexed, complete>>
        /\ stage = "merging" /\ p \in setting.skip /\ todo' = todo \ ({p} \cup Below(p))
    BY <1>3 DEF Skip, IsNext, index, observed
  <2>2. Newest' = Newest /\ Listed' = Listed /\ image' = image BY <2>1 DEF Newest, Listed, image
  <2>3. \A q : Wanted(q)' = Wanted(q) BY <2>1 DEF Wanted
  <2>4. \A q : Wanted(Parent(q))' = Wanted(Parent(q)) BY <2>1 DEF Wanted
  <2>5. \A q \in {p} \cup Below(p) : ~ Wanted(q)
    <3>1. p \in Paths BY <1>0 DEF TypeOK
    <3>2. QED BY <1>a, <2>1, <3>1, WantedParts
  <2>6. Placing /\ Placing' = Placing
    <3>1. version \in Versions BY <1>0, <2>1 DEF Control
    <3>2. QED BY <2>1, <3>1 DEF Placing, Versions
  <2>7. QED BY <1>0, <2>1, <2>2, <2>3, <2>4, <2>5, <2>6 DEF Progress
<1>4. ASSUME NEW p \in todo, StartEntry(p) PROVE Progress' BY <1>b, <1>4 DEF StartEntry, index, observed
<1>5. CASE LeaveDirectory BY <1>b, <1>5 DEF LeaveDirectory, index, observed
<1>6. CASE Unlink BY <1>b, <1>6 DEF Unlink, index
<1>7. CASE CopyFile BY <1>b, <1>7 DEF CopyFile, index
<1>8. CASE RenameFile BY <1>b, <1>8 DEF RenameFile, index
<1>9. CASE InstallSym BY <1>b, <1>9 DEF InstallSym, index, observed
<1>10. CASE InstallDir BY <1>b, <1>10 DEF InstallDir, index, observed
<1>12. ASSUME NEW p \in todo, TrackRenamed(p) PROVE Progress'
  BY <1>0, <1>t, <1>12, RenamedIsRecorded, ProgressRecorded
<1>13. CASE Track BY <1>0, <1>t, <1>13, TrackIsRecorded, ProgressRecorded
<1>14. CASE MergeDone
  <2>1. /\ UNCHANGED <<setting, version, entries, todo, merged, unseen, entry, complete>> /\ stage = "merging"
        /\ stage' = "overwriting" /\ indexed'
    BY <1>14 DEF MergeDone, merging, observed
  <2>2. version \in Versions /\ Placing /\ entry = Newest BY <1>0, <2>1, EntryIsNewest
  <2>3. complete = 0 BY <1>0, <2>1 DEF Control
  <2>4. QED BY <1>0, <2>1, <2>2, <2>3, ProgressKept
<1>d. ASSUME stage \in {"overwriting", "replacing"}
      PROVE  Placing /\ entry = Newest /\ Newest \in DOMAIN entries /\ indexed /\ complete = 0
  <2>1. version \in Versions /\ complete = 0 BY <1>0, <1>d DEF Control
  <2>2. Placing BY <1>d, <2>1 DEF Placing, Versions
  <2>3. QED BY <1>0, <1>d, <2>1, <2>2 DEF Progress
<1>15. ASSUME NEW e \in DOMAIN entries, Replace(e) PROVE Progress'
  <2>1. /\ UNCHANGED <<setting, version, entries, todo, merged, unseen, indexed, complete>>
        /\ stage \in {"overwriting", "replacing"} /\ stage' = "unmerging" /\ entry' = e /\ e # entry
    BY <1>15 DEF Replace, Others, merging, index, observed
  <2>2. QED BY <1>0, <1>d, <2>1, ProgressKept
<1>16. ASSUME NEW e \in Installed, Uninstall(e) PROVE Progress' BY <1>16 DEF Uninstall, Progress, Placing
<1>17. CASE UnmergeEntry BY <1>b, <1>17 DEF UnmergeEntry, merging, index
<1>18. CASE UnmergeDone
  <2>1. /\ UNCHANGED <<setting, version, complete, unseen, todo, merged>> /\ stage = "unmerging"
        /\ entries' = Forget(entries, {entry}) /\ indexed' = (indexed /\ DOMAIN entries # {entry})
        /\ version # 0 => stage' = "replacing" /\ entry' = Newest
    BY <1>18 DEF UnmergeDone, merging, observed
  <2>2. complete = 0 BY <1>0, <2>1 DEF Control
  <2>3. CASE version = 0 BY <2>1, <2>3 DEF Progress, Placing
  <2>4. CASE version # 0
    <3>1. Placing BY <2>1, <2>4 DEF Placing
    <3>2. Newest \in DOMAIN entries /\ entry # Newest /\ indexed /\ \A o \in DOMAIN entries : o <= Newest
      BY <1>0, <2>1, <3>1 DEF Progress
    <3>3. PICK n : n = Newest OBVIOUS
    <3>4. /\ DOMAIN entries' \subseteq DOMAIN entries /\ n \in DOMAIN entries' /\ entries'[n] = entries[n]
          /\ \A o \in DOMAIN entries' : o <= n
      BY <2>1, <3>2, <3>3 DEF Forget
    <3>5. Newest' = n BY <1>0, <1>t, <3>2, <3>3, <3>4, NewestStays
    <3>6. Listed' = Listed BY <3>3, <3>4, <3>5 DEF Listed
    <3>7. image' = image BY <2>1 DEF image
    <3>8. \A q : Wanted(q)' = Wanted(q) BY <2>1 DEF Wanted
    <3>9. \A q : Wanted(Parent(q))' = Wanted(Parent(q)) BY <2>1 DEF Wanted
    <3>10. indexed' BY <2>1, <3>2
    <3>11. QED BY <1>0, <2>1, <2>2, <2>4, <3>1, <3>3, <3>4, <3>5, <3>6, <3>7, <3>8, <3>9, <3>10 DEF Progress
  <2>5. QED BY <2>3, <2>4
<1>19. CASE InstallDone
  <2>1. /\ UNCHANGED <<setting, version, entries, todo, merged, unseen, indexed, entry>>
        /\ stage \in {"overwriting", "replacing"} /\ Others = {} /\ stage' = "idle"
    BY <1>19 DEF InstallDone, merging, index
  <2>2. DOMAIN entries = unseen \cup {Newest} BY <1>a, <1>d, <2>1 DEF Others
  <2>3. QED BY <1>0, <1>d, <2>1, <2>2, ProgressKept
<1>20. ASSUME StopHere PROVE Progress' BY <1>20 DEF StopHere, Progress, Placing
<1>21. CASE Fail BY <1>20, <1>21 DEF Fail
<1>22. CASE Crash BY <1>20, <1>22 DEF Crash
<1>23. ASSUME NEW p \in Paths, UserWrites(p) PROVE Progress' BY <1>b, <1>23 DEF UserWrites, Edits, merging, index
<1>24. ASSUME NEW p \in Protected, NEW i \in DOMAIN UpdateNames[p], UserAccepts(p, i) PROVE Progress'
  BY <1>b, <1>24 DEF UserAccepts, merging, index
<1>25. QED
  BY <1>1, <1>2, <1>3, <1>4, <1>5, <1>6, <1>7, <1>8, <1>9, <1>10, <1>12, <1>13, <1>14, <1>15, <1>16, <1>17, <1>18,
     <1>19, <1>21, <1>22, <1>23, <1>24 DEF Next

-----------------------------------------------------------------------------
(* What has been merged stays in its place.                                *)

(* Where the files of a path are: its place, and its updates.              *)
Spots(p) == {Place(p)} \cup (IF p \in Protected THEN Range(UpdateNames[p]) ELSE {})

Undisturbed(p) ==
    IF image[p].type = "dir" THEN root'[p] = root[p] /\ (Leads(p) => Leads(p)')
    ELSE \A q \in Spots(p) :
            /\ root'[q] = root[q]
            /\ q \in touched => q \in touched'
            /\ q \in mixed => q \in mixed'
            /\ q \in cut => q \in cut'
            /\ q \in DOMAIN user => q \in DOMAIN user'

LEMMA ListedParts ==
    ASSUME TypeOK, LinesFit, Progress, Placing, NEW p \in Listed
    PROVE  /\ version \in Versions /\ Newest \in DOMAIN entries /\ p \in DOMAIN image /\ p \in Paths
           /\ p \notin Updates /\ image[p].type \in {"file", "sym", "dir"}
           /\ image[p].type = "dir" => Len(p) = 1 /\ p \notin Protected /\ MayLead(p) /\ Place(p) = p
           /\ p \in Protected => Place(p) = p
           /\ Place(p) \in Paths
<1>1. version \in Versions /\ setting \in Settings BY DEF TypeOK, Placing
<1>2. Newest \in DOMAIN entries /\ entries[Newest].version = version BY DEF Progress
<1>3. PICK l \in entries[Newest].contents : l.path = p BY DEF Listed
<1>4. p \in DOMAIN image BY <1>2, <1>3 DEF LinesFit, LineFits, image
<1>5. /\ p \in Paths /\ p \notin Updates /\ image[p].type \in {"file", "sym", "dir"}
      /\ image[p].type = "dir" => Len(p) = 1 /\ p \notin Protected
  BY <1>1, <1>4, ImageParts DEF image
<1>6. image[p].type = "dir" => MayLead(p) BY <1>1, <1>4 DEF MayLead, image
<1>7. Place(p) \in Paths /\ (Len(p) = 1 => Place(p) = p) BY <1>1, <1>5, PlaceParts
<1>8. p \in Protected => Place(p) = p BY <1>1, <1>5, PlaceOfProtected
<1>9. QED BY <1>1, <1>2, <1>4, <1>5, <1>6, <1>7, <1>8

LEMMA PathKept ==
    ASSUME UNCHANGED <<setting, version>>, Newest' = Newest,
           entries[Newest].contents \subseteq entries'[Newest].contents,
           NEW p, p \in Paths, Undisturbed(p), IsPlaced(p)
    PROVE  IsPlaced(p)'
<1>1. image' = image BY DEF image
<1>2. \A q : Wanted(q)' = Wanted(q) BY DEF Wanted
<1>3. PICK q : q = Place(p) OBVIOUS
<1>4. Place(p)' = q BY <1>3 DEF Place
<1>5. CASE image[p].type = "dir"
  <2>1. root'[p] = root[p] /\ (Leads(p) => Leads(p)') BY <1>5 DEF Undisturbed
  <2>2. InPlace(p) BY DEF IsPlaced
  <2>3. InPlace(p)' BY <1>1, <1>2, <1>5, <2>1, <2>2 DEF InPlace
  <2>4. QED BY <1>1, <1>5, <2>3 DEF IsPlaced
<1>6. CASE image[p].type # "dir"
  <2>1. \A r \in Spots(p) :
          /\ root'[r] = root[r] /\ (r \in touched => r \in touched')
          /\ (r \in mixed => r \in mixed') /\ (r \in cut => r \in cut') /\ (r \in DOMAIN user => r \in DOMAIN user')
    BY <1>6 DEF Undisturbed
  <2>2. q \in Spots(p) BY <1>3 DEF Spots
  <2>3. ASSUME NEW r \in Spots(p), Is(p, r) PROVE Is(p, r)' BY <1>1, <2>1, <2>3 DEF Is
  <2>4. InPlace(p)'
    <3>1. \/ q \in touched \/ Is(p, q)
          \/ p \in Protected /\ image[p].type = "file" /\ \E r \in Range(UpdateNames[p]) : Is(p, r)
      BY <1>3, <1>6 DEF IsPlaced, InPlace
    <3>2. CASE q \in touched
      <4>1. q \in touched' BY <2>1, <2>2, <3>2
      <4>2. QED BY <1>1, <1>4, <1>6, <4>1 DEF InPlace
    <3>3. CASE Is(p, q)
      <4>1. Is(p, q)' BY <2>2, <2>3, <3>3
      <4>2. QED BY <1>1, <1>4, <1>6, <4>1 DEF InPlace, Is
    <3>4. CASE p \in Protected /\ image[p].type = "file" /\ \E r \in Range(UpdateNames[p]) : Is(p, r)
      <4>1. PICK r \in Range(UpdateNames[p]) : Is(p, r) BY <3>4
      <4>2. Is(p, r)' BY <2>3, <3>4, <4>1 DEF Spots
      <4>3. QED BY <1>1, <1>6, <3>4, <4>1, <4>2 DEF InPlace
    <3>5. QED BY <3>1, <3>2, <3>3, <3>4
  <2>5. ASSUME p \notin Protected PROVE IsRecent(p)' /\ IsListed(p)'
    <3>1. IsRecent(p) /\ IsListed(p) BY <1>6, <2>5 DEF IsPlaced
    <3>2. root'[q] = root[q] /\ (q \in DOMAIN user => q \in DOMAIN user') BY <2>1, <2>2
    <3>3. IsRecent(p)' BY <1>1, <1>3, <1>4, <3>1, <3>2 DEF IsRecent, There
    <3>4. IsListed(p)'
      <4>1. CASE q \in DOMAIN user BY <1>4, <3>2, <4>1 DEF IsListed
      <4>2. CASE q \notin DOMAIN user
        <5>1. PICK l \in entries[Newest].contents : Matches(l, q) BY <1>3, <3>1, <4>2 DEF IsListed
        <5>2. Matches(l, Place(p))' BY <1>4, <3>2, <5>1 DEF Matches, Place
        <5>3. l \in entries'[Newest'].contents BY <5>1
        <5>4. QED BY <5>2, <5>3 DEF IsListed
      <4>3. QED BY <4>1, <4>2
    <3>5. QED BY <3>3, <3>4
  <2>6. QED BY <1>1, <2>4, <2>5 DEF IsPlaced
<1>7. QED BY <1>5, <1>6

LEMMA PlacedKept ==
    ASSUME TypeOK, LinesFit, Progress, Placed, UNCHANGED <<setting, version, entries>>,
           Placing' => Placing /\ \A p \in Listed : Undisturbed(p) \/ IsPlaced(p)'
    PROVE  Placed'
<1>1. SUFFICES ASSUME Placing', NEW p \in Listed' PROVE IsPlaced(p)' BY DEF Placed
<1>2. Newest' = Newest /\ Listed' = Listed BY DEF Newest, Listed
<1>3. p \in Listed /\ Placing /\ (Undisturbed(p) \/ IsPlaced(p)') BY <1>1, <1>2
<1>4. p \in Paths /\ IsPlaced(p) BY <1>3, ListedParts DEF Placed
<1>5. QED BY <1>2, <1>3, <1>4, PathKept

(* A change somewhere else.                                                *)
LEMMA ChangedElsewhere ==
    ASSUME TypeOK, NEW p \in Paths, image[p].type \in {"file", "sym", "dir"}, NEW q \in Paths, NEW n,
           root' = [root EXCEPT ![q] = n], root[q].type # "dir",
           image[p].type = "dir" => q # p,
           image[p].type # "dir" => q \notin Spots(p) /\ Spots(p) \subseteq Paths,
           touched \subseteq touched', mixed \ {q} \subseteq mixed', cut \ {q} \subseteq cut',
           DOMAIN user \ {q} \subseteq DOMAIN user'
    PROVE  Undisturbed(p)
<1>1. root \in [Paths -> Nodes] BY DEF TypeOK
<1>2. CASE image[p].type = "dir"
  <2>1. root'[p] = root[p] BY <1>1, <1>2
  <2>2. Leads(p) => Leads(p)' BY <1>2, LeadsKept
  <2>3. QED BY <1>2, <2>1, <2>2 DEF Undisturbed
<1>3. CASE image[p].type # "dir"
  <2>1. \A r \in Spots(p) : r # q /\ r \in Paths BY <1>3
  <2>2. \A r \in Spots(p) : root'[r] = root[r] BY <1>1, <2>1
  <2>3. QED BY <1>3, <2>1, <2>2 DEF Undisturbed
<1>4. QED BY <1>2, <1>3

LEMMA SpotsParts ==
    ASSUME setting \in Settings, NEW p \in Paths
    PROVE  Spots(p) \subseteq Paths /\ \A q \in Spots(p) : q # Place(p) => p \in Protected /\ q \in Range(UpdateNames[p]) /\ q \in Updates
<1>1. Place(p) \in Paths BY PlaceParts
<1>2. p \in Protected => \A q \in Range(UpdateNames[p]) : q \in Paths /\ q \in Updates BY UpdateParts
<1>3. QED BY <1>1, <1>2 DEF Spots

(* The entry that a merge is at is not one of those that have been merged. *)
LEMMA EntryIsElsewhere ==
    ASSUME TypeOK, Disk, Control, Walk, LinesFit, Progress, stage = "merging", now.step # "none",
           image[now.path].type # "dir", NEW p \in Listed
    PROVE  /\ p \in Paths /\ image[p].type \in {"file", "sym", "dir"} /\ Spots(p) \subseteq Paths
           /\ image[p].type = "dir" => Place(now.dst) # p
           /\ image[p].type # "dir" => Place(now.dst) \notin Spots(p)
<1>1. setting \in Settings /\ version \in Versions /\ Placing BY EntryIsNewest DEF TypeOK
<1>2. /\ p \in DOMAIN image /\ p \in Paths /\ p \notin Updates /\ image[p].type \in {"file", "sym", "dir"}
      /\ image[p].type = "dir" => MayLead(p)
  BY <1>1, ListedParts
<1>3. now.path # p
  <2>1. now.path \in todo BY AtEntry
  <2>2. p \notin todo BY <1>1 DEF Progress
  <2>3. QED BY <2>1, <2>2
<1>4. /\ now.path \in DOMAIN image /\ now.path \notin Updates /\ ~ MayLead(Place(now.dst)) /\ now.path \in Paths
      /\ \/ now.dst = now.path
         \/ /\ image[now.path].type = "file" /\ now.path \in Protected
            /\ now.dst \in Range(UpdateNames[now.path]) /\ now.dst \in Updates /\ Place(now.dst) = now.dst
      /\ now.path \notin Protected => Place(now.dst) \notin Protected \cup Updates
      /\ now.path \in Protected => Place(now.dst) = now.dst
  BY AtEntry
<1>5. Spots(p) \subseteq Paths BY <1>1, <1>2, SpotsParts
<1>6. ASSUME image[p].type # "dir" PROVE Place(now.dst) \notin Spots(p)
  <2>1. SUFFICES ASSUME Place(now.dst) \in Spots(p) PROVE FALSE OBVIOUS
  <2>2. CASE Place(now.dst) = Place(p)
    <3>1. CASE now.dst = now.path BY <1>1, <1>2, <1>3, <1>4, <1>6, <2>2, <3>1, PlacesAreDistinct DEF image
    <3>2. CASE now.dst # now.path
      <4>1. Place(p) \in Updates BY <1>4, <2>2, <3>2
      <4>2. p \in Updates BY <1>1, <1>2, <4>1, PlaceOfProtected
      <4>3. QED BY <1>2, <4>2
    <3>3. QED BY <3>1, <3>2
  <2>3. CASE Place(now.dst) # Place(p)
    <3>1. p \in Protected /\ Place(now.dst) \in Range(UpdateNames[p]) /\ Place(now.dst) \in Updates
      BY <1>1, <1>2, <2>1, <2>3, SpotsParts
    <3>2. now.path \in Protected /\ Place(now.dst) = now.dst BY <1>4, <3>1
    <3>3. now.dst # now.path BY <1>4, <3>1, <3>2
    <3>4. now.path = p BY <1>1, <1>4, <3>1, <3>2, <3>3, UpdateParts
    <3>5. QED BY <1>3, <3>4
  <2>4. QED BY <2>2, <2>3
<1>7. image[p].type = "dir" => Place(now.dst) # p BY <1>2, <1>4
<1>8. QED BY <1>2, <1>5, <1>6, <1>7

LEMMA PlacedRecorded ==
    ASSUME TypeOK, TypeOK', Disk, Control, LinesFit, Progress, Placed, NEW p, NEW dst, IsRecorded(p, dst)
    PROVE  Placed'
<1>1. /\ UNCHANGED <<setting, root, user, touched, mixed, cut, stage, version, clock, entry>> /\ stage = "merging"
      /\ setting \in Settings /\ version \in Versions
      /\ p \in Paths /\ p \in DOMAIN image /\ p \in todo /\ dst \in Paths /\ p \notin Updates
      /\ \/ dst = p
         \/ image[p].type = "file" /\ p \in Protected /\ dst \in Range(UpdateNames[p])
      /\ Stat(dst) = root[Place(dst)] /\ image[p].type \in {"file", "sym", "dir"}
      /\ image[p].type = "dir" => Leads(p)
      /\ image[p].type = "file" => Is(p, Place(dst)) /\ root[Place(dst)].mtime = FileTime
      /\ image[p].type = "sym" => root[Place(dst)] = Sym(image[p].content, 10 + clock)
  BY DEF IsRecorded, TypeOK
<1>2. /\ Placing /\ entry = Newest /\ entry \in DOMAIN entries /\ \A o \in DOMAIN entries : o <= entry
  BY <1>1, EntryIsNewest
<1>3. /\ DOMAIN entries' = DOMAIN entries
      /\ entries'[entry].contents = entries[entry].contents \cup {Line(p, dst)}
      /\ Line(p, dst).path = p
      /\ image[p].type # "dir" => root[Place(dst)].type = image[p].type
  BY RecordedLine
<1>4. PICK n \in DOMAIN entries' : n = Newest BY <1>2, <1>3
<1>5. Newest' = n BY <1>2, <1>3, <1>4, NewestStays
<1>6. n <= clock /\ n \in Nat /\ clock \in Nat
  <2>1. DOMAIN entries \subseteq 1..clock /\ clock \in Nat BY DEF TypeOK
  <2>2. QED BY <1>3, <1>4, <2>1
<1>7. image' = image BY <1>1 DEF image
<1>8. ASSUME NEW r \in Listed PROVE IsPlaced(r)'
  <2>1. r \in Paths /\ IsPlaced(r) BY <1>2, <1>8, ListedParts DEF Placed
  <2>2. Undisturbed(r)
    <3>1. Leads(r) => Leads(r)' BY <1>1 DEF Leads
    <3>2. QED BY <1>1, <3>1 DEF Undisturbed
  <2>3. QED BY <1>1, <1>2, <1>3, <1>4, <1>5, <2>1, <2>2, PathKept
<1>9. IsPlaced(p)'
  <2>1. InPlace(p)'
    <3>1. CASE image[p].type = "dir"
      <4>1. Leads(p)' BY <1>1, <3>1 DEF Leads
      <4>2. QED BY <1>7, <3>1, <4>1 DEF InPlace
    <3>2. CASE image[p].type # "dir"
      <4>1. PICK q : q = Place(dst) OBVIOUS
      <4>2. Is(p, q)
        <5>1. CASE image[p].type = "file" BY <1>1, <4>1, <5>1
        <5>2. CASE image[p].type = "sym" BY <1>1, <4>1, <5>2, NodeTypes DEF Is
        <5>3. QED BY <1>1, <3>2, <5>1, <5>2
      <4>3. Is(p, q)' BY <1>1, <1>7, <4>2 DEF Is
      <4>4. CASE dst = p
        <5>1. Place(p)' = q BY <1>1, <4>1, <4>4 DEF Place
        <5>2. QED BY <1>7, <3>2, <4>3, <5>1 DEF InPlace, Is
      <4>5. CASE dst # p
        <5>1. p \in Protected /\ dst \in Range(UpdateNames[p]) /\ image[p].type = "file" BY <1>1, <4>5
        <5>2. q \in Range(UpdateNames[p]) BY <1>1, <4>1, <5>1, UpdateParts
        <5>3. QED BY <1>7, <3>2, <4>3, <5>1, <5>2 DEF InPlace
      <4>6. QED BY <4>4, <4>5
    <3>3. QED BY <3>1, <3>2
  <2>2. ASSUME image[p].type # "dir", p \notin Protected PROVE IsRecent(p)' /\ IsListed(p)'
    <3>1. dst = p BY <1>1, <2>2
    <3>2. PICK q : q = Place(p) OBVIOUS
    <3>3. Place(p)' = q BY <1>1, <3>2 DEF Place
    <3>4. root[q].type = image[p].type BY <1>3, <2>2, <3>1, <3>2
    <3>5. IsRecent(p)'
      <4>1. CASE image[p].type = "file" /\ setting.preserveMtimes
        <5>1. root[q].mtime = version BY <1>1, <3>1, <3>2, <4>1 DEF FileTime
        <5>2. QED BY <1>1, <1>7, <3>3, <3>4, <4>1, <5>1 DEF IsRecent
      <4>2. CASE ~ (image[p].type = "file" /\ setting.preserveMtimes)
        <5>1. root[q].mtime = 10 + clock
          <6>1. CASE image[p].type = "file" BY <1>1, <3>1, <3>2, <4>2, <6>1 DEF FileTime
          <6>2. CASE image[p].type = "sym" BY <1>1, <3>1, <3>2, <6>2, NodeTypes
          <6>3. QED BY <1>1, <2>2, <6>1, <6>2
        <5>2. root[q].mtime >= 10 + n BY <1>6, <5>1
        <5>3. root[q].type \in {"file", "sym"} BY <1>1, <2>2, <3>4
        <5>4. QED BY <1>1, <1>5, <1>7, <3>3, <4>2, <5>2, <5>3 DEF IsRecent, There
      <4>3. QED BY <4>1, <4>2
    <3>6. IsListed(p)'
      <4>1. PICK l : l = Line(p, dst) OBVIOUS
      <4>2. l \in entries'[Newest'].contents BY <1>2, <1>3, <1>4, <1>5, <4>1
      <4>3. Matches(l, Place(p))' BY <1>1, <3>1, <3>2, <3>3, <3>4, <4>1 DEF Matches, Line, Place
      <4>4. QED BY <4>2, <4>3 DEF IsListed
    <3>7. QED BY <3>5, <3>6
  <2>3. QED BY <1>7, <2>1, <2>2 DEF IsPlaced
<1>10. Listed' = Listed \cup {p}
  <2>1. Listed = {l.path : l \in entries[n].contents} BY <1>4 DEF Listed
  <2>2. Listed' = {l.path : l \in entries'[n].contents} BY <1>5 DEF Listed
  <2>3. QED BY <1>2, <1>3, <1>4, <2>1, <2>2
<1>11. QED BY <1>8, <1>9, <1>10 DEF Placed

(* A line of another version is not about a file of this one.              *)
LEMMA NotOfThisOne ==
    ASSUME TypeOK, Disk, Control, LinesFit, UserFits, Progress, Placed, stage = "unmerging", Placing,
           NEW l \in unmerge, Removes(l), NEW p \in Listed, image[p].type # "dir"
    PROVE  Place(l.path) # Place(p) \/ p \in Protected
<1>1. SUFFICES ASSUME Place(l.path) = Place(p), p \notin Protected PROVE FALSE OBVIOUS
<1> DEFINE node == root[Place(p)]
<1>2. /\ entry \in DOMAIN entries /\ LineFits(entry, l) /\ l.path \in Paths /\ l \in Lines
      /\ l.type \in {"file", "sym", "dir"} /\ l.path \notin merged /\ l.type = node.type
      /\ l.type # "dir" /\ ~ l.volatile => Matches(l, Place(l.path))
      /\ l.path \notin Protected => Place(l.path) \notin Protected \cup Updates
      /\ l.path \in Protected => Place(l.path) = l.path
  BY <1>1, Removed
<1>3. /\ version \in Versions /\ Newest \in DOMAIN entries /\ p \in DOMAIN image /\ p \in Paths
  BY ListedParts
<1>4. /\ \A o \in DOMAIN entries : o <= Newest
      /\ entry # Newest /\ p \in merged
  BY <1>1 DEF Progress
<1>5. setting \in Settings /\ DOMAIN entries \subseteq 1..clock /\ clock \in Nat /\ entries[entry].version \in Versions
  BY <1>2 DEF TypeOK
<1>6. entry < Newest /\ Newest \in Nat BY <1>2, <1>3, <1>4, <1>5
<1>7. p # l.path BY <1>2, <1>4
<1>8. IsRecent(p) BY <1>1 DEF Placed, IsPlaced
<1>9. There(Place(p)) BY <1>8 DEF IsRecent, There
<1>10. l.type \in {"file", "sym"} BY <1>2, <1>9 DEF There
<1>11. l.path \notin Protected
  <2>1. SUFFICES ASSUME l.path \in Protected PROVE FALSE OBVIOUS
  <2>2. Place(p) \in Protected BY <1>1, <1>2, <2>1
  <2>3. p = Place(p) BY <1>3, <1>5, <2>2, PlaceOfProtected
  <2>4. QED BY <1>1, <2>2, <2>3
<1>12. ~ l.volatile
  <2>1. SUFFICES ASSUME l.volatile PROVE FALSE OBVIOUS
  <2>2. l.path \in setting.volatile BY <1>2, <1>11, <2>1 DEF LineFits
  <2>3. QED BY <1>1, <1>3, <1>5, <1>7, <2>2, PlaceOfVolatile
<1>13. l.mtime = node.mtime /\ l.content = node.content BY <1>1, <1>2, <1>10, <1>12 DEF Matches
<1>14. l.type = "file" => l.content # UserContent BY <1>2 DEF LineFits
<1>15. l.path \in DOMAIN setting.image[entries[entry].version] /\ setting.image[entries[entry].version][l.path].type # "dir"
  BY <1>2, <1>10 DEF LineFits
<1>16. l.type = "file" /\ setting.preserveMtimes => l.mtime = entries[entry].version BY <1>2 DEF LineFits
<1>17. ~ (l.type = "file" /\ setting.preserveMtimes) => l.mtime < 10 + Newest BY <1>2, <1>3, <1>6, <1>10 DEF LineFits
<1>18. CASE node.type = "file" /\ node.content = UserContent BY <1>2, <1>13, <1>14, <1>18
<1>19. CASE node.type = "file" /\ image[p].type = "file" /\ setting.preserveMtimes /\ node.mtime = version
  <2>1. entries[entry].version = version BY <1>2, <1>13, <1>16, <1>19
  <2>2. QED BY <1>1, <1>3, <1>5, <1>7, <1>15, <2>1, PlacesAreDistinct DEF image
<1>20. CASE ~ (image[p].type = "file" /\ setting.preserveMtimes) /\ node.mtime >= 10 + Newest
  <2>1. l.mtime \in Nat BY <1>2 DEF Lines
  <2>2. l.mtime < 10 + Newest
    <3>1. CASE l.type = "file" /\ setting.preserveMtimes
      <4>1. l.mtime \in {1, 2} BY <1>5, <1>16, <3>1 DEF Versions
      <4>2. QED BY <1>6, <4>1
    <3>2. QED BY <1>17, <3>1
  <2>3. QED BY <1>6, <1>13, <1>20, <2>1, <2>2
<1>21. QED BY <1>8, <1>18, <1>19, <1>20 DEF IsRecent

LEMMA PlacedUnmerge ==
    ASSUME TypeOK, Disk, Control, LinesFit, UserFits, Progress, Placed, UnmergeEntry
    PROVE  Placed'
<1>1. PICK l \in LastOf(unmerge) :
        IF Removes(l) THEN /\ root' = [root EXCEPT ![Resolved(l.path)] = Nothing]
                           /\ user' = IF l.volatile THEN Forget(user, {Resolved(l.path)}) ELSE user
        ELSE UNCHANGED <<root, user>>
  BY DEF UnmergeEntry
<1>2. /\ stage = "unmerging" /\ l \in unmerge
      /\ UNCHANGED <<setting, version, entries, stage, complete, touched, mixed, cut>>
  BY DEF UnmergeEntry, LastOf, merging
<1>3. setting \in Settings /\ root \in [Paths -> Nodes] /\ TwoLevels BY Fit DEF TypeOK
<1>4. PICK q : q = Place(l.path) OBVIOUS
<1>5. /\ l.path \in Paths /\ l.path \notin Updates /\ Resolved(l.path) = q /\ q \in Paths
      /\ l.path \notin Protected => q \notin Protected \cup Updates
      /\ l.path \in Protected => q = l.path
      /\ Len(q) = Len(l.path) /\ l.type \in {"file", "sym", "dir"} /\ (l.type = "dir" => q = l.path)
  BY <1>2, <1>4, Removed
<1>6. Placing' => Placing BY <1>2 DEF Placing
<1>7. CASE ~ Removes(l)
  <2>1. UNCHANGED <<root, user>> BY <1>1, <1>7
  <2>2. \A p : Leads(p) => Leads(p)' BY <2>1 DEF Leads
  <2>3. \A p : Undisturbed(p) BY <1>2, <2>1, <2>2 DEF Undisturbed
  <2>4. QED BY <1>2, <1>6, <2>3, PlacedKept
<1>8. CASE Removes(l)
  <2>1. root' = [root EXCEPT ![q] = Nothing] /\ DOMAIN user \ {q} \subseteq DOMAIN user'
    BY <1>1, <1>5, <1>8 DEF Forget
  <2>2. /\ l.path \notin merged /\ l.type = root[q].type
        /\ l.type = "file" => l.path \notin Protected
        /\ l.type = "dir" => \A r \in Below(q) : root[r] = Nothing
    BY <1>2, <1>4, <1>5, <1>8, Removed
  <2>3. image' = image BY <1>2 DEF image
  <2>4. ASSUME Placing, NEW p \in Listed PROVE Undisturbed(p) \/ IsPlaced(p)'
    <3>1. /\ p \in DOMAIN image /\ p \in Paths /\ p \notin Updates /\ image[p].type \in {"file", "sym", "dir"}
          /\ image[p].type = "dir" => Len(p) = 1 /\ p \notin Protected /\ MayLead(p) /\ Place(p) = p
          /\ p \in Protected => Place(p) = p
          /\ version \in Versions
      BY <2>4, ListedParts
    <3>2. IsPlaced(p) BY <2>4 DEF Placed
    <3>3. Spots(p) \subseteq Paths BY <1>3, <3>1, SpotsParts
    <3>4. p \in merged \/ (p \in Protected /\ image[p].type = "file") BY <2>4 DEF Progress
    <3>5. CASE image[p].type # "dir"
      <4>1. CASE q \notin Spots(p)
        <5>1. \A r \in Spots(p) : r # q /\ r \in Paths BY <3>3, <4>1
        <5>2. \A r \in Spots(p) : root'[r] = root[r] BY <1>3, <2>1, <5>1
        <5>3. QED BY <1>2, <2>1, <3>5, <5>1, <5>2 DEF Undisturbed
      <4>2. CASE q \in Spots(p)
        <5>1. q \notin Updates
          <6>1. CASE l.path \in Protected BY <1>3, <1>5, <6>1 DEF UpdatesAreNear
          <6>2. CASE l.path \notin Protected BY <1>5, <6>2
          <6>3. QED BY <6>1, <6>2
        <5>2. q = Place(p) BY <1>3, <3>1, <4>2, <5>1, SpotsParts
        <5>3. p \in Protected BY <1>2, <1>4, <1>8, <2>4, <3>5, <5>2, NotOfThisOne
        <5>4. q = p BY <3>1, <5>2, <5>3
        <5>5. l.path = p BY <1>3, <1>4, <1>5, <5>3, <5>4, PlaceOfProtected
        <5>6. p \notin merged /\ image[p].type = "file" BY <2>2, <3>4, <5>5
        <5>7. root[p].type # "file" BY <2>2, <5>3, <5>4, <5>5
        <5>8. ~ Is(p, p) BY <5>6, <5>7 DEF Is
        <5>9. Place(p)' = p BY <1>2, <3>1, <5>3 DEF Place
        <5>10. InPlace(p)'
          <6>1. CASE p \in touched
            <7>1. p \in touched' BY <1>2, <6>1
            <7>2. QED BY <2>3, <3>5, <5>9, <7>1 DEF InPlace
          <6>2. CASE p \notin touched
            <7>1. PICK u \in Range(UpdateNames[p]) : Is(p, u)
              BY <3>1, <3>2, <3>5, <5>3, <5>8, <6>2 DEF IsPlaced, InPlace
            <7>2. u # q /\ u \in Paths BY <1>3, <5>1, <5>3, <7>1, UpdateParts
            <7>3. root'[u] = root[u] BY <1>3, <2>1, <7>2
            <7>4. Is(p, u)' BY <1>2, <2>3, <7>1, <7>3 DEF Is
            <7>5. QED BY <2>3, <3>5, <5>3, <5>6, <7>1, <7>4 DEF InPlace
          <6>3. QED BY <6>1, <6>2
        <5>11. QED BY <5>3, <5>10 DEF IsPlaced
      <4>3. QED BY <4>1, <4>2
    <3>6. CASE image[p].type = "dir"
      <4>1. p # q
        <5>1. SUFFICES ASSUME p = q PROVE FALSE OBVIOUS
        <5>2. Len(l.path) = 1 BY <1>5, <3>1, <3>6, <5>1
        <5>3. l.path = p BY <1>3, <1>4, <1>5, <5>1, <5>2, PlaceParts
        <5>4. QED BY <2>2, <3>4, <3>6, <5>3
      <4>2. root'[p] = root[p] BY <1>3, <2>1, <3>1, <4>1
      <4>3. CASE Leads(p)'  BY <3>6, <4>2, <4>3 DEF Undisturbed
      <4>4. CASE ~ Leads(p)  BY <3>6, <4>2, <4>4 DEF Undisturbed
      <4>5. CASE Leads(p) /\ ~ Leads(p)'
        <5>1. root[p].type = "sym" /\ root[root[p].content].type = "dir" /\ root[p].content \in Paths
          <6>1. root[p].type # "dir" BY <4>2, <4>5 DEF Leads
          <6>2. root[p].type = "sym" /\ root[root[p].content].type = "dir" BY <4>5, <6>1 DEF Leads
          <6>3. QED BY <1>3, <3>1, <6>2, NodeParts
        <5>2. q = root[p].content
          <6>1. SUFFICES ASSUME q # root[p].content PROVE FALSE OBVIOUS
          <6>2. root'[root[p].content] = root[root[p].content] BY <1>3, <2>1, <5>1, <6>1
          <6>3. QED BY <4>2, <4>5, <5>1, <6>2 DEF Leads
        <5>3. \A r \in Below(q) : root[r] = Nothing BY <2>2, <5>1, <5>2
        <5>4. setting.root[p] = root[p] BY <3>1, <3>6, <5>1 DEF Disk, LinksStay
        <5>5. ASSUME NEW r \in Below(p) \cap DOMAIN image, Wanted(r) PROVE FALSE
          <6>1. todo = {} /\ now = Idle BY <1>2 DEF Control
          <6>2. r \in Listed BY <2>4, <5>5, <6>1 DEF Progress
          <6>3. r \in Paths /\ Len(r) = 2 /\ Parent(r) = p BY <1>3, <3>1, <5>5, BelowIsChild DEF Below
          <6>4. Place(r) \in Paths /\ Len(Place(r)) = 2 /\ Parent(Place(r)) = q
            BY <1>3, <5>1, <5>2, <5>4, <6>3, PlaceParts
          <6>5. Place(r) \in Below(q) BY <1>3, <1>5, <6>4, BelowIsChild
          <6>6. image[r].type # "dir"
            <7>1. image[r].type = "dir" => Len(r) = 1 BY <2>4, <6>2, ListedParts
            <7>2. Len(r) # 1 BY <6>3, TwoIsNotOne
            <7>3. QED BY <7>1, <7>2
          <6>7. r \notin Protected
            <7>1. SUFFICES ASSUME r \in Protected PROVE FALSE OBVIOUS
            <7>2. Place(r) = r BY <2>4, <6>2, <7>1, ListedParts
            <7>3. p = q BY <6>3, <6>4, <7>2
            <7>4. QED BY <4>1, <7>3
          <6>8. IsRecent(r) BY <2>4, <6>2, <6>6, <6>7 DEF Placed, IsPlaced
          <6>9. There(Place(r)) BY <6>8 DEF IsRecent, There
          <6>10. root[Place(r)] = Nothing BY <5>3, <6>5
          <6>11. QED BY <6>9, <6>10, NodeTypes DEF There
        <5>6. \A r : Wanted(r)' = Wanted(r) BY <1>2 DEF Wanted
        <5>7. InPlace(p)' BY <2>3, <3>6, <4>2, <5>1, <5>5, <5>6 DEF InPlace
        <5>8. QED BY <2>3, <3>6, <5>7 DEF IsPlaced
      <4>6. QED BY <4>3, <4>4, <4>5
    <3>7. QED BY <3>5, <3>6
  <2>5. QED BY <1>2, <1>6, <2>4, PlacedKept
<1>9. QED BY <1>7, <1>8

LEMMA PlacedInstallDir ==
    ASSUME TypeOK, Disk, Control, Walk, StepFits, LinesFit, Progress, Placed, InstallDir
    PROVE  Placed'
<1> DEFINE d == now.path
           new == (Below(d) \cap DOMAIN image) \cup {d}
<1>1. /\ stage = "merging" /\ now.step = "install" /\ image[d].type = "dir"
      /\ UNCHANGED <<setting, version, entries, stage, complete, user, touched, mixed, cut>>
  BY DEF InstallDir, Ready, observed
<1>2. setting \in Settings /\ root \in [Paths -> Nodes] /\ TwoLevels BY Fit DEF TypeOK
<1>3. now # Idle /\ d \in Paths /\ d \in todo /\ d \in DOMAIN image /\ Place(d) = d /\ now.dst = d /\ version \in Versions
  BY <1>1, AtEntry
<1>4. Placing BY <1>1, EntryIsNewest
<1>5. \A p \in Paths : p \notin new => root'[p] = root[p]
  <2>1. CASE setting.rename BY <2>1 DEF InstallDir
  <2>2. CASE ~ setting.rename BY <1>2, <2>2 DEF InstallDir
  <2>3. QED BY <2>1, <2>2
<1>6. root[d] = Nothing BY <1>1, <1>3 DEF StepFits
<1>7. \A p \in Below(d) : p \in Paths /\ Len(p) = 2 /\ Parent(p) = d /\ root[p] = Nothing
  <2> TAKE p \in Below(d)
  <2>1. p \in Paths BY DEF Below
  <2>2. Len(p) = 2 /\ Parent(p) = d BY <1>2, <1>3, <2>1, BelowIsChild
  <2>3. root[Parent(p)].type # "dir" BY <1>6, <2>2, NodeTypes
  <2>4. QED BY <2>1, <2>2, <2>3 DEF Disk, FileSystem
<1>8. \A p \in new : p \in todo /\ p \in DOMAIN image /\ root[p] = Nothing
  <2>1. Below(d) \cap DOMAIN image \subseteq todo BY <1>1, <1>3 DEF Walk
  <2>2. QED BY <1>3, <1>6, <1>7, <2>1
<1>9. setting.root[d].type # "sym"
  <2>1. SUFFICES ASSUME setting.root[d].type = "sym" PROVE FALSE OBVIOUS
  <2>2. MayLead(d) BY <1>1, <1>3 DEF MayLead, image
  <2>3. root[d] = setting.root[d] BY <1>3, <2>1, <2>2 DEF Disk, LinksStay
  <2>4. QED BY <1>6, <2>1, <2>3, NodeTypes
<1>10. ASSUME NEW p \in Below(d) \cap DOMAIN image PROVE Place(p) = p /\ image[p].type # "dir"
  <2>1. p \in Paths /\ Len(p) = 2 /\ Parent(p) = d BY <1>7
  <2>2. Place(p) = p BY <1>2, <1>9, <2>1, PlaceParts
  <2>3. image[p].type = "dir" => Len(p) = 1 BY <1>2, <1>3, ImageParts DEF image
  <2>4. Len(p) # 1 BY <2>1, TwoIsNotOne
  <2>5. QED BY <2>2, <2>3, <2>4
<1> HIDE DEF d
<1>11. ASSUME NEW p \in Listed PROVE Undisturbed(p)
  <2>1. /\ p \in DOMAIN image /\ p \in Paths /\ p \notin Updates /\ image[p].type \in {"file", "sym", "dir"}
        /\ Place(p) \in Paths /\ p \notin todo
    BY <1>4, ListedParts DEF Progress
  <2>2. p \notin new BY <1>8, <2>1
  <2>3. CASE image[p].type = "dir"
    <3>1. root'[p] = root[p] BY <1>5, <2>1, <2>2
    <3>2. ASSUME Leads(p) PROVE Leads(p)'
      <4>1. CASE root[p].type = "dir" BY <3>1, <4>1 DEF Leads
      <4>2. CASE root[p].type = "sym" /\ root[root[p].content].type = "dir"
        <5>1. root[p].content \in Paths BY <1>2, <2>1, <4>2, NodeParts
        <5>2. root[p].content \notin new BY <1>8, <4>2, NodeTypes
        <5>3. root'[root[p].content] = root[root[p].content] BY <1>5, <5>1, <5>2
        <5>4. QED BY <3>1, <4>2, <5>3 DEF Leads
      <4>3. QED BY <3>2, <4>1, <4>2 DEF Leads
    <3>3. QED BY <2>3, <3>1, <3>2 DEF Undisturbed
  <2>4. CASE image[p].type # "dir"
    <3>1. ASSUME NEW q \in Spots(p) PROVE q \in Paths /\ q \notin new
      <4>1. q \in Paths BY <1>2, <2>1, SpotsParts
      <4>2. CASE q = Place(p)
        <5>1. SUFFICES ASSUME q \in new PROVE FALSE BY <4>1
        <5>2. CASE q = d
          <6>1. Len(d) = 1 BY <1>1, <1>2, <1>3, ImageParts DEF image, d
          <6>2. Len(p) = 1 BY <1>2, <2>1, <4>2, <5>2, <6>1, PlaceParts
          <6>3. p = d BY <1>2, <2>1, <4>2, <5>2, <6>2, PlaceParts
          <6>4. QED BY <1>3, <2>1, <6>3
        <5>3. CASE q \in Below(d) \cap DOMAIN image
          <6>1. Place(q) = q /\ image[q].type # "dir" BY <1>10, <5>3
          <6>2. p = q BY <1>2, <1>3, <2>1, <2>4, <4>2, <5>3, <6>1, PlacesAreDistinct DEF image
          <6>3. QED BY <1>8, <2>1, <5>1, <6>2
        <5>4. QED BY <5>1, <5>2, <5>3
      <4>3. CASE q # Place(p)
        <5>1. q \in Updates BY <1>2, <2>1, <4>3, SpotsParts
        <5>2. \A r \in new : r \in DOMAIN image BY <1>8
        <5>3. \A r \in DOMAIN image : r \notin Updates BY <1>2, <1>3, ImageParts DEF image
        <5>4. QED BY <4>1, <5>1, <5>2, <5>3
      <4>4. QED BY <4>2, <4>3
    <3>2. \A q \in Spots(p) : root'[q] = root[q] BY <1>5, <3>1
    <3>3. QED BY <1>1, <2>4, <3>2 DEF Undisturbed
  <2>5. QED BY <2>3, <2>4
<1>12. QED BY <1>1, <1>4, <1>11, PlacedKept

LEMMA PlacedStep == IInv /\ Next => Placed'
<1> SUFFICES ASSUME IInv, Next PROVE Placed' OBVIOUS
<1>0. TypeOK /\ Disk /\ Control /\ Walk /\ StepFits /\ LinesFit /\ UserFits /\ Progress /\ Placed BY DEF IInv
<1>t. TypeOK' BY TypeStep
<1>a. setting \in Settings /\ root \in [Paths -> Nodes] /\ TwoLevels /\ UpdatesAreNear BY <1>0, Fit DEF TypeOK
<1>b. ASSUME UNCHANGED <<setting, version, entries, root, user, touched, mixed, cut>>, Placing' => Placing PROVE Placed'
  <2>1. \A p : Leads(p) => Leads(p)' BY <1>b DEF Leads
  <2>2. \A p : Undisturbed(p) BY <1>b, <2>1 DEF Undisturbed
  <2>3. QED BY <1>0, <1>b, <2>2, PlacedKept
(* A step at an entry that is not a directory.                             *)
<1>c. ASSUME stage = "merging", now.step # "none", image[now.path].type # "dir",
             UNCHANGED <<setting, version, entries, touched>>,
             NEW n, root' = [root EXCEPT ![Place(now.dst)] = n], root[Place(now.dst)].type # "dir",
             mixed \ {Place(now.dst)} \subseteq mixed', cut \ {Place(now.dst)} \subseteq cut',
             DOMAIN user \ {Place(now.dst)} \subseteq DOMAIN user'
      PROVE  Placed'
  <2>1. Placing /\ Place(now.dst) \in Paths BY <1>0, <1>c, EntryIsNewest, AtEntry
  <2>2. ASSUME NEW p \in Listed PROVE Undisturbed(p)
    <3>1. /\ p \in Paths /\ image[p].type \in {"file", "sym", "dir"} /\ Spots(p) \subseteq Paths
          /\ image[p].type = "dir" => Place(now.dst) # p
          /\ image[p].type # "dir" => Place(now.dst) \notin Spots(p)
      BY <1>0, <1>c, EntryIsElsewhere
    <3>2. PICK q \in Paths : q = Place(now.dst) BY <2>1
    <3>3. QED BY <1>0, <1>c, <3>1, <3>2, ChangedElsewhere
  <2>3. QED BY <1>0, <1>c, <2>1, <2>2, PlacedKept
<1>1. ASSUME NEW v \in Versions, CheckMerge(v) PROVE Placed' BY <1>1 DEF CheckMerge, Placed, Placing
<1>2. CASE BeginMerge
  <2>1. entry' \in DOMAIN entries' /\ entries'[entry'].contents = {} /\ stage' = "merging" BY <1>2 DEF BeginMerge
  <2>2. Progress' BY ProgressStep
  <2>3. Placing' => entry' = Newest' BY <2>1, <2>2 DEF Progress
  <2>4. Placing' => Listed' = {} BY <2>1, <2>3 DEF Listed
  <2>5. QED BY <2>4 DEF Placed
<1>d. stage = "merging" => Placing BY <1>0, EntryIsNewest
<1>3. ASSUME NEW p \in todo, Skip(p) PROVE Placed' BY <1>b, <1>d, <1>3 DEF Skip, IsNext, observed
<1>4. ASSUME NEW p \in todo, StartEntry(p) PROVE Placed' BY <1>b, <1>d, <1>4 DEF StartEntry, IsNext, observed
<1>5. CASE LeaveDirectory BY <1>b, <1>d, <1>5 DEF LeaveDirectory, observed
<1>6. CASE Unlink
  <2>1. /\ stage = "merging" /\ now.step = "unlink" /\ image[now.path].type \in {"sym", "file"}
        /\ UNCHANGED <<setting, version, entries, touched, mixed, cut>>
    BY <1>6 DEF Unlink, Ready
  <2>2. now # Idle /\ Resolved(now.dst) = Place(now.dst) BY <1>0, <2>1, AtEntry
  <2>3. /\ root' = [root EXCEPT ![Place(now.dst)] = Nothing]
        /\ DOMAIN user \ {Place(now.dst)} \subseteq DOMAIN user'
    BY <1>6, <2>2 DEF Unlink, Forget
  <2>4. root[Place(now.dst)].type # "dir" BY <1>0, <2>1, <2>2 DEF StepFits, There
  <2>5. QED BY <1>c, <2>1, <2>3, <2>4
<1>7. CASE CopyFile
  <2>1. /\ stage = "merging" /\ now.step = "install" /\ image[now.path].type = "file"
        /\ UNCHANGED <<setting, version, entries, touched, root, user>>
    BY <1>7 DEF CopyFile, Ready
  <2>2. now # Idle /\ Resolved(now.dst) = Place(now.dst) BY <1>0, <2>1, AtEntry
  <2>3. mixed \ {Place(now.dst)} \subseteq mixed' /\ cut \ {Place(now.dst)} \subseteq cut' BY <1>7, <2>2 DEF CopyFile
  <2>4. root[Place(now.dst)].type # "dir" BY <1>0, <2>1, <2>2 DEF StepFits
  <2>5. root' = [root EXCEPT ![Place(now.dst)] = root[Place(now.dst)]] BY <1>a, <2>1
  <2>6. QED BY <1>c, <2>1, <2>3, <2>4, <2>5
<1>8. CASE RenameFile
  <2>1. /\ stage = "merging" /\ now.step \in {"install", "rename"} /\ image[now.path].type = "file"
        /\ UNCHANGED <<setting, version, entries, touched, mixed, cut>>
    BY <1>8 DEF RenameFile, Ready
  <2>2. now # Idle /\ Resolved(now.dst) = Place(now.dst) BY <1>0, <2>1, AtEntry
  <2>3. DOMAIN user \ {Place(now.dst)} \subseteq DOMAIN user' BY <1>8, <2>2 DEF RenameFile, Forget
  <2>4. root[Place(now.dst)].type # "dir" BY <1>0, <2>1, <2>2 DEF StepFits
  <2>5. PICK n : root' = [root EXCEPT ![Place(now.dst)] = n] BY <1>8, <2>2 DEF RenameFile
  <2>6. QED BY <1>c, <2>1, <2>3, <2>4, <2>5
<1>9. CASE InstallSym
  <2>1. /\ stage = "merging" /\ now.step = "install" /\ image[now.path].type = "sym"
        /\ UNCHANGED <<setting, version, entries, touched, mixed, cut, user>>
    BY <1>9 DEF InstallSym, Ready, observed
  <2>2. now # Idle /\ Resolved(now.dst) = Place(now.dst) BY <1>0, <2>1, AtEntry
  <2>3. root[Place(now.dst)] = Nothing BY <1>0, <2>1, <2>2 DEF StepFits
  <2>4. root[Place(now.dst)].type # "dir" BY <2>3, NodeTypes
  <2>5. PICK n : root' = [root EXCEPT ![Place(now.dst)] = n] BY <1>9, <2>2 DEF InstallSym
  <2>6. QED BY <1>c, <2>1, <2>4, <2>5
<1>10. CASE InstallDir BY <1>0, <1>10, PlacedInstallDir
<1>12. ASSUME NEW p \in todo, TrackRenamed(p) PROVE Placed'
  BY <1>0, <1>t, <1>12, RenamedIsRecorded, PlacedRecorded
<1>13. CASE Track BY <1>0, <1>t, <1>13, TrackIsRecorded, PlacedRecorded
<1>14. CASE MergeDone BY <1>b, <1>d, <1>14 DEF MergeDone, observed
<1>e. stage \in {"overwriting", "replacing"} => Placing BY <1>0 DEF Control, Placing, Versions
<1>15. ASSUME NEW e \in DOMAIN entries, Replace(e) PROVE Placed' BY <1>b, <1>e, <1>15 DEF Replace, observed
<1>16. ASSUME NEW e \in Installed, Uninstall(e) PROVE Placed' BY <1>16 DEF Uninstall, Placed, Placing
<1>17. CASE UnmergeEntry BY <1>0, <1>17, PlacedUnmerge
<1>18. CASE UnmergeDone
  <2>1. /\ UNCHANGED <<setting, version, complete, root, user, touched, mixed, cut>> /\ stage = "unmerging"
        /\ entries' = Forget(entries, {entry}) /\ stage' \in {"idle", "replacing"}
    BY <1>18 DEF UnmergeDone, merging, observed
  <2>2. SUFFICES ASSUME Placing', NEW p \in Listed' PROVE IsPlaced(p)' BY DEF Placed
  <2>3. Placing BY <2>1, <2>2 DEF Placing
  <2>4. Newest \in DOMAIN entries /\ entry # Newest /\ \A o \in DOMAIN entries : o <= Newest
    BY <1>0, <2>1, <2>3 DEF Progress
  <2>5. PICK n : n = Newest OBVIOUS
  <2>6. DOMAIN entries' \subseteq DOMAIN entries /\ n \in DOMAIN entries' /\ entries'[n] = entries[n]
    BY <2>1, <2>4, <2>5 DEF Forget
  <2>7. Newest' = n BY <1>0, <1>t, <2>4, <2>5, <2>6, NewestStays
  <2>8. Listed' = Listed BY <2>5, <2>6, <2>7 DEF Listed
  <2>9. p \in Listed BY <2>2, <2>8
  <2>10. p \in Paths /\ IsPlaced(p) BY <1>0, <2>3, <2>9, ListedParts DEF Placed
  <2>11. Leads(p) => Leads(p)' BY <2>1 DEF Leads
  <2>12. Undisturbed(p) BY <2>1, <2>11 DEF Undisturbed
  <2>13. QED BY <2>1, <2>5, <2>6, <2>7, <2>10, <2>12, PathKept
<1>19. CASE InstallDone BY <1>b, <1>e, <1>19 DEF InstallDone
<1>20. ASSUME StopHere PROVE Placed' BY <1>20 DEF StopHere, Placed, Placing
<1>21. CASE Fail BY <1>20, <1>21 DEF Fail
<1>22. CASE Crash BY <1>20, <1>22 DEF Crash
<1>23. ASSUME NEW p \in Paths, UserWrites(p) PROVE Placed'
  <2>1. /\ root' = [root EXCEPT ![p] = File(UserContent, 11 + clock)] /\ p \notin Updates
        /\ root[p].type \in {"file", "nothing"} /\ touched' = touched \cup {p}
        /\ user' = [q \in DOMAIN user \cup {p} |-> IF q = p THEN UserContent ELSE user[q]]
        /\ UNCHANGED <<setting, version, entries, stage, complete, mixed, cut>>
    BY <1>23 DEF UserWrites, Edits, merging
  <2>2. Placing' => Placing BY <2>1 DEF Placing
  <2>3. ASSUME Placing, NEW r \in Listed PROVE Undisturbed(r) \/ IsPlaced(r)'
    <3>1. /\ r \in Paths /\ image[r].type \in {"file", "sym", "dir"} /\ (r \in Protected => Place(r) = r)
      BY <1>0, <2>3, ListedParts
    <3>2. IsPlaced(r) BY <1>0, <2>3 DEF Placed
    <3>3. image' = image BY <2>1 DEF image
    <3>4. CASE image[r].type = "dir"
      <4>1. root[r].type \in {"dir", "sym"} BY <3>2, <3>4 DEF IsPlaced, InPlace, Leads
      <4>2. r # p BY <2>1, <4>1
      <4>3. QED BY <1>0, <2>1, <3>1, <3>4, <4>2, ChangedElsewhere
    <3>5. CASE image[r].type # "dir" /\ p \notin Spots(r)
      <4>1. Spots(r) \subseteq Paths BY <1>a, <3>1, SpotsParts
      <4>2. QED BY <1>0, <2>1, <3>1, <3>5, <4>1, ChangedElsewhere
    <3>6. CASE image[r].type # "dir" /\ p \in Spots(r)
      <4>1. Place(r) = p BY <1>a, <2>1, <3>1, <3>6, SpotsParts
      <4>2. Place(r)' = p BY <2>1, <4>1 DEF Place
      <4>3. InPlace(r)' BY <2>1, <3>3, <3>6, <4>2 DEF InPlace
      <4>4. root'[p] = File(UserContent, 11 + clock) BY <1>a, <2>1
      <4>5. root'[p].type = "file" /\ root'[p].content = UserContent BY <4>4, NodeTypes
      <4>6. IsRecent(r)' BY <4>2, <4>5 DEF IsRecent
      <4>7. p \in DOMAIN user' BY <2>1
      <4>8. IsListed(r)' BY <4>2, <4>7 DEF IsListed
      <4>9. QED BY <4>3, <4>6, <4>8 DEF IsPlaced
    <3>7. QED BY <3>4, <3>5, <3>6
  <2>4. QED BY <1>0, <2>1, <2>2, <2>3, PlacedKept
<1>24. ASSUME NEW p \in Protected, NEW i \in DOMAIN UpdateNames[p], UserAccepts(p, i) PROVE Placed'
  <2> DEFINE u == UpdateNames[p][i]
  <2>1. /\ root' = [root EXCEPT ![p] = root[u], ![u] = Nothing] /\ user' = Forget(user, {p, u})
        /\ touched' = touched \cup {p} /\ root[u].type = "file" /\ root[p].type # "dir"
        /\ UNCHANGED <<setting, version, entries, stage, complete, mixed, cut>>
    BY <1>24 DEF UserAccepts, merging
  <2>2. u \in Range(UpdateNames[p]) BY DEF Range
  <2>3. /\ p \in Paths /\ u \in Paths /\ u \in Updates /\ p \notin Updates /\ u \notin Protected /\ Place(p) = p
        /\ \A q \in Protected : u \in Range(UpdateNames[q]) => q = p
    BY <1>a, <2>2, UpdateParts
  <2> HIDE DEF u
  <2>4. Placing' => Placing BY <2>1 DEF Placing
  <2>5. ASSUME Placing, NEW r \in Listed PROVE Undisturbed(r) \/ IsPlaced(r)'
    <3>1. /\ r \in Paths /\ image[r].type \in {"file", "sym", "dir"} /\ (r \in Protected => Place(r) = r)
          /\ r \notin Updates /\ (image[r].type = "dir" => r \notin Protected)
      BY <1>0, <2>5, ListedParts
    <3>2. image' = image BY <2>1 DEF image
    <3>3. CASE image[r].type = "dir"
      <4>1. r \notin {p, u} BY <2>3, <3>1, <3>3
      <4>2. root'[r] = root[r] BY <1>a, <2>1, <3>1, <4>1
      <4>3. ASSUME Leads(r) PROVE Leads(r)'
        <5>1. CASE root[r].type = "dir" BY <4>2, <5>1 DEF Leads
        <5>2. CASE root[r].type = "sym" /\ root[root[r].content].type = "dir"
          <6>1. root[r].content \in Paths BY <1>a, <3>1, <5>2, NodeParts
          <6>2. root[r].content \notin {p, u} BY <2>1, <5>2
          <6>3. root'[root[r].content] = root[root[r].content] BY <1>a, <2>1, <6>1, <6>2
          <6>4. QED BY <4>2, <5>2, <6>3 DEF Leads
        <5>3. QED BY <4>3, <5>1, <5>2 DEF Leads
      <4>4. QED BY <3>3, <4>2, <4>3 DEF Undisturbed
    <3>4. CASE image[r].type # "dir" /\ r # p
      <4>1. ASSUME NEW q \in Spots(r) PROVE q \in Paths /\ q \notin {p, u}
        <5>1. q \in Paths BY <1>a, <3>1, SpotsParts
        <5>2. CASE q = Place(r) BY <1>a, <2>3, <3>1, <3>4, <5>1, <5>2, PlaceOfProtected
        <5>3. CASE q # Place(r)
          <6>1. r \in Protected /\ q \in Range(UpdateNames[r]) /\ q \in Updates BY <1>a, <3>1, <5>3, SpotsParts
          <6>2. QED BY <2>3, <3>4, <5>1, <6>1
        <5>4. QED BY <5>2, <5>3
      <4>2. \A q \in Spots(r) : root'[q] = root[q] BY <1>a, <2>1, <4>1
      <4>3. \A q \in Spots(r) : q \in DOMAIN user => q \in DOMAIN user' BY <2>1, <4>1 DEF Forget
      <4>4. QED BY <2>1, <3>4, <4>2, <4>3 DEF Undisturbed
    <3>5. CASE image[r].type # "dir" /\ r = p
      <4>1. Place(r)' = p BY <2>1, <2>3, <3>5 DEF Place
      <4>2. InPlace(r)' BY <2>1, <3>2, <3>5, <4>1 DEF InPlace
      <4>3. QED BY <3>5, <4>2 DEF IsPlaced
    <3>6. QED BY <3>3, <3>4, <3>5
  <2>6. QED BY <1>0, <2>1, <2>4, <2>5, PlacedKept
<1>25. QED
  BY <1>1, <1>2, <1>3, <1>4, <1>5, <1>6, <1>7, <1>8, <1>9, <1>10, <1>12, <1>13, <1>14, <1>15, <1>16, <1>17, <1>18,
     <1>19, <1>21, <1>22, <1>23, <1>24 DEF Next

-----------------------------------------------------------------------------
(* The invariant, and what follows from it.                                *)

LEMMA IInvInit == Init => IInv
<1> SUFFICES ASSUME Init PROVE IInv OBVIOUS
<1>1. TypeOK /\ Disk /\ UserFits /\ Tracked BY TypeInit, DiskInit, UserFitsInit, TrackedInit
<1>2. Control BY DEF Init, Control
<1>3. Walk /\ StepFits BY DEF Init, Walk, StepFits
<1>4. LinesFit BY DEF Init, LinesFit
<1>5. Progress /\ Placed BY DEF Init, Progress, Placed, Placing
<1>6. QED BY <1>1, <1>2, <1>3, <1>4, <1>5 DEF IInv

LEMMA IInvStep == IInv /\ [Next]_vars => IInv'
<1>1. ASSUME IInv, Next PROVE IInv'
  BY <1>1, TypeStep, DiskStep, ControlStep, WalkStep, StepFitsStep, LinesFitStep, UserFitsStep, TrackedStep,
     ProgressStep, PlacedStep DEF IInv
<1>2. ASSUME IInv, UNCHANGED vars PROVE IInv'
  <2> USE <1>2 DEF IInv, vars
  <2>1. image' = image BY DEF image
  <2>2. /\ \A p : Wanted(p)' = Wanted(p)
        /\ \A p : Wanted(Parent(p))' = Wanted(Parent(p))
        /\ Wanted(at)' = Wanted(at) /\ Wanted(now.path)' = Wanted(now.path)
    BY DEF Wanted
  <2>3. /\ \A p : Leads(p)' = Leads(p)
        /\ Leads(at)' = Leads(at) /\ Leads(now.path)' = Leads(now.path)
    BY DEF Leads
  <2>4. TypeOK' BY DEF TypeOK
  <2>5. Disk' BY DEF Disk, LinksStay, FileSystem, MayLead
  <2>6. Control' BY DEF Control
  <2>7. Walk' BY <2>1, <2>2, <2>3 DEF Walk
  <2>8. StepFits'
    <3>1. Place(now.dst)' = Place(now.dst) BY DEF Place
    <3>2. \A p : OnRoot(p)' = OnRoot(p) BY <2>1 DEF OnRoot, FileTime
    <3>3. OnRoot(now.path)' = OnRoot(now.path) BY <2>1 DEF OnRoot, FileTime
    <3>4. Is(now.path, Place(now.dst))' = Is(now.path, Place(now.dst)) BY <2>1, <3>1 DEF Is
    <3>5. FileTime' = FileTime BY DEF FileTime
    <3>6. QED BY <2>1, <2>3, <3>1, <3>2, <3>3, <3>4, <3>5 DEF StepFits, There
  <2>9. LinesFit' BY DEF LinesFit, LineFits
  <2>10. UserFits' BY DEF UserFits, UserFilesSurvive
  <2>11. Tracked'
    <3>1. Pending' = Pending BY <2>1 DEF Pending, Place
    <3>2. Exempt' = Exempt BY <3>1 DEF Exempt
    <3>3. \A e : Left(e)' = Left(e) BY DEF Left
    <3>4. QED BY <3>2, <3>3, TrackedKept DEF There
  <2>12. Progress' BY ProgressKept DEF Progress, Placing
  <2>13. Placed'
    <3>1. \A p : Undisturbed(p) BY <2>3 DEF Undisturbed
    <3>2. QED BY <3>1, PlacedKept DEF Placing
  <2>14. QED BY <2>4, <2>5, <2>6, <2>7, <2>8, <2>9, <2>10, <2>11, <2>12, <2>13
<1>3. QED BY <1>1, <1>2

(***************************************************************************)
(* The invariant holds in every reachable state, so that each property     *)
(* below needs to follow from it only.                                     *)
(***************************************************************************)
THEOREM InvariantHolds == Spec => []IInv
<1> QED BY IInvInit, IInvStep, PTL DEF Spec

(***************************************************************************)
(* What the user has last written survives every installation, replacement *)
(* and removal, and wherever one of these stops.                           *)
(***************************************************************************)
THEOREM UserFilesAreKept == Spec => []UserFilesSurvive
<1>1. IInv => UserFilesSurvive BY DEF IInv, UserFits
<1> QED BY <1>1, InvariantHolds, PTL

(* A line of a version by the path that it is found at.                    *)
LEMMA LineOfPlace ==
    ASSUME TypeOK, Disk, Control, NEW q \in Paths, NEW e \in DOMAIN entries, NEW l \in Left(e), Matches(l, q)
    PROVE  l \in entries[e].contents /\ Resolved(l.path) = q
<1>1. l \in entries[e].contents BY DEF Left, Control
<1>2. entries[e].contents \subseteq Lines /\ setting \in Settings BY DEF TypeOK
<1>3. l.path \in Paths BY <1>1, <1>2 DEF Lines
<1>4. QED BY <1>1, <1>2, <1>3, ResolvedIsPlace DEF Matches, Disk

LEMMA EverythingListed == IInv => NothingUntracked
<1> SUFFICES ASSUME IInv, NEW q \in Paths, There(q), q \notin DOMAIN user \cup stray \cup UnderWay \cup Protected \cup Updates,
                    root[q] # setting.root[q]
             PROVE  \E e \in DOMAIN entries : \E l \in entries[e].contents :
                      /\ Resolved(l.path) = q
                      /\ l.type = root[q].type /\ l.content = root[q].content /\ l.mtime = root[q].mtime
  BY DEF NothingUntracked, There
<1>0. TypeOK /\ Disk /\ Control /\ Walk /\ StepFits /\ Tracked BY DEF IInv
<1>1. q \notin Exempt BY <1>0, PendingIsUnderWay DEF Exempt
<1>2. PICK e \in DOMAIN entries : \E l \in Left(e) : Matches(l, q) BY <1>0, <1>1 DEF Tracked
<1>3. PICK l \in Left(e) : Matches(l, q) BY <1>2
<1>4. l \in entries[e].contents /\ Resolved(l.path) = q BY <1>0, <1>3, LineOfPlace
<1> QED BY <1>3, <1>4 DEF Matches

(***************************************************************************)
(* At any moment what has been put on the root is listed in the contents   *)
(* of a version, as it is there, so that it can be uninstalled, but for    *)
(* the entry that an installation is or was at.                            *)
(***************************************************************************)
THEOREM EverythingIsListed == Spec => []NothingUntracked
<1> QED BY EverythingListed, InvariantHolds, PTL

LEMMA CompleteWhenDone == IInv => InstallationComplete
<1> SUFFICES ASSUME IInv, stage = "idle", complete # 0 PROVE InstallationComplete
  BY DEF InstallationComplete
<1>0. TypeOK /\ Disk /\ Control /\ LinesFit /\ Tracked /\ Progress /\ Placed BY DEF IInv
<1>1. version = complete /\ now = Idle /\ todo = {} BY <1>0 DEF Control
<1>2. Placing /\ setting \in Settings BY <1>0, <1>1 DEF Placing, TypeOK
<1> DEFINE new == setting.image[complete]
           listed == {l.path : l \in entries[Newest].contents}
           empty(p) == ~ \E q \in Below(p) \cap DOMAIN new : Wanted(q)
           is(p, q) == /\ root[q].type = new[p].type
                       /\ \/ root[q].content = new[p].content
                          \/ q \in mixed /\ IsPrefix(new[p].content, root[q].content)
                          \/ q \in cut
<1>3. new = image /\ listed = Listed BY <1>1 DEF image, Listed
<1>4. /\ entries[Newest].version = complete /\ Newest \in Installed
      /\ DOMAIN entries = unseen \cup {Newest}
  BY <1>0, <1>1, <1>2 DEF Progress, Installed
<1>5. {p \in DOMAIN new : Wanted(p)} \subseteq listed BY <1>0, <1>1, <1>2, <1>3 DEF Progress
<1>6. listed \subseteq {p \in DOMAIN new : Wanted(p) \/ (setting.rename /\ Wanted(Parent(p)))}
  <2>1. ASSUME NEW p \in Listed PROVE p \in DOMAIN image /\ (Wanted(p) \/ (setting.rename /\ Wanted(Parent(p))))
    BY <1>0, <1>2, ListedParts DEF Progress
  <2>2. QED BY <1>3, <2>1
<1>7. ASSUME NEW p \in DOMAIN new, Wanted(p)
      PROVE  \/ new[p].type = "dir" /\ (IsDirectory(p) \/ (root[p].type = "sym" /\ empty(p)))
             \/ is(p, Resolved(p))
             \/ Resolved(p) \in touched
             \/ p \in Protected /\ \E q \in Range(UpdateNames[p]) : is(p, q)
  <2>1. p \in Listed BY <1>3, <1>5, <1>7
  <2>2. InPlace(p) BY <1>0, <1>2, <2>1 DEF Placed, IsPlaced
  <2>3. p \in Paths /\ (image[p].type = "dir" => Len(p) = 1) BY <1>0, <1>2, <2>1, ListedParts
  <2>4. Resolved(p) = Place(p) BY <1>0, <1>2, <2>3, ResolvedIsPlace DEF Disk
  <2>5. \A q : is(p, q) <=> Is(p, q) BY <1>3 DEF Is
  <2>6. CASE image[p].type = "dir"
    <3>1. IsDirectory(p) <=> Leads(p) BY <1>2, <2>3, <2>6, DirectoryLeads
    <3>2. QED BY <1>3, <2>2, <2>6, <3>1 DEF InPlace
  <2>7. CASE image[p].type # "dir" BY <2>2, <2>4, <2>5, <2>7 DEF InPlace
  <2>8. QED BY <2>6, <2>7
<1>8. ASSUME NEW q \in Paths, root[q].type \in {"file", "sym"}
      PROVE  \/ q \in DOMAIN user \cup stray \cup Protected \cup Updates
             \/ root[q] = setting.root[q]
             \/ \E e \in DOMAIN entries : \E l \in entries[e].contents : Resolved(l.path) = q
  <2>1. SUFFICES ASSUME q \notin DOMAIN user \cup stray \cup Protected \cup Updates, root[q] # setting.root[q]
                 PROVE  \E e \in DOMAIN entries : \E l \in entries[e].contents : Resolved(l.path) = q
    OBVIOUS
  <2>2. q \notin Exempt BY <1>1, <2>1 DEF Exempt, Pending
  <2>3. PICK e \in DOMAIN entries : \E l \in Left(e) : Matches(l, q) BY <1>0, <1>8, <2>1, <2>2 DEF Tracked, There
  <2>4. PICK l \in Left(e) : Matches(l, q) BY <2>3
  <2>5. l \in entries[e].contents /\ Resolved(l.path) = q BY <1>0, <2>4, LineOfPlace
  <2>6. QED BY <2>5
<1> QED BY <1>4, <1>5, <1>6, <1>7, <1>8 DEF InstallationComplete

(***************************************************************************)
(* A completed installation has put everything there that it should, and   *)
(* has left nothing of what it replaces.                                   *)
(***************************************************************************)
THEOREM InstallationsAreComplete == Spec => []InstallationComplete
<1> QED BY CompleteWhenDone, InvariantHolds, PTL

LEMMA NothingMissingAfter ==
    ASSUME IInv, Next, NEW q \in Paths, root[q].type = "file", root'[q].type = "nothing", q \notin Updates,
           version # 0, NEW p \in DOMAIN image, Wanted(p), image[p].type = "file"
    PROVE  Resolved(p) # q
<1>0. TypeOK /\ Disk /\ Control /\ Walk /\ StepFits /\ LinesFit /\ UserFits /\ Progress /\ Placed BY DEF IInv
<1>a. setting \in Settings /\ root \in [Paths -> Nodes] /\ version \in Versions BY <1>0 DEF TypeOK
<1>b. p \in Paths /\ Resolved(p) = Place(p) BY <1>0, <1>a, ImageParts, ResolvedIsPlace DEF image, Disk
<1> SUFFICES ASSUME Place(p) = q PROVE FALSE BY <1>b
<1>c. root' # root OBVIOUS
<1>1. CASE Unlink
  <2>1. stage = "merging" /\ now.step = "unlink" BY <1>1 DEF Unlink, Ready
  <2>2. /\ now # Idle /\ Resolved(now.dst) = Place(now.dst) /\ now.path \in DOMAIN image /\ Place(now.dst) \in Paths
        /\ image[now.path].type # "file" => now.dst = now.path
    BY <1>0, <2>1, AtEntry
  <2>3. image[now.path].type = "sym" BY <1>0, <2>1, <2>2 DEF StepFits
  <2>4. root' = [root EXCEPT ![Place(now.dst)] = Nothing] BY <1>1, <2>2 DEF Unlink
  <2>5. Place(now.path) = q BY <1>a, <2>2, <2>3, <2>4
  <2>6. p = now.path BY <1>a, <2>2, <2>3, <2>5, PlacesAreDistinct DEF image
  <2>7. QED BY <2>3, <2>6
<1>2. CASE RenameFile
  <2>1. PICK r, c, m : root' = [root EXCEPT ![r] = File(c, m)] BY <1>2 DEF RenameFile
  <2>2. QED BY <1>a, <2>1, NodeTypes
<1>3. CASE InstallSym
  <2>1. PICK r, c, m : root' = [root EXCEPT ![r] = Sym(c, m)] BY <1>3 DEF InstallSym
  <2>2. QED BY <1>a, <2>1, NodeTypes
<1>4. CASE InstallDir
  <2>1. CASE ~ setting.rename
    <3>1. root' = [root EXCEPT ![now.path] = Dir] BY <1>4, <2>1 DEF InstallDir
    <3>2. QED BY <1>a, <3>1, NodeTypes
  <2>2. CASE setting.rename
    <3>1. root' = [r \in Paths |-> IF r \in (Below(now.path) \cap DOMAIN image) \cup {now.path} THEN OnRoot(r) ELSE root[r]]
      BY <1>4, <2>2 DEF InstallDir, OnRoot
    <3>2. root'[q] = OnRoot(q) BY <3>1
    <3>3. OnRoot(q).type # "nothing" BY NodeTypes DEF OnRoot
    <3>4. QED BY <3>2, <3>3
  <2>3. QED BY <2>1, <2>2
<1>5. CASE UnmergeEntry
  <2>1. PICK l \in LastOf(unmerge) : Removes(l) /\ root' = [root EXCEPT ![Resolved(l.path)] = Nothing]
    BY <1>5, <1>c DEF UnmergeEntry
  <2>2. stage = "unmerging" /\ l \in unmerge BY <1>5, <2>1 DEF UnmergeEntry, LastOf
  <2>3. /\ Resolved(l.path) = Place(l.path) /\ Place(l.path) \in Paths /\ l.path \in Paths
        /\ l.type = root[Place(l.path)].type /\ (l.type = "file" => l.path \notin Protected)
    BY <1>0, <2>1, <2>2, Removed
  <2>4. Place(l.path) = q BY <1>a, <2>1, <2>3
  <2>5. Placing /\ todo = {} BY <1>0, <2>2 DEF Placing, Control
  <2>6. p \in Listed BY <1>0, <2>5 DEF Progress
  <2>7. p \in Protected BY <1>0, <2>1, <2>2, <2>4, <2>5, <2>6, NotOfThisOne
  <2>8. q = p BY <1>a, <1>b, <2>7, PlaceOfProtected
  <2>9. l.path = q BY <1>a, <2>3, <2>4, <2>7, <2>8, PlaceOfProtected
  <2>10. QED BY <2>3, <2>4, <2>7, <2>8, <2>9
<1>6. ASSUME NEW r \in Paths, UserWrites(r) PROVE FALSE
  <2>1. root' = [root EXCEPT ![r] = File(UserContent, 11 + clock)] BY <1>6 DEF UserWrites, Edits
  <2>2. QED BY <1>a, <2>1, NodeTypes
<1>7. ASSUME NEW r \in Protected, NEW i \in DOMAIN UpdateNames[r], UserAccepts(r, i) PROVE FALSE
  <2> DEFINE u == UpdateNames[r][i]
  <2>1. root' = [root EXCEPT ![r] = root[u], ![u] = Nothing] /\ root[u].type = "file" BY <1>7 DEF UserAccepts
  <2>2. u \in Updates BY DEF Updates, Range
  <2>3. QED BY <1>a, <2>1, <2>2
<1> QED
  BY <1>c, <1>1, <1>2, <1>3, <1>4, <1>5, <1>6, <1>7
  DEF Next, CheckMerge, BeginMerge, Skip, StartEntry, LeaveDirectory, CopyFile, TrackRenamed, Track, MergeDone,
      Replace, Uninstall, UnmergeDone, InstallDone, Fail, Crash, StopHere

(***************************************************************************)
(* A file of the version that is being installed is not missing at any     *)
(* moment once it is there.                                                *)
(***************************************************************************)
THEOREM NothingIsMissing == Spec => NeverMissing
<1> DEFINE NoneGoes ==
        \A q \in Paths : root[q].type = "file" /\ root'[q].type = "nothing" /\ q \notin Updates =>
            \/ version = 0
            \/ ~ \E p \in DOMAIN image : Wanted(p) /\ image[p].type = "file" /\ Resolved(p) = q
<1>1. IInv /\ [Next]_vars => [NoneGoes]_vars BY NothingMissingAfter
<1> QED BY <1>1, InvariantHolds, PTL DEF Spec, NeverMissing
=============================================================================
