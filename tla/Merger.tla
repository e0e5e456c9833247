------------------------------- MODULE Merger -------------------------------
(***************************************************************************)
(* What installing, replacing and uninstalling a package does to the root: *)
(* ExndbamRepository::merge() and its perform_uninstall(), the FSMerger    *)
(* that puts an image on the root one entry at a time and lists it in the  *)
(* contents of the new version, and the Unmerger that goes through the     *)
(* contents of an old one.  Any step may be the last one; what it leaves   *)
(* is what the next installation finds.                                    *)
(***************************************************************************)
EXTENDS SequencesExt, Integers

CONSTANTS
    PathSeq,       \* the paths below the root, in the order of their names
    Protected,     \* those that are config protected
    UpdateNames,   \* for each of those the names ._cfg0000_x, ._cfg0001_x, ...
    Settings,      \* the roots, images and options that are considered
    UserContent,   \* what the user writes into files
    MaxInstalls, MaxEdits, MaxStops

Paths == Range(PathSeq)
Versions == {1, 2}

Nothing == [type |-> "nothing", content |-> <<>>, mtime |-> 0]
Dir == [type |-> "dir", content |-> <<>>, mtime |-> 0]
File(content, mtime) == [type |-> "file", content |-> content, mtime |-> mtime]
Sym(target, mtime) == [type |-> "sym", content |-> target, mtime |-> mtime]

Updates == UNION {Range(UpdateNames[p]) : p \in Protected}
Parent(p) == Front(p)
Below(p) == {q \in Paths : IsStrictPrefix(p, q)}

(* A path as the system calls see it: a directory may be a symlink.        *)
ResolvedOn(files, p) ==
    IF Len(p) > 1 /\ files[Parent(p)].type = "sym" THEN Append(files[Parent(p)].content, Last(p)) ELSE p

-----------------------------------------------------------------------------
(* What is assumed of the roots and images that are considered.            *)

Nodes ==
    {Nothing, Dir} \cup [type : {"file"}, content : Seq(STRING), mtime : Nat]
                  \cup [type : {"sym"}, content : Paths, mtime : Nat]
ImageNodes ==
    {[type |-> "dir", content |-> <<>>]}
        \cup [type : {"file"}, content : {c \in Seq(STRING) : c # <<>> /\ c[1] # UserContent[1]}]
        \cup [type : {"sym"}, content : Paths]

(* The bound on paths: there are two levels of them.                       *)
TwoLevels ==
    \A p \in Paths : p \in Seq(STRING) /\ Len(p) \in 1..2 /\ (Len(p) = 2 => Parent(p) \in Paths)

(* What is protected, and its updates, are files next to each other.       *)
UpdatesAreNear ==
    /\ Protected \subseteq Paths
    /\ UpdateNames \in [Protected -> Seq(Paths)]
    /\ Protected \cap Updates = {}
    /\ \A p \in Protected \cup Updates : Below(p) = {}
    /\ \A p \in Protected : \A u \in Range(UpdateNames[p]) : Parent(u) = Parent(p)
    /\ \A p, q \in Protected : Range(UpdateNames[p]) \cap Range(UpdateNames[q]) # {} => p = q

(* A root is a file system; all that is on it is older than the images.    *)
RootIsFit(files) ==
    /\ files \in [Paths -> Nodes]
    /\ \A p \in Paths :
          /\ files[p].type = "dir" => Len(p) = 1
          /\ files[p] # Nothing /\ Len(p) = 2 => files[Parent(p)].type = "dir"
          /\ files[p].type = "file" => files[p].mtime = 0
          /\ ResolvedOn(files, p) \in Paths

ImageIsFit(im) ==
    /\ DOMAIN im \subseteq Paths
    /\ \A p \in DOMAIN im :
          /\ im[p] \in ImageNodes
          /\ im[p].type = "dir" => Len(p) = 1 /\ p \notin Protected
          /\ Len(p) = 2 => Parent(p) \in DOMAIN im
          /\ p \notin Updates

(* A name that is a directory in one version is not something else in      *)
(* another: directories that are symlinks are so on the root at first.     *)
DirectoriesStay(s) ==
    \A v, w \in Versions : \A p \in DOMAIN s.image[v] :
        s.image[v][p].type # "dir" =>
            Below(p) = {} /\ (p \in DOMAIN s.image[w] => s.image[w][p].type # "dir")

(* No two files of an image are one on the root, and none is a             *)
(* configuration file or a volatile one by another name.                   *)
NamesAreDistinct(s) ==
    /\ \A v \in Versions : \A p, q \in DOMAIN s.image[v] :
          /\ s.image[v][p].type # "dir" /\ s.image[v][q].type # "dir"
          /\ ResolvedOn(s.root, p) = ResolvedOn(s.root, q)
          => p = q
    /\ \A p \in Paths : \A q \in Protected \cup Updates : ResolvedOn(s.root, p) = q <=> p = q
    /\ \A p \in Paths : \A q \in s.volatile : ResolvedOn(s.root, p) = ResolvedOn(s.root, q) => p = q

SettingIsFit(s) ==
    /\ RootIsFit(s.root)
    /\ \A v \in Versions : ImageIsFit(s.image[v])
    /\ s.skip \subseteq Paths /\ s.volatile \subseteq Paths
    /\ {s.rename, s.preserveMtimes, s.dirOverSymDirIsError} \subseteq BOOLEAN
    /\ DirectoriesStay(s) /\ NamesAreDistinct(s)

(* What the user writes is in no package: none has a file that begins so.  *)
UserContentFits == UserContent \in Seq(STRING) /\ Len(UserContent) = 1

ASSUME MergerAssumption ==
    TwoLevels /\ UpdatesAreNear /\ UserContentFits /\ \A s \in Settings : SettingIsFit(s)

VARIABLES
    setting,    \* the options, the images, and what is on the root at first
    root,       \* the root file system
    midmerge,   \* the "|paludis-midmerge" files on it, by what they become
    entries,    \* the directories of the installed versions: version and contents
    indexed,    \* whether the database has the package's name in its indices
    unseen,     \* the directories that a process does not know, having looked before that
    stage, version, clock,
    entry,      \* the directory that is being written, or whose contents are unmerged
    at, todo,   \* where do_dir_recursive() is, and what of the image is left
    now,        \* the entry it is at: its path, where it goes, and the next step
    merged,     \* merged_entries
    unmerge,    \* the lines of the contents that are left to unmerge
    user,       \* the files that the user has last written, with their content
    touched,    \* those written or taken over since the last installation began
    mixed,      \* those whose copy began in what another copy had left
    cut,        \* those of whose copy not everything was written
    stray,      \* what was under way when an installation stopped, and is not listed yet
    complete,   \* the version whose installation has just been completed, or 0
    budget

merging == <<at, todo, now, merged>>
index == <<indexed, unseen>>
observed == <<user, touched, mixed, cut, stray, complete>>
vars == <<setting, root, midmerge, entries, indexed, unseen, stage, version, clock, entry,
          at, todo, now, merged, unmerge, user, touched, mixed, cut, stray, complete, budget>>

Idle == [path |-> <<>>, dst |-> <<>>, step |-> "none"]

Init ==
    /\ setting \in Settings
    /\ root = setting.root
    /\ midmerge = <<>>
    /\ entries = <<>> /\ indexed = FALSE /\ unseen = {}
    /\ stage = "idle" /\ version = 0 /\ clock = 0 /\ entry = 0
    /\ at = <<>> /\ todo = {} /\ now = Idle /\ merged = {} /\ unmerge = {}
    /\ user = [p \in {p \in Paths : root[p].type = "file"} |-> root[p].content]
    /\ touched = {} /\ mixed = {} /\ cut = {} /\ stray = {} /\ complete = 0
    /\ budget = [installs |-> MaxInstalls, edits |-> MaxEdits, stops |-> MaxStops]

-----------------------------------------------------------------------------
(* The root as the system calls see it: a directory may be a symlink.      *)

Resolved(p) == ResolvedOn(root, p)

Stat(p) == root[Resolved(p)]

IsDirectory(p) ==
    Stat(p).type = "dir" \/ (Stat(p).type = "sym" /\ root[Stat(p).content].type = "dir")

image == setting.image[version]

(***************************************************************************)
(* The table of on_*_over_*(): whether what is there may be replaced, or,  *)
(* for a directory, used.                                                  *)
(***************************************************************************)
MayGoOver(node, p) ==
    LET old == Stat(p).type
    IN  IF node.type = "dir"
        THEN old \in {"nothing", "dir"} \/ (old = "sym" /\ IsDirectory(p) /\ ~ setting.dirOverSymDirIsError)
        ELSE old # "dir"

(* NDBAM::entries(), in a process that has not looked yet                  *)
Installed == IF indexed THEN DOMAIN entries ELSE {}

(***************************************************************************)
(* A new installation, once Merger::check() has found nothing wrong.       *)
(***************************************************************************)
CheckMerge(v) ==
    /\ stage = "idle" /\ budget.installs > 0
    /\ \A p \in DOMAIN setting.image[v] : MayGoOver(setting.image[v][p], p)
    /\ stage' = "checked" /\ version' = v /\ complete' = 0
    /\ unseen' = DOMAIN entries \ Installed
    /\ budget' = [budget EXCEPT !.installs = @ - 1]
    /\ UNCHANGED <<setting, root, midmerge, indexed, entries, clock, entry, merging, unmerge, user, touched,
                   mixed, cut, stray>>

(* The new directory is named by the time, in its cookie().                *)
BeginMerge ==
    /\ stage = "checked"
    /\ clock' = clock + 1
    /\ entry' = clock'
    /\ entries' = [e \in DOMAIN entries \cup {entry'} |->
                     IF e = entry' THEN [version |-> version, contents |-> {}] ELSE entries[e]]
    /\ stage' = "merging"
    /\ at' = <<>> /\ todo' = DOMAIN image /\ now' = Idle /\ merged' = {}
    /\ touched' = {}
    /\ UNCHANGED <<setting, root, midmerge, index, version, unmerge, user, mixed, cut, stray, complete, budget>>

-----------------------------------------------------------------------------
(* Merger::do_dir_recursive()                                              *)

IsNext(p) == stage = "merging" /\ now = Idle /\ p \in todo /\ Parent(p) = at

(* An override hook says "skip".                                           *)
Skip(p) ==
    /\ IsNext(p) /\ p \in setting.skip
    /\ todo' = todo \ ({p} \cup Below(p))
    /\ UNCHANGED <<setting, root, midmerge, index, entries, stage, version, clock, entry, at, now,
                   merged, unmerge, observed, budget>>

(* make_config_protect_name(): the first name that suits.  (The bound on   *)
(* installations is one on those that are needed.)                         *)
Suits(p, name) ==
    Stat(name) = Nothing \/ (Stat(name).type = "file" /\ Stat(name).content = image[p].content)

ConfigProtectName(p) ==
    IF Suits(p, p) THEN {p}
    ELSE {UpdateNames[p][i] : i \in {i \in DOMAIN UpdateNames[p] :
              Suits(p, UpdateNames[p][i]) /\ \A k \in 1..(i - 1) : ~ Suits(p, UpdateNames[p][k])}}

(* Mutant of FileGoesTo: no file is protected.                             *)
NotProtected(p) == {p}

FileGoesTo(p) ==
    IF Stat(p).type = "file" /\ p \in Protected THEN ConfigProtectName(p) ELSE {p}

(* Mutant of FirstStep: what is there is always unlinked first.            *)
UnlinkFirst(node, old) ==
    IF old \in {"file", "sym"} /\ node.type # "dir" THEN "unlink"
    ELSE IF node.type = "dir" /\ old # "nothing" THEN "track" ELSE "install"

(* The first step of on_file(), on_sym() and on_dir(): a file replaces     *)
(* what is there, but a symlink can only be made once it is gone, and a    *)
(* directory that is there is used.                                        *)
FirstStep(node, old) ==
    IF node.type = "sym" /\ old # "nothing" THEN "unlink"
    ELSE IF node.type = "dir" /\ old # "nothing" THEN "track" ELSE "install"

StartEntry(p) ==
    /\ IsNext(p) /\ p \notin setting.skip
    /\ MayGoOver(image[p], p)
    /\ \E dst \in IF image[p].type = "file" THEN FileGoesTo(p) ELSE {p} :
          now' = [path |-> p, dst |-> dst, step |-> FirstStep(image[p], Stat(p).type)]
    /\ UNCHANGED <<setting, root, midmerge, index, entries, stage, version, clock, entry, at, todo,
                   merged, unmerge, observed, budget>>

LeaveDirectory ==
    /\ stage = "merging" /\ now = Idle /\ at # <<>>
    /\ ~ \E p \in todo : Parent(p) = at
    /\ at' = Parent(at)
    /\ UNCHANGED <<setting, root, midmerge, index, entries, stage, version, clock, entry, todo, now,
                   merged, unmerge, observed, budget>>

-----------------------------------------------------------------------------
(* The steps for one entry.                                                *)

Ready(step, types) == stage = "merging" /\ now.step = step /\ image[now.path].type \in types

Forget(f, S) == [p \in DOMAIN f \ S |-> f[p]]

(* unlink_file() and unlink_sym(), before install_sym()                    *)
Unlink ==
    /\ Ready("unlink", {"sym", "file"})
    /\ root' = [root EXCEPT ![Resolved(now.dst)] = Nothing]
    /\ user' = Forget(user, {Resolved(now.dst)})
    /\ now' = [now EXCEPT !.step = "install"]
    /\ UNCHANGED <<setting, midmerge, index, entries, stage, version, clock, entry, at, todo, merged,
                   unmerge, touched, mixed, cut, stray, complete, budget>>

(* With mo_preserve_mtimes a file keeps the time it has in its image.      *)
FileTime == IF setting.preserveMtimes THEN version ELSE 10 + clock

(***************************************************************************)
(* What writing s leaves in the file: only a write() that returns -1 is    *)
(* noticed.  Any of them may have stopped short, though not before what is *)
(* first, and the next one goes on from there.                             *)
(***************************************************************************)
Kept(s, n) ==
    {f \in [1..n -> DOMAIN s] :
        /\ \A k \in 2..n : f[k - 1] < f[k]
        /\ s # <<>> => n > 0 /\ f[1] = 1}

Written(s) == UNION {{[k \in 1..n |-> s[f[k]]] : f \in Kept(s, n)} : n \in 0..Len(s)}

(***************************************************************************)
(* install_file() by copying: the copy is made in a file that is opened    *)
(* without O_EXCL and O_TRUNC, where an earlier installation may have left *)
(* something, and may fail half way.                                       *)
(***************************************************************************)
Overwritten(new, old) == new \o SubSeq(old, Len(new) + 1, Len(old))

CopyFile ==
    /\ Ready("install", {"file"}) /\ ~ setting.rename
    /\ LET dst == Resolved(now.dst)
           new == image[now.path].content
           old == IF dst \in DOMAIN midmerge THEN midmerge[dst] ELSE <<>>
       IN  /\ \E n \in 0..Len(new) : \E w \in Written(SubSeq(new, 1, n)) :
              /\ midmerge' = [p \in DOMAIN midmerge \cup {dst} |->
                                IF p = dst THEN Overwritten(w, old) ELSE midmerge[p]]
              /\ now' = [now EXCEPT !.step = IF n = Len(new) THEN "rename" ELSE "failed"]
              /\ cut' = IF w = new THEN cut \ {dst} ELSE cut \cup {dst}
           /\ mixed' = IF dst \in DOMAIN midmerge THEN mixed \cup {dst} ELSE mixed \ {dst}
    /\ UNCHANGED <<setting, root, index, entries, stage, version, clock, entry, at, todo, merged,
                   unmerge, user, touched, stray, complete, budget>>

(***************************************************************************)
(* The new file gets its name: from the image, or from the copy.  What the *)
(* user has written is not expected to outlive it, unless it is protected: *)
(* then the new one is the same, but for a copy of which some is missing.  *)
(***************************************************************************)
RenameFile ==
    /\ IF setting.rename THEN Ready("install", {"file"}) ELSE Ready("rename", {"file"})
    /\ LET dst == Resolved(now.dst)
       IN  /\ root' = [root EXCEPT ![dst] =
                         File(IF setting.rename THEN image[now.path].content ELSE midmerge[dst], FileTime)]
           /\ midmerge' = IF setting.rename THEN midmerge ELSE Forget(midmerge, {dst})
           /\ user' = IF now.path \in Protected /\ dst \notin cut THEN user ELSE Forget(user, {dst})
    /\ now' = [now EXCEPT !.step = "track"]
    /\ UNCHANGED <<setting, index, entries, stage, version, clock, entry, at, todo, merged, unmerge,
                   touched, mixed, cut, stray, complete, budget>>

InstallSym ==
    /\ Ready("install", {"sym"})
    /\ root' = [root EXCEPT ![Resolved(now.dst)] = Sym(image[now.path].content, 10 + clock)]
    /\ now' = [now EXCEPT !.step = "track"]
    /\ UNCHANGED <<setting, midmerge, index, entries, stage, version, clock, entry, at, todo, merged,
                   unmerge, observed, budget>>

(***************************************************************************)
(* install_dir() where nothing is: the whole directory is renamed, and     *)
(* then gone through by track_renamed_dir_recursive(), or an empty one is  *)
(* made.                                                                   *)
(***************************************************************************)
InstallDir ==
    /\ Ready("install", {"dir"})
    /\ LET inside == Below(now.path) \cap DOMAIN image
           OnRoot(p) == CASE image[p].type = "file" -> File(image[p].content, FileTime)
                          [] image[p].type = "sym" -> Sym(image[p].content, 10 + clock)
                          [] OTHER -> Dir
       IN  IF setting.rename
           THEN /\ root' = [p \in Paths |-> IF p \in inside \cup {now.path} THEN OnRoot(p) ELSE root[p]]
                /\ now' = [now EXCEPT !.step = "renamed"]
           ELSE /\ root' = [root EXCEPT ![now.path] = Dir]
                /\ now' = [now EXCEPT !.step = "track"]
    /\ UNCHANGED <<setting, midmerge, index, entries, stage, version, clock, entry, at, todo, merged,
                   unmerge, observed, budget>>

(* Mutant of Line: the image is listed, not what has become of it.         *)
LineOfImage(p, dst) ==
    [path |-> p, type |-> image[p].type, content |-> image[p].content, mtime |-> Stat(dst).mtime,
     volatile |-> dst \in setting.volatile]

(* What record_install_*() writes: the name is the one in the image even   *)
(* if the file has become a ._cfg one.                                     *)
Line(p, dst) ==
    [path |-> p, type |-> image[p].type, content |-> Stat(dst).content, mtime |-> Stat(dst).mtime,
     volatile |-> dst \in setting.volatile]

Record(p, dst) ==
    /\ entries' = [entries EXCEPT ![entry].contents = @ \cup {Line(p, dst)}]
    /\ merged' = merged \cup {dst}
    /\ todo' = todo \ {p}
    /\ stray' = stray \ {Resolved(dst)}

TrackRenamed(p) ==
    /\ Ready("renamed", {"dir"})
    /\ p \in todo \cap Below(now.path)
    /\ Record(p, p)
    /\ UNCHANGED <<setting, root, midmerge, index, stage, version, clock, entry, at, now, unmerge,
                   user, touched, mixed, cut, complete, budget>>

(* track_install_*(); a directory is then entered unless it was renamed.   *)
Track ==
    /\ \/ Ready("track", {"file", "sym", "dir"})
       \/ Ready("renamed", {"dir"}) /\ todo \cap Below(now.path) = {}
    /\ Record(now.path, IF image[now.path].type = "file" THEN now.dst ELSE now.path)
    /\ at' = IF image[now.path].type = "dir" /\ now.step = "track" THEN now.path ELSE at
    /\ now' = Idle
    /\ UNCHANGED <<setting, root, midmerge, index, stage, version, clock, entry, unmerge, user, touched,
                   mixed, cut, complete, budget>>

-----------------------------------------------------------------------------
(* The other versions in the slot, and uninstalling.                       *)

(* ndbam.index() lists the name only now.                                  *)
MergeDone ==
    /\ stage = "merging" /\ now = Idle /\ at = <<>> /\ todo = {}
    /\ stage' = "overwriting"
    /\ indexed' = TRUE
    /\ UNCHANGED <<setting, root, midmerge, unseen, entries, version, clock, entry, merging, unmerge,
                   observed, budget>>

(* The unmerge set is gone through from the last path to the first: what   *)
(* is inside a directory comes before it.                                  *)
Before(p, q) == \E i, k \in DOMAIN PathSeq : i < k /\ p = PathSeq[i] /\ q = PathSeq[k]

LastOf(lines) == {l \in lines : \A o \in lines : ~ Before(l.path, o.path)}

(* The one that is overwritten (if_overwritten_id) goes first.  The        *)
(* database still answers as it did at first: if it had not found the      *)
(* name, nothing is replaced.                                              *)
Others == DOMAIN entries \ ({entry} \cup unseen)

Replace(e) ==
    /\ e \in Others
    /\ \/ stage = "overwriting" /\ entries[e].version = version
       \/ stage = "overwriting" /\ \A o \in Others : entries[o].version # version
       \/ stage = "replacing"
    /\ stage' = "unmerging" /\ entry' = e
    /\ unmerge' = entries[e].contents
    /\ UNCHANGED <<setting, root, midmerge, index, entries, version, clock, merging, observed, budget>>

Uninstall(e) ==
    /\ stage = "idle" /\ budget.installs > 0
    /\ stage' = "unmerging" /\ version' = 0 /\ entry' = e
    /\ merged' = {} /\ unseen' = {} /\ complete' = 0
    /\ unmerge' = entries[e].contents
    /\ budget' = [budget EXCEPT !.installs = @ - 1]
    /\ UNCHANGED <<setting, root, midmerge, indexed, entries, clock, at, todo, now, user, touched,
                   mixed, cut, stray>>

(* Mutant of CheckFile: the time is not compared.                          *)
CheckContent(l) ==
    /\ Stat(l.path).type = "file"
    /\ l.path \notin Protected
    /\ l.volatile \/ Stat(l.path).content = l.content

CheckFile(l) ==
    /\ Stat(l.path).type = "file"
    /\ l.path \notin Protected
    /\ l.volatile \/ (Stat(l.path).mtime = l.mtime /\ Stat(l.path).content = l.content)

CheckSym(l) ==
    /\ Stat(l.path).type = "sym"
    /\ l.volatile \/ (Stat(l.path).mtime = l.mtime /\ Stat(l.path).content = l.content)

CheckDir(l) == Stat(l.path).type = "dir" /\ \A p \in Below(Resolved(l.path)) : root[p] = Nothing

Removes(l) ==
    /\ l.path \notin merged
    /\ CASE l.type = "file" -> CheckFile(l) [] l.type = "sym" -> CheckSym(l) [] OTHER -> CheckDir(l)

(* unmerge_file(), unmerge_sym() and unmerge_dir()                         *)
UnmergeEntry ==
    /\ stage = "unmerging"
    /\ \E l \in LastOf(unmerge) :
          /\ IF Removes(l)
             THEN /\ root' = [root EXCEPT ![Resolved(l.path)] = Nothing]
                  /\ user' = IF l.volatile THEN Forget(user, {Resolved(l.path)}) ELSE user
             ELSE UNCHANGED <<root, user>>
          /\ unmerge' = unmerge \ {l}
    /\ UNCHANGED <<setting, midmerge, index, entries, stage, version, clock, entry, merging, touched, mixed,
                   cut, stray, complete, budget>>

Newest == CHOOSE e \in DOMAIN entries : \A o \in DOMAIN entries : o <= e

(* Its directory goes, and with the last one the name, by deindex().       *)
(* While replacing, the new one is the latest.                             *)
UnmergeDone ==
    /\ stage = "unmerging" /\ unmerge = {}
    /\ entries' = Forget(entries, {entry})
    /\ indexed' = (indexed /\ DOMAIN entries # {entry})
    /\ IF version = 0 THEN stage' = "idle" /\ entry' = 0
       ELSE stage' = "replacing" /\ entry' = Newest
    /\ UNCHANGED <<setting, root, midmerge, unseen, version, clock, merging, unmerge, observed, budget>>

InstallDone ==
    /\ stage \in {"overwriting", "replacing"} /\ Others = {}
    /\ stage' = "idle" /\ complete' = version
    /\ UNCHANGED <<setting, root, midmerge, index, entries, version, clock, entry, merging, unmerge,
                   user, touched, mixed, cut, stray, budget>>

-----------------------------------------------------------------------------
(* What else happens.                                                      *)

UnderWay ==
    IF now = Idle THEN {}
    ELSE {Resolved(now.path), Resolved(now.dst)} \cup {Resolved(p) : p \in Below(now.path)}

StopHere ==
    /\ stage' = "idle" /\ version' = 0 /\ entry' = 0
    /\ at' = <<>> /\ todo' = {} /\ now' = Idle /\ merged' = {} /\ unmerge' = {}
    /\ stray' = stray \cup UnderWay
    /\ UNCHANGED <<setting, root, midmerge, index, entries, clock, user, touched, mixed, cut, complete>>

(* An error is thrown: what is on the root is in the way, or a copy fails. *)
Fail ==
    /\ stage = "merging"
    /\ \/ now.step = "failed"
       \/ \E p \in todo : IsNext(p) /\ p \notin setting.skip /\ ~ MayGoOver(image[p], p)
    /\ StopHere
    /\ UNCHANGED budget

(* The program is killed.                                                  *)
Crash ==
    /\ stage # "idle" /\ budget.stops > 0
    /\ budget' = [budget EXCEPT !.stops = @ - 1]
    /\ StopHere

Edits(p, node) ==
    /\ now = Idle /\ budget.edits > 0
    /\ root' = [root EXCEPT ![p] = node]
    /\ budget' = [budget EXCEPT !.edits = @ - 1]
    /\ clock' = clock + 1
    /\ touched' = touched \cup {p}
    /\ UNCHANGED <<setting, midmerge, index, entries, stage, version, entry, merging, unmerge, mixed, cut,
                   stray, complete>>

(* The user writes a file, also one that is in the way of what is merged.  *)
UserWrites(p) ==
    /\ root[p].type \in {"file", "nothing"} /\ p \notin Updates
    /\ Len(p) > 1 => root[Parent(p)].type = "dir"
    /\ Edits(p, File(UserContent, 11 + clock))
    /\ user' = [q \in DOMAIN user \cup {p} |-> IF q = p THEN UserContent ELSE user[q]]

(* The user takes over an update of a protected file.                      *)
UserAccepts(p, i) ==
    /\ now = Idle /\ budget.edits > 0
    /\ LET update == UpdateNames[p][i]
       IN  /\ root[update].type = "file" /\ root[p].type # "dir"
           /\ root' = [root EXCEPT ![p] = root[update], ![update] = Nothing]
           /\ user' = Forget(user, {p, update})
    /\ touched' = touched \cup {p}
    /\ budget' = [budget EXCEPT !.edits = @ - 1]
    /\ UNCHANGED <<setting, midmerge, index, entries, stage, version, clock, entry, merging, unmerge,
                   mixed, cut, stray, complete>>

Next ==
    \/ \E v \in Versions : CheckMerge(v)
    \/ BeginMerge
    \/ \E p \in todo : Skip(p)
    \/ \E p \in todo : StartEntry(p)
    \/ LeaveDirectory
    \/ Unlink \/ CopyFile \/ RenameFile \/ InstallSym \/ InstallDir
    \/ \E p \in todo : TrackRenamed(p)
    \/ Track
    \/ MergeDone
    \/ \E e \in DOMAIN entries : Replace(e)
    \/ \E e \in Installed : Uninstall(e)
    \/ UnmergeEntry \/ UnmergeDone \/ InstallDone
    \/ Fail \/ Crash
    \/ \E p \in Paths : UserWrites(p)
    \/ \E p \in Protected : \E i \in DOMAIN UpdateNames[p] : UserAccepts(p, i)

Spec == Init /\ [][Next]_vars

-----------------------------------------------------------------------------

(***************************************************************************)
(* What the user has last written is still there, word for word, unless a  *)
(* package has a file there that is not protected, or a symlink, or it was *)
(* said to be volatile, or a copy of the same file that replaces it was    *)
(* cut by a write that nobody noticed: however versions replace each       *)
(* other, whichever installation stops where, through whatever symlinks    *)
(* the paths lead.                                                         *)
(***************************************************************************)
UserFilesSurvive ==
    \A p \in DOMAIN user : root[p].type = "file" /\ root[p].content = user[p]

Wanted(p) == p \notin setting.skip /\ ~ \E q \in setting.skip : IsPrefix(q, p)

(***************************************************************************)
(* After a completed installation that version is installed, and no other, *)
(* except for one that the database does not show, since its installation, *)
(* the first of the package, had stopped.  Everything of it is on the root *)
(* as it was in its image (the update of a protected file by its own name, *)
(* if need be), but for what the user has written since, for the end of a  *)
(* copy that a stopped installation has left behind, and for a copy in     *)
(* which something is missing, since a write stopped short and nobody      *)
(* noticed; and nothing of the versions it has replaced is there any more. *)
(* A directory in which there is nothing of this version may be a symlink  *)
(* on the root that has been left without the directory it leads to, by    *)
(* the removal of an old one.                                              *)
(***************************************************************************)
InstallationComplete ==
    stage = "idle" /\ complete # 0 =>
        LET new == setting.image[complete]
            this == Newest
            listed == {l.path : l \in entries[this].contents}
            empty(p) == ~ \E q \in Below(p) \cap DOMAIN new : Wanted(q)
            is(p, q) == /\ root[q].type = new[p].type
                        /\ \/ root[q].content = new[p].content
                           \/ q \in mixed /\ IsPrefix(new[p].content, root[q].content)
                           \/ q \in cut
        IN  /\ entries[this].version = complete
            /\ this \in Installed /\ DOMAIN entries = unseen \cup {this}
            /\ {p \in DOMAIN new : Wanted(p)} \subseteq listed
            /\ listed \subseteq {p \in DOMAIN new : Wanted(p) \/ (setting.rename /\ Wanted(Parent(p)))}
            /\ \A p \in DOMAIN new : Wanted(p) =>
                  \/ new[p].type = "dir" /\ (IsDirectory(p) \/ (root[p].type = "sym" /\ empty(p)))
                  \/ is(p, Resolved(p))
                  \/ Resolved(p) \in touched
                  \/ p \in Protected /\ \E q \in Range(UpdateNames[p]) : is(p, q)
            /\ \A q \in Paths : root[q].type \in {"file", "sym"} =>
                  \/ q \in DOMAIN user \cup stray \cup Protected \cup Updates
                  \/ root[q] = setting.root[q]
                  \/ \E e \in DOMAIN entries : \E l \in entries[e].contents : Resolved(l.path) = q

(***************************************************************************)
(* At any moment everything that was put on the root is listed in the      *)
(* contents of a version, as it is on the root, so that it can be          *)
(* uninstalled, but for the one entry that an installation is at, or was   *)
(* at when it stopped.                                                     *)
(***************************************************************************)
NothingUntracked ==
    \A q \in Paths : root[q].type \in {"file", "sym"} =>
        \/ q \in DOMAIN user \cup stray \cup UnderWay \cup Protected \cup Updates
        \/ root[q] = setting.root[q]
        \/ \E e \in DOMAIN entries : \E l \in entries[e].contents :
              /\ Resolved(l.path) = q
              /\ l.type = root[q].type /\ l.content = root[q].content /\ l.mtime = root[q].mtime

(***************************************************************************)
(* While a version is installed, a file that is there and belongs to it is *)
(* never missing, not even for a moment: it is replaced at once, and it is *)
(* not removed with the version that had it before, whatever the path.     *)
(***************************************************************************)
NeverMissing ==
    [][\A q \in Paths : root[q].type = "file" /\ root'[q].type = "nothing" /\ q \notin Updates =>
          \/ version = 0
          \/ ~ \E p \in DOMAIN image : Wanted(p) /\ image[p].type = "file" /\ Resolved(p) = q]_vars
==============================================================================
