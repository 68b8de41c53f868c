------------------------- MODULE ImportScanCompleteness -------------------------
(***************************************************************************)
(* Proof that a scan which returns has missed nothing, for any number of   *)
(* scans, directories, jobs and renamings.                                 *)
(***************************************************************************)
EXTENDS ImportScanProofs

-----------------------------------------------------------------------------
(* The inductive invariant                                                 *)

FolderSettled(f) == world.user => f \in renamed \/ There(f)

Settled(d, missed) ==
    Importable(d) => Known(d) \/ d \in missed \/ world.data[d].names \cap renamed # {}

\* The folders the scan has been through, and their jobs.
Behind(r) ==
    \A f \in world.folders \ r.unseen : f # r.folder =>
        /\ FolderSettled(f)
        /\ \A d \in JobDir : world.data[d].folder = f => Settled(d, r.missed)

\* The folder in hand, once its project has been dealt with, and the jobs the scan has
\* been through there.
Within(r) == r.at \in {"jobs", "listed"} \cup InJob \/ r.job # None

Inside(r) ==
    r.folder # None /\ Within(r) =>
        /\ FolderSettled(r.folder)
        /\ \A d \in JobDir : world.data[d].folder = r.folder =>
              d \in r.unread \/ d = r.job \/ Settled(d, r.missed)

\* A folder's project is asked for by its own name, and a scan that returns is through.
PlaceRight(r) ==
    /\ r.at \in {"create project", "insert project"} /\ r.job = None => r.want = r.folder
    /\ r.at \in {"folders", "returned"} => r.folder = None
    /\ r.at = "returned" => r.unseen = {}

Thorough(r) ==
    r.at \in Running \cup {"returned"} => Behind(r) /\ Inside(r) /\ PlaceRight(r)

AllThorough == \A s \in Scan : Thorough(scan[s])

-----------------------------------------------------------------------------
(* What lasts                                                              *)

\* A job is importable after a step only if it was before, or a name of it changed hands.
LEMMA SettledStays ==
    ASSUME Grows, NEW d, NEW m, NEW n, m \subseteq n, Settled(d, m)
    PROVE  Settled(d, n)'
<1> SUFFICES ASSUME Importable(d)', ~Known(d)', d \notin n,
                    world.data[d].names \cap renamed' = {}
             PROVE  FALSE
  BY DEF Settled, Grows
<1>1. UNCHANGED world /\ renamed \subseteq renamed' /\ jobs \subseteq jobs'
  BY DEF Grows
<1>2. Importable(d)
  <2> SUFFICES ASSUME NEW p \in projects, p.name \in world.data[d].names
               PROVE  p.id \notin world.closed
    BY <1>1 DEF Importable
  <2>1. PICK q \in projects' : q.id = p.id /\ q.name = p.name
    BY DEF Grows
  <2> QED
    BY <1>1, <2>1 DEF Importable
<1>3. ~Known(d)
  BY <1>1 DEF Known
<1> QED
  BY <1>1, <1>2, <1>3 DEF Settled

\* A folder keeps its project, or its name changes hands.
LEMMA FolderStays ==
    ASSUME Grows, NEW f, FolderSettled(f)
    PROVE  FolderSettled(f)'
BY StaysThere DEF Grows, FolderSettled

\* A scan has been through as much after the step of another.
LEMMA ThoroughStays ==
    ASSUME Grows, NEW r, Thorough(r)
    PROVE  Thorough(r)'
<1> SUFFICES ASSUME r.at \in Running \cup {"returned"}
             PROVE  Behind(r)' /\ Inside(r)' /\ PlaceRight(r)'
  BY DEF Thorough
<1>1. UNCHANGED world
  BY DEF Grows
<1>2. Behind(r) /\ Inside(r) /\ PlaceRight(r)
  BY DEF Thorough
<1>3. Behind(r)'
  <2> SUFFICES ASSUME NEW f \in world.folders \ r.unseen, f # r.folder
               PROVE  /\ FolderSettled(f)'
                      /\ \A d \in JobDir : world.data[d].folder = f => Settled(d, r.missed)'
    BY <1>1 DEF Behind
  <2> QED
    BY <1>2, FolderStays, SettledStays DEF Behind
<1>4. Inside(r)'
  <2> SUFFICES ASSUME r.folder # None, Within(r)
               PROVE  /\ FolderSettled(r.folder)'
                      /\ \A d \in JobDir : world.data[d].folder = r.folder =>
                            d \in r.unread \/ d = r.job \/ Settled(d, r.missed)'
    BY <1>1 DEF Inside, Within
  <2> QED
    BY <1>2, FolderStays, SettledStays DEF Inside
<1>5. PlaceRight(r)'
  BY <1>2 DEF PlaceRight
<1> QED
  BY <1>3, <1>4, <1>5

\* A scan that does not leave its folder is behind as it was.
LEMMA BehindStays ==
    ASSUME Grows, NEW o, Behind(o), NEW r, r.unseen = o.unseen, r.folder = o.folder,
           o.missed \subseteq r.missed
    PROVE  Behind(r)'
<1> SUFFICES ASSUME NEW f \in world.folders \ r.unseen, f # r.folder
             PROVE  /\ FolderSettled(f)'
                    /\ \A d \in JobDir : world.data[d].folder = f => Settled(d, r.missed)'
  BY DEF Grows, Behind
<1> QED
  BY FolderStays, SettledStays DEF Behind

\* A scan goes on with its folder: the jobs it is done with are settled.
LEMMA GoesOn ==
    ASSUME Grows, NEW o, Thorough(o), o.at \in Running, Within(o), NEW r,
           r.at \in Running \ {"folders"}, r.unseen = o.unseen, r.folder = o.folder,
           o.missed \subseteq r.missed,
           r.at \in {"create project", "insert project"} => r.job # None,
           \A d \in JobDir : (d \in o.unread \/ d = o.job) /\ d \notin r.unread /\ d # r.job
               => Settled(d, r.missed)'
    PROVE  Thorough(r)'
<1>1. Behind(o) /\ Inside(o)
  BY DEF Thorough
<1>2. Behind(r)'
  BY <1>1, BehindStays
<1>3. Inside(r)'
  <2> SUFFICES ASSUME r.folder # None
               PROVE  /\ FolderSettled(r.folder)'
                      /\ \A d \in JobDir : world.data[d].folder = r.folder =>
                            d \in r.unread \/ d = r.job \/ Settled(d, r.missed)'
    BY DEF Grows, Inside
  <2> QED
    BY <1>1, FolderStays, SettledStays DEF Inside
<1>4. PlaceRight(r)'
  BY DEF PlaceRight, Running, InProject, InJob
<1> QED
  BY <1>2, <1>3, <1>4 DEF Thorough

\* A scan whose new record is thorough leaves all of them so.
LEMMA ScansThorough ==
    ASSUME Inv, AllThorough, Grows, NEW s \in Scan, NEW r \in Scanner, Set(s, r), Thorough(r)'
    PROVE  AllThorough'
<1>1. /\ scan'[s] = r
      /\ \A q \in Scan \ {s} : scan'[q] = scan[q]
  BY SetScan DEF Inv
<1> SUFFICES ASSUME NEW q \in Scan PROVE Thorough(scan[q])'
  BY DEF AllThorough
<1>2. CASE q = s
  BY <1>1, <1>2
<1>3. CASE q # s
  <2>1. PICK t : t = scan[q]
    OBVIOUS
  <2>2. Thorough(t)'
    BY <2>1, ThoroughStays DEF AllThorough
  <2> QED
    BY <1>1, <1>3, <2>1, <2>2
<1> QED
  BY <1>2, <1>3

-----------------------------------------------------------------------------
(* The steps of the loops                                                  *)

\* What is there before a step of s.
LEMMA Before ==
    ASSUME Inv, AllThorough, NEW s \in Scan
    PROVE  /\ scan[s] \in Scanner /\ ScanRight(scan[s]) /\ HandRight(scan[s])
           /\ Thorough(scan[s])
           /\ world.folders \subseteq Name /\ None \notin Name \cup JobDir
BY WorldType, WorldAssumption DEF Inv, TypeOK, ScanRight, AllThorough

\* A scan that begins has nothing behind it.
LEMMA BeginThorough ==
    ASSUME Inv, AllThorough, Grows, NEW s \in Scan, Begin(s) PROVE AllThorough'
<1>1. PICK r : r = [Fresh EXCEPT !.at = "folders", !.unseen = world.folders]
  OBVIOUS
<1>2. Set(s, r) /\ UNCHANGED world
  BY <1>1 DEF Begin
<1>3. /\ r \in Scanner /\ r.at = "folders" /\ r.unseen = world.folders
      /\ r.folder = None /\ r.job = None
  BY <1>1, WorldType DEF Inv, Fresh, Scanner, Running
<1>4. Thorough(r)'
  BY <1>2, <1>3 DEF Thorough, Behind, Inside, PlaceRight
<1> QED
  BY <1>2, <1>3, <1>4, ScansThorough

\* The folder that comes into hand is not behind.
LEMMA NextFolderThorough ==
    ASSUME Inv, AllThorough, Grows, NEW s \in Scan, NextFolder(s) PROVE AllThorough'
<1>1. PICK f \in scan[s].unseen :
         Set(s, [scan[s] EXCEPT !.at = "create project", !.want = f,
                                !.folder = f, !.unseen = @ \ {f}])
  BY DEF NextFolder
<1>2. PICK r : r = [scan[s] EXCEPT !.at = "create project", !.want = f,
                                   !.folder = f, !.unseen = @ \ {f}]
  OBVIOUS
<1>3. scan[s].at = "folders" /\ UNCHANGED <<world, tables, updates>>
  BY DEF NextFolder
<1>4. /\ scan[s] \in Scanner /\ scan[s].job = None /\ f \in Name
      /\ Behind(scan[s]) /\ scan[s].folder = None
  BY <1>3, Before DEF HandRight, Thorough, PlaceRight, Running, Scanner
<1>5. /\ r \in Scanner /\ r.at = "create project" /\ r.want = f /\ r.folder = f
      /\ r.job = None /\ r.unseen = scan[s].unseen \ {f} /\ r.missed = scan[s].missed
  BY <1>2, <1>4 DEF Scanner, Running, InProject
<1>6. Behind(r)'
  <2> SUFFICES ASSUME NEW g \in world.folders \ r.unseen, g # f
               PROVE  /\ FolderSettled(g)'
                      /\ \A d \in JobDir : world.data[d].folder = g => Settled(d, r.missed)'
    BY <1>3, <1>5 DEF Behind
  <2>1. g \in world.folders \ scan[s].unseen /\ g # scan[s].folder
    BY <1>4, <1>5, Before
  <2> QED
    BY <1>4, <1>5, <2>1, FolderStays, SettledStays DEF Behind
<1>7. Thorough(r)'
  BY <1>5, <1>6 DEF Thorough, Inside, Within, PlaceRight, InJob
<1> QED
  BY <1>1, <1>2, <1>5, <1>7, ScansThorough

\* A scan returns when no folder is left.
LEMMA ReturnThorough ==
    ASSUME Inv, AllThorough, Grows, NEW s \in Scan, Return(s) PROVE AllThorough'
<1>1. PICK r : r = [scan[s] EXCEPT !.at = "returned"]
  OBVIOUS
<1>2. scan[s].at = "folders" /\ scan[s].unseen = {} /\ Set(s, r)
  BY <1>1 DEF Return
<1>3. /\ scan[s] \in Scanner /\ scan[s].job = None
      /\ Behind(scan[s]) /\ scan[s].folder = None
  BY <1>2, Before DEF HandRight, Thorough, PlaceRight, Running
<1>4. /\ r \in Scanner /\ r.at = "returned" /\ r.folder = None /\ r.job = None
      /\ r.unseen = {} /\ r.missed = scan[s].missed
  BY <1>1, <1>2, <1>3 DEF Scanner, Ended
<1>5. Behind(r)'
  BY <1>2, <1>3, <1>4, BehindStays
<1>6. Thorough(r)'
  BY <1>4, <1>5 DEF Thorough, Inside, PlaceRight
<1> QED
  BY <1>2, <1>4, <1>6, ScansThorough

\* A folder whose jobs have all been gone through is behind; a job whose data cannot be
\* read is not importable.
LEMMA NextJobThorough ==
    ASSUME Inv, AllThorough, Grows, NEW s \in Scan, NextJob(s) PROVE AllThorough'
<1> DEFINE o == scan[s]
<1>1. o.at = "jobs" /\ UNCHANGED <<world, tables, updates>>
  BY DEF NextJob
<1>2. /\ o \in Scanner /\ o.job = None /\ Thorough(o) /\ Within(o)
      /\ Behind(o) /\ Inside(o) /\ o.at \in Running
  BY <1>1, Before DEF HandRight, Thorough, Within, Running
<1>3. CASE o.unread = {} /\ Set(s, [o EXCEPT !.at = "folders", !.folder = None])
  <2>1. PICK r : r = [o EXCEPT !.at = "folders", !.folder = None]
    OBVIOUS
  <2>2. /\ r \in Scanner /\ r.at = "folders" /\ r.folder = None /\ r.job = None
        /\ r.unseen = o.unseen /\ r.missed = o.missed
    BY <1>2, <2>1 DEF Scanner, Running
  <2>3. Behind(r)'
    <3> SUFFICES ASSUME NEW f \in world.folders \ r.unseen
                 PROVE  /\ FolderSettled(f)'
                        /\ \A d \in JobDir : world.data[d].folder = f => Settled(d, r.missed)'
      BY <1>1, <2>2 DEF Behind
    <3>1. FolderSettled(f) /\ \A d \in JobDir : world.data[d].folder = f => Settled(d, r.missed)
      <4>1. CASE f # o.folder
        BY <1>2, <2>2, <4>1 DEF Behind
      <4>2. CASE f = o.folder
        BY <1>2, <1>3, <2>2, <4>2, Before DEF Inside
      <4> QED
        BY <4>1, <4>2
    <3> QED
      BY <3>1, FolderStays, SettledStays
  <2>4. Thorough(r)'
    BY <2>2, <2>3 DEF Thorough, Inside, PlaceRight
  <2> QED
    BY <1>3, <2>1, <2>2, <2>4, ScansThorough
<1>4. ASSUME NEW d \in o.unread,
             Set(s, CASE world.data[d].file = "unreadable" -> [o EXCEPT !.unread = @ \ {d}]
                      [] world.data[d].file = "no list" ->
                           [[o EXCEPT !.unread = @ \ {d}] EXCEPT !.at = "aborted"]
                      [] world.data[d].file = "readable" ->
                           [[o EXCEPT !.unread = @ \ {d}]
                              EXCEPT !.at = "listed", !.job = d,
                                     !.unchecked = world.data[d].names])
      PROVE  AllThorough'
  <2> DEFINE rest == [o EXCEPT !.unread = @ \ {d}]
  <2>1. d \in JobDir /\ world.data[d].names \subseteq Name
    BY <1>2, WorldType DEF Inv, Scanner, JobData
  <2>2. /\ rest \in Scanner /\ rest.at = "jobs" /\ rest.job = None
        /\ rest.folder = o.folder /\ rest.unseen = o.unseen
        /\ rest.missed = o.missed /\ rest.unread = o.unread \ {d}
    BY <1>1, <1>2 DEF Scanner
  <2>3. world.data[d].file \in {"unreadable", "no list", "readable"}
    BY <2>1, WorldType DEF Inv, JobData
  <2>4. CASE world.data[d].file = "unreadable"
    <3>1. PICK r : r = rest
      OBVIOUS
    <3>2. Settled(d, r.missed)'
      BY <1>1, <2>4 DEF Settled, Importable
    <3>3. \A e \in JobDir : (e \in o.unread \/ e = o.job) /\ e \notin r.unread /\ e # r.job
             => Settled(e, r.missed)'
      BY <1>2, <2>2, <3>1, <3>2
    <3> HIDE DEF rest
    <3>4. r.at \in Running \ {"folders"} /\ r.at \notin {"create project", "insert project"}
      BY <2>2, <3>1 DEF Running
    <3>5. Thorough(r)'
      BY <1>2, <2>2, <3>1, <3>3, <3>4, GoesOn
    <3>6. Set(s, r)
      BY <1>4, <2>4, <3>1 DEF rest
    <3> QED
      BY <2>2, <3>1, <3>5, <3>6, ScansThorough
  <2>5. CASE world.data[d].file = "no list"
    <3>1. PICK r : r = [rest EXCEPT !.at = "aborted"]
      OBVIOUS
    <3>2. r \in Scanner /\ r.at = "aborted"
      BY <2>2, <3>1 DEF Scanner, Ended
    <3>3. Set(s, r)
      BY <1>4, <2>5, <3>1
    <3>4. Thorough(r)'
      BY <3>2 DEF Thorough, Running, InProject, InJob
    <3> QED
      BY <3>2, <3>3, <3>4, ScansThorough
  <2>6. CASE world.data[d].file = "readable"
    <3>1. PICK r : r = [rest EXCEPT !.at = "listed", !.job = d, !.unchecked = world.data[d].names]
      OBVIOUS
    <3>2. Set(s, r)
      BY <1>4, <2>6, <3>1
    <3> HIDE DEF rest
    <3>3. /\ r \in Scanner /\ r.at = "listed" /\ r.job = d
          /\ r.folder = o.folder /\ r.unseen = o.unseen
          /\ r.missed = o.missed /\ r.unread = o.unread \ {d}
      BY <2>1, <2>2, <3>1 DEF Scanner, Running, InProject
    <3>4. r.at \in Running \ {"folders"} /\ r.at \notin {"create project", "insert project"}
      BY <3>3 DEF Running, InProject
    <3>5. Thorough(r)'
      BY <1>2, <3>3, <3>4, Before, GoesOn
    <3> QED
      BY <3>2, <3>3, <3>5, ScansThorough
  <2> QED
    BY <2>3, <2>4, <2>5, <2>6
<1> QED
  BY <1>3, <1>4 DEF NextJob

-----------------------------------------------------------------------------
(* The steps of projects                                                   *)

\* A job in hand stays in hand while the names it lists are gone through.
LEMMA SameJob ==
    ASSUME Inv, AllThorough, Grows, NEW s \in Scan, scan[s].at \in Running,
           scan[s].job # None, NEW r \in Scanner, Set(s, r),
           r.at \in InProject \cup InJob, r.job = scan[s].job, r.folder = scan[s].folder,
           r.unseen = scan[s].unseen, r.unread = scan[s].unread, r.missed = scan[s].missed
    PROVE  AllThorough'
<1>1. Thorough(scan[s]) /\ Within(scan[s])
  BY Before DEF Within
<1>2. r.at \in Running \ {"folders"}
  BY DEF Running, InProject, InJob
<1>3. Thorough(r)'
  BY <1>1, <1>2, GoesOn
<1> QED
  BY <1>3, ScansThorough

\* With its project dealt with, a folder is entered, and no job of it is done with.
LEMMA FolderEntered ==
    ASSUME Inv, AllThorough, Grows, NEW s \in Scan,
           scan[s].at \in {"create project", "insert project"}, scan[s].job = None,
           NEW r \in Scanner, Set(s, r), r.at = "jobs", r.job = None,
           r.folder = scan[s].folder, r.unseen = scan[s].unseen, r.missed = scan[s].missed,
           r.unread = {d \in JobDir : world.data[d].folder = scan[s].folder},
           FolderSettled(r.folder)'
    PROVE  AllThorough'
<1>1. Behind(scan[s])
  BY Before DEF Thorough, Running, InProject
<1>2. Behind(r)'
  BY <1>1, BehindStays
<1>3. Inside(r)' /\ PlaceRight(r)'
  BY DEF Grows, Inside, PlaceRight
<1>4. Thorough(r)'
  BY <1>2, <1>3 DEF Thorough
<1> QED
  BY <1>4, ScansThorough

\* The fields of the record a scan goes on with.
LEMMA OnwardFields ==
    ASSUME TypeOK, NEW s \in Scan,
           scan[s].at \in {"create project", "insert project"}, scan[s].want \in Name
    PROVE  /\ Onward(s).folder = scan[s].folder /\ Onward(s).unseen = scan[s].unseen
           /\ Onward(s).missed = scan[s].missed
           /\ scan[s].job = None =>
                 Onward(s).unread = {d \in JobDir : world.data[d].folder = scan[s].folder}
           /\ scan[s].job # None => Onward(s).unread = scan[s].unread
<1>1. scan[s] \in Scanner
  BY DEF TypeOK
<1>2. CASE scan[s].job = None
  <2> DEFINE jobsHere == {d \in JobDir : world.data[d].folder = scan[s].folder}
             shownNow == scan[s].shown \cup {scan[s].want}
  <2>1. Onward(s) = [scan[s] EXCEPT !.at = "jobs", !.want = None, !.shown = shownNow,
                                    !.unread = jobsHere]
    BY <1>2 DEF Onward
  <2> HIDE DEF jobsHere, shownNow
  <2>2. /\ Onward(s).folder = scan[s].folder /\ Onward(s).unseen = scan[s].unseen
        /\ Onward(s).missed = scan[s].missed /\ Onward(s).unread = jobsHere
    BY <1>1, <2>1 DEF Scanner
  <2> QED
    BY <1>2, <2>2 DEF jobsHere
<1>3. CASE scan[s].job # None
  <2>1. Onward(s) = [scan[s] EXCEPT !.at = "listed", !.want = None]
    BY <1>3 DEF Onward
  <2> QED
    BY <1>1, <1>3, <2>1 DEF Scanner
<1> QED
  BY <1>2, <1>3

\* On with the folder or the job, whose project is there now.
LEMMA OnwardThorough ==
    ASSUME Inv, AllThorough, Grows, NEW s \in Scan,
           scan[s].at \in {"create project", "insert project"}, NEW r \in Scanner, Set(s, r),
           r.at = Onward(s).at, r.job = Onward(s).job, r.folder = Onward(s).folder,
           r.unseen = Onward(s).unseen, r.unread = Onward(s).unread,
           r.missed = Onward(s).missed,
           world.user => \E p \in projects' : p.name = scan[s].want
    PROVE  AllThorough'
<1>1. scan[s].want \in Name /\ scan[s].at \in Running /\ PlaceRight(scan[s])
  BY Before DEF HandRight, Thorough, Running, InProject
<1>2. /\ Onward(s).job = scan[s].job
      /\ scan[s].job = None => Onward(s).at = "jobs"
      /\ scan[s].job # None => Onward(s).at = "listed"
  BY <1>1, OnwardType DEF Inv
<1>3. CASE scan[s].job = None
  <2>1. r.folder = scan[s].want
    BY <1>1, <1>3, OnwardFields DEF Inv, PlaceRight
  <2>2. FolderSettled(r.folder)'
    BY <2>1 DEF FolderSettled, There, Grows
  <2>3. /\ r.folder = scan[s].folder /\ r.unseen = scan[s].unseen /\ r.missed = scan[s].missed
        /\ r.unread = {d \in JobDir : world.data[d].folder = scan[s].folder}
    BY <1>1, <1>3, OnwardFields DEF Inv
  <2> QED
    BY <1>2, <1>3, <2>2, <2>3, FolderEntered
<1>4. CASE scan[s].job # None
  <2>1. /\ r.folder = scan[s].folder /\ r.unseen = scan[s].unseen /\ r.missed = scan[s].missed
        /\ r.unread = scan[s].unread
    BY <1>1, <1>4, OnwardFields DEF Inv
  <2>2. r.at \in InProject \cup InJob
    BY <1>2, <1>4 DEF InProject
  <2> QED
    BY <1>1, <1>2, <1>4, <2>1, <2>2, SameJob
<1> QED
  BY <1>3, <1>4

\* No name is asked for by a job that is not in hand.
LEMMA NextListedThorough ==
    ASSUME Inv, AllThorough, Grows, NEW s \in Scan, NextListed(s) PROVE AllThorough'
<1> DEFINE o == scan[s]
<1>1. /\ o \in Scanner /\ o.at = "listed" /\ o.at \in Running /\ o.job # None
  BY Before DEF NextListed, HandRight, Running, InProject
<1>2. CASE Set(s, [o EXCEPT !.at = "create job"])
  <2>1. PICK r : r = [o EXCEPT !.at = "create job"]
    OBVIOUS
  <2>2. /\ r \in Scanner /\ r.at \in InProject \cup InJob /\ r.job = o.job
        /\ r.folder = o.folder /\ r.unseen = o.unseen /\ r.unread = o.unread
        /\ r.missed = o.missed
    BY <1>1, <2>1 DEF Scanner, Running, InJob
  <2> QED
    BY <1>1, <1>2, <2>1, <2>2, SameJob
<1>3. ASSUME NEW n \in o.unchecked,
             Set(s, IF There(n) THEN [o EXCEPT !.unchecked = @ \ {n}]
                    ELSE [[o EXCEPT !.unchecked = @ \ {n}]
                            EXCEPT !.at = "create project", !.want = n])
      PROVE  AllThorough'
  <2>1. PICK rest : rest = [o EXCEPT !.unchecked = @ \ {n}]
    OBVIOUS
  <2>2. /\ rest \in Scanner /\ rest.at = "listed" /\ rest.job = o.job
        /\ rest.folder = o.folder /\ rest.unseen = o.unseen /\ rest.unread = o.unread
        /\ rest.missed = o.missed
    BY <1>1, <2>1 DEF Scanner
  <2>3. n \in Name
    BY <1>1 DEF Scanner
  <2>4. CASE There(n)
    <3>1. Set(s, rest)
      BY <1>3, <2>1, <2>4
    <3> QED
      BY <1>1, <2>2, <3>1, SameJob DEF InProject
  <2>5. CASE ~There(n)
    <3>1. PICK r : r = [rest EXCEPT !.at = "create project", !.want = n]
      OBVIOUS
    <3>2. Set(s, r)
      BY <1>3, <2>1, <2>5, <3>1
    <3>3. /\ r \in Scanner /\ r.at \in InProject \cup InJob /\ r.job = o.job
          /\ r.folder = o.folder /\ r.unseen = o.unseen /\ r.unread = o.unread
          /\ r.missed = o.missed
      BY <2>2, <2>3, <3>1 DEF Scanner, Running, InProject
    <3> QED
      BY <1>1, <3>2, <3>3, SameJob
  <2> QED
    BY <2>4, <2>5
<1> QED
  BY <1>2, <1>3 DEF NextListed, There

\* A folder's project is there, or will be inserted.
LEMMA CreateProjectThorough ==
    ASSUME Inv, AllThorough, Grows, NEW s \in Scan, CreateProject(s) PROVE AllThorough'
<1> DEFINE o == scan[s]
<1>1. /\ o \in Scanner /\ o.at = "create project" /\ o.at \in Running /\ o.want \in Name
      /\ Thorough(o) /\ UNCHANGED <<world, tables, updates>>
  BY Before DEF CreateProject, HandRight, Running, InProject
<1>2. CASE ~world.user \/ There(o.want)
  <2>1. PICK r : r = Onward(s)
    OBVIOUS
  <2>2. Set(s, r) /\ r \in Scanner
    BY <1>1, <1>2, <2>1, OnwardType DEF Inv, CreateProject, There
  <2>3. world.user => \E p \in projects' : p.name = scan[s].want
    BY <1>1, <1>2 DEF There, tables
  <2> QED
    BY <1>1, <2>1, <2>2, <2>3, OnwardThorough
<1>3. CASE world.user /\ ~There(o.want) /\ o.folder \in world.foreign
  <2>1. PICK r : r = [o EXCEPT !.at = "aborted"]
    OBVIOUS
  <2>2. Set(s, r)
    BY <1>3, <2>1 DEF CreateProject, There
  <2>3. r \in Scanner /\ r.at = "aborted"
    BY <1>1, <2>1 DEF Scanner, Ended
  <2>4. Thorough(r)'
    BY <2>3 DEF Thorough, Running, InProject, InJob
  <2> QED
    BY <2>2, <2>3, <2>4, ScansThorough
<1>4. CASE world.user /\ ~There(o.want) /\ o.folder \notin world.foreign
  <2>1. PICK r : r = [o EXCEPT !.at = "insert project"]
    OBVIOUS
  <2>2. Set(s, r)
    BY <1>4, <2>1 DEF CreateProject, There
  <2>3. /\ r \in Scanner /\ r.at = "insert project" /\ r.job = o.job /\ r.want = o.want
        /\ r.folder = o.folder /\ r.unseen = o.unseen /\ r.unread = o.unread
        /\ r.missed = o.missed
    BY <1>1, <2>1 DEF Scanner, Running, InProject
  <2>4. CASE o.job # None
    BY <1>1, <2>2, <2>3, <2>4, SameJob DEF InProject
  <2>5. CASE o.job = None
    <3>1. Behind(o) /\ PlaceRight(o)
      BY <1>1 DEF Thorough
    <3>2. Behind(r)'
      BY <2>3, <3>1, BehindStays
    <3>3. Inside(r)'
      BY <2>3, <2>5 DEF Inside, Within, InJob
    <3>4. PlaceRight(r)'
      BY <1>1, <2>3, <3>1 DEF PlaceRight
    <3>5. Thorough(r)'
      BY <3>2, <3>3, <3>4 DEF Thorough
    <3> QED
      BY <2>2, <2>3, <3>5, ScansThorough
  <2> QED
    BY <2>4, <2>5
<1> QED
  BY <1>2, <1>3, <1>4

\* Inserted, the project is there; refused, the scan is aborted.
LEMMA InsertProjectThorough ==
    ASSUME Inv, AllThorough, Grows, NEW s \in Scan, InsertProject(s) PROVE AllThorough'
<1> DEFINE o == scan[s]
           n == scan[s].want
<1>1. o \in Scanner /\ o.at = "insert project" /\ n \in Name
  BY Before DEF InsertProject, HandRight
<1>2. CASE \E p \in projects : p.name = n \/ p.path = n
  <2>1. PICK r : r = [o EXCEPT !.at = "aborted"]
    OBVIOUS
  <2>2. Set(s, r)
    BY <1>2, <2>1 DEF InsertProject
  <2>3. r \in Scanner /\ r.at = "aborted"
    BY <1>1, <2>1 DEF Scanner, Ended
  <2>4. Thorough(r)'
    BY <2>3 DEF Thorough, Running, InProject, InJob
  <2> QED
    BY <2>2, <2>3, <2>4, ScansThorough
<1>3. CASE ~ \E p \in projects : p.name = n \/ p.path = n
  <2>0. PICK id \in ProjectId : projects' = projects \cup {[id |-> id, path |-> n, name |-> n]}
    BY <1>3 DEF InsertProject
  <2> DEFINE row == [id |-> id, path |-> n, name |-> n]
  <2>1. PICK r : r = [Onward(s) EXCEPT !.shown = @ \cup {n}]
    OBVIOUS
  <2>2. /\ Set(s, r)
        /\ projects' = projects \cup {row}
    BY <1>3, <2>0, <2>1 DEF InsertProject
  <2>3. Onward(s) \in Scanner
    BY <1>1, OnwardType DEF Inv
  <2>4. /\ r \in Scanner
        /\ r.at = Onward(s).at /\ r.job = Onward(s).job /\ r.folder = Onward(s).folder
        /\ r.unseen = Onward(s).unseen /\ r.unread = Onward(s).unread
        /\ r.missed = Onward(s).missed
    BY <1>1, <2>1, <2>3 DEF Scanner
  <2>5. \E p \in projects' : p.name = scan[s].want
    <3>1. row \in projects' /\ row.name = n
      BY <2>2
    <3> QED
      BY <3>1
  <2> QED
    BY <1>1, <2>2, <2>4, <2>5, OnwardThorough
<1> QED
  BY <1>2, <1>3

-----------------------------------------------------------------------------
(* The steps of jobs                                                       *)

\* A job that is done with, and settled, leaves the scan thorough.
LEMMA JobLeft ==
    ASSUME Inv, AllThorough, Grows, NEW s \in Scan, scan[s].at \in InJob,
           NEW r \in Scanner, Set(s, r), r.at = "jobs", r.job = None,
           r.folder = scan[s].folder, r.unseen = scan[s].unseen, r.unread = scan[s].unread,
           scan[s].missed \subseteq r.missed,
           NEW d, d = scan[s].job, Settled(d, r.missed)'
    PROVE  AllThorough'
<1>1. Thorough(scan[s]) /\ Within(scan[s]) /\ scan[s].at \in Running
  BY Before DEF Within, Running
<1>2. r.at \in Running \ {"folders"} /\ r.at \notin {"create project", "insert project"}
  BY DEF Running
<1>3. \A e \in JobDir : (e \in scan[s].unread \/ e = scan[s].job) /\ e \notin r.unread /\ e # r.job
         => Settled(e, r.missed)'
  OBVIOUS
<1>4. Thorough(r)'
  BY <1>1, <1>2, <1>3, GoesOn
<1> QED
  BY <1>4, ScansThorough

\* The fields of the record of a scan that is done with a job.
LEMMA SkipFields ==
    ASSUME Inv, AllThorough, NEW s \in Scan, scan[s].at \in InJob
    PROVE  /\ SkipJob(s) \in Scanner
           /\ SkipJob(s).at = "jobs" /\ SkipJob(s).job = None
           /\ SkipJob(s).folder = scan[s].folder /\ SkipJob(s).unseen = scan[s].unseen
           /\ SkipJob(s).unread = scan[s].unread /\ SkipJob(s).missed = scan[s].missed
           /\ SkipJob(s).added = scan[s].added
           /\ scan[s].job \in JobDir
<1>1. scan[s] \in Scanner /\ scan[s].job \in JobDir
  BY Before DEF HandRight
<1> QED
  BY <1>1 DEF SkipJob, Scanner, Running

\* A job that is known, or lists projects that were renamed, or is not importable, is
\* passed over.
LEMMA CreateJobThorough ==
    ASSUME Inv, AllThorough, Grows, NEW s \in Scan, CreateJob(s) PROVE AllThorough'
<1> DEFINE o == scan[s]
           found == Listed(scan[s].job)
           bad == \/ Known(scan[s].job) \/ found = {} \/ ~world.user
                  \/ found \cap world.closed # {} \/ Data(s).chart = Bad
<1>1. /\ o \in Scanner /\ o.at = "create job" /\ o.at \in InJob /\ o.at \in Running
      /\ o.job \in JobDir /\ o.job # None /\ ListedRight(o)
      /\ UNCHANGED <<world, tables, updates>>
  BY Before DEF CreateJob, HandRight, InJob, Running, ScanRight
<1>2. PICK d : d = o.job
  OBVIOUS
<1>3. CASE bad
  <2>1. PICK r : r = SkipJob(s)
    OBVIOUS
  <2>2. Set(s, r)
    BY <1>3, <2>1 DEF CreateJob
  <2>3. Settled(d, o.missed)
    <3> SUFFICES ASSUME Importable(d), ~Known(d), world.data[d].names \cap renamed = {}
                 PROVE  FALSE
      BY DEF Settled
    <3>1. world.user /\ world.data[d].names # {} /\ Data(s).chart # Bad
      BY <1>2 DEF Importable, Data
    <3>2. \A n \in world.data[d].names : There(n)
      BY <1>1, <1>2, <3>1 DEF ListedRight, InProject
    <3>3. found # {}
      <4>1. PICK n \in world.data[d].names : There(n)
        BY <3>1, <3>2
      <4> QED
        BY <1>2, <4>1 DEF There, Listed
    <3>4. found \cap world.closed = {}
      BY <1>2 DEF Listed, Importable
    <3> QED
      BY <1>2, <1>3, <3>1, <3>3, <3>4
  <2>4. r.missed = o.missed
    BY <1>1, <2>1, SkipFields
  <2>5. Settled(d, r.missed)'
    BY <2>3, <2>4, SettledStays
  <2> QED
    BY <1>1, <1>2, <2>1, <2>2, <2>5, SkipFields, JobLeft
<1>4. CASE ~bad
  <2> DEFINE next == IF Data(s).chart \in flowcharts THEN "insert job" ELSE "publish flowchart"
  <2>1. PICK r : r = [o EXCEPT !.found = found, !.at = next]
    OBVIOUS
  <2>2. Set(s, r)
    BY <1>4, <2>1 DEF CreateJob
  <2>3. found \subseteq Nat \ {0}
    BY DEF Inv, TypeOK, Listed, ProjectRow
  <2>4. next \in {"insert job", "publish flowchart"}
    OBVIOUS
  <2> HIDE DEF next
  <2>5. /\ r \in Scanner /\ r.at \in InProject \cup InJob /\ r.job = o.job
        /\ r.folder = o.folder /\ r.unseen = o.unseen /\ r.unread = o.unread
        /\ r.missed = o.missed
    BY <1>1, <2>1, <2>3, <2>4 DEF Scanner, Running, InJob
  <2> QED
    BY <1>1, <2>2, <2>5, SameJob
<1> QED
  BY <1>3, <1>4

\* The job stays in hand while its flowchart is committed.
LEMMA PublishFlowchartThorough ==
    ASSUME Inv, AllThorough, Grows, NEW s \in Scan, PublishFlowchart(s) PROVE AllThorough'
<1>1. /\ scan[s] \in Scanner /\ scan[s].at \in Running /\ scan[s].job # None
  BY Before DEF PublishFlowchart, HandRight, InJob, Running
<1>2. PICK r : r = [scan[s] EXCEPT !.at = "insert job"]
  OBVIOUS
<1>3. Set(s, r)
  BY <1>2 DEF PublishFlowchart
<1>4. /\ r \in Scanner /\ r.at \in InProject \cup InJob /\ r.job = scan[s].job
      /\ r.folder = scan[s].folder /\ r.unseen = scan[s].unseen /\ r.unread = scan[s].unread
      /\ r.missed = scan[s].missed
  BY <1>1, <1>2 DEF Scanner, Running, InJob
<1> QED
  BY <1>1, <1>3, <1>4, SameJob

\* The job is known, by this scan or another.
LEMMA InsertJobThorough ==
    ASSUME Inv, AllThorough, Grows, NEW s \in Scan, InsertJob(s) PROVE AllThorough'
<1>1. scan[s].at \in InJob /\ UNCHANGED world
  BY DEF InsertJob, InJob
<1>2. PICK d : d = scan[s].job
  OBVIOUS
<1>3. Known(d)'
  <2>1. Known(d) \/ jobs' = jobs \cup {NewJob(s)}
    BY <1>2 DEF InsertJob
  <2>2. NewJob(s).id = world.data[d].id
    BY <1>2 DEF NewJob, Data
  <2>3. jobs \subseteq jobs'
    BY DEF Grows
  <2> QED
    BY <1>1, <2>1, <2>2, <2>3 DEF Known
<1>4. CASE Known(scan[s].job)
  <2>1. PICK r : r = SkipJob(s)
    OBVIOUS
  <2>2. Set(s, r)
    BY <1>4, <2>1 DEF InsertJob
  <2>3. Settled(d, r.missed)'
    BY <1>3 DEF Settled
  <2> QED
    BY <1>1, <1>2, <2>1, <2>2, <2>3, SkipFields, JobLeft
<1>5. CASE ~Known(scan[s].job)
  <2>1. PICK r : r = [SkipJob(s) EXCEPT !.added = @ \cup {scan[s].job}]
    OBVIOUS
  <2>2. Set(s, r)
    BY <1>5, <2>1 DEF InsertJob
  <2>3. Settled(d, r.missed)'
    BY <1>3 DEF Settled
  <2>4. /\ r \in Scanner /\ r.at = "jobs" /\ r.job = None
        /\ r.folder = scan[s].folder /\ r.unseen = scan[s].unseen
        /\ r.unread = scan[s].unread /\ r.missed = scan[s].missed
    BY <1>1, <2>1, SkipFields DEF Scanner
  <2> QED
    BY <1>1, <1>2, <2>2, <2>3, <2>4, JobLeft
<1> QED
  BY <1>4, <1>5

\* A job at which the scan met a lock was missed.
LEMMA LockedThorough ==
    ASSUME Inv, AllThorough, Grows, NEW s \in Scan, Locked(s) PROVE AllThorough'
<1>1. CASE scan[s].at \in InJob
  <2>1. PICK r : r = [SkipJob(s) EXCEPT !.missed = @ \cup {scan[s].job}]
    OBVIOUS
  <2>2. PICK d : d = scan[s].job
    OBVIOUS
  <2>3. Set(s, r)
    BY <1>1, <2>1 DEF Locked, InJob, InProject
  <2>4. /\ r \in Scanner /\ r.at = "jobs" /\ r.job = None
        /\ r.folder = scan[s].folder /\ r.unseen = scan[s].unseen
        /\ r.unread = scan[s].unread /\ r.missed = scan[s].missed \cup {d}
    BY <1>1, <2>1, <2>2, SkipFields DEF Scanner
  <2>5. Settled(d, r.missed)'
    BY <2>4 DEF Settled
  <2> QED
    BY <1>1, <2>2, <2>3, <2>4, <2>5, JobLeft
<1>2. CASE scan[s].at \notin InJob
  <2>1. PICK r : r = [Fresh EXCEPT !.at = "locked"]
    OBVIOUS
  <2>2. Set(s, r)
    BY <1>2, <2>1 DEF Locked
  <2>3. r \in Scanner /\ r.at = "locked"
    BY <2>1 DEF Fresh, Scanner, Ended
  <2>4. Thorough(r)'
    BY <2>3 DEF Thorough, Running, InProject, InJob
  <2> QED
    BY <2>2, <2>3, <2>4, ScansThorough
<1> QED
  BY <1>1, <1>2

\* A scan that dies claims nothing.
LEMMA CrashThorough ==
    ASSUME Inv, AllThorough, Grows, NEW s \in Scan, Crash(s) PROVE AllThorough'
<1>1. PICK r : r = [Fresh EXCEPT !.at = "crashed"]
  OBVIOUS
<1>2. Set(s, r)
  BY <1>1 DEF Crash
<1>3. r \in Scanner /\ r.at = "crashed"
  BY <1>1 DEF Fresh, Scanner, Ended
<1>4. Thorough(r)'
  BY <1>3 DEF Thorough, Running, InProject, InJob
<1> QED
  BY <1>2, <1>3, <1>4, ScansThorough

-----------------------------------------------------------------------------
(* The theorem                                                             *)

\* While the scans stand still the others take nothing from what they have been through.
LEMMA OthersThorough ==
    ASSUME AllThorough, Grows, UNCHANGED scan PROVE AllThorough'
<1> SUFFICES ASSUME NEW s \in Scan PROVE Thorough(scan[s])'
  BY DEF AllThorough
<1>1. PICK r : r = scan[s]
  OBVIOUS
<1>2. Thorough(r)'
  BY <1>1, ThoroughStays DEF AllThorough
<1> QED
  BY <1>1, <1>2

\* At first no scan runs.
LEMMA ThoroughInit == Init => AllThorough
<1> SUFFICES ASSUME Init, NEW s \in Scan PROVE Thorough(scan[s])
  BY DEF AllThorough
<1>1. scan[s].at = "not started"
  BY DEF Init, Fresh
<1> QED
  BY <1>1 DEF Thorough, Running, InProject, InJob

\* Every step leaves the scans thorough.
LEMMA ThoroughStep == Inv /\ AllThorough /\ [Next]_vars => AllThorough'
<1> SUFFICES ASSUME Inv, AllThorough, [Next]_vars PROVE AllThorough'
  OBVIOUS
<1> Grows
  BY StepGrows DEF Inv
<1>1. ASSUME NEW s \in Scan, Begin(s) \/ Step(s) \/ Locked(s) \/ Crash(s) PROVE AllThorough'
  BY <1>1, BeginThorough, LockedThorough, CrashThorough, NextFolderThorough, ReturnThorough,
     NextJobThorough, NextListedThorough, CreateProjectThorough, InsertProjectThorough,
     CreateJobThorough, PublishFlowchartThorough, InsertJobThorough DEF Step
<1>2. ASSUME NEW p \in projects, NEW n, NEW f, Update(p, n, f) PROVE AllThorough'
  BY <1>2, OthersThorough DEF Update
<1>3. ASSUME NEW d \in JobDir, SelfRegister(d) PROVE AllThorough'
  BY <1>3, OthersThorough DEF SelfRegister
<1>4. CASE UNCHANGED vars
  BY <1>4, OthersThorough DEF vars
<1> QED
  BY <1>1, <1>2, <1>3, <1>4 DEF Next

\* A scan that returns has been through every folder.
LEMMA ThroughAtReturn == Inv /\ AllThorough => ScanMissesNothing
<1> SUFFICES ASSUME Inv, AllThorough, NEW s \in Scan, scan[s].at = "returned", world.user
             PROVE  /\ \A f \in world.folders \ renamed : \E p \in projects : p.name = f
                    /\ \A d \in JobDir : InScope(d) /\ Importable(d) =>
                          \/ Known(d) \/ d \in scan[s].missed
                          \/ world.data[d].names \cap renamed # {}
  BY DEF ScanMissesNothing
<1>1. Behind(scan[s]) /\ scan[s].folder = None /\ scan[s].unseen = {}
  BY Before DEF Thorough, PlaceRight
<1>2. \A f \in world.folders : f # scan[s].folder
  BY <1>1, Before
<1> QED
  BY <1>1, <1>2 DEF Behind, FolderSettled, Settled, There, InScope

\* A scan that returns leaves no folder without its project and no importable job out,
\* whatever died, overlapped or was refused before; but for locks it met and renamings.
THEOREM NothingMissed == Spec => []ScanMissesNothing
<1>1. Spec => []AllThorough
  BY Invariance, ThoroughInit, ThoroughStep, PTL DEF Spec
<1> QED
  BY <1>1, Invariance, ThroughAtReturn, PTL

=============================================================================
