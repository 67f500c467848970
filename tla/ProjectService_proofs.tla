------------------------ MODULE ProjectService_proofs ------------------------
EXTENDS ProjectService, RequestState, SequenceTheorems, NaturalsInduction, FiniteSetTheorems,
        WellFoundedInduction, TLAPS

-----------------------------------------------------------------------------
(* Script infos.                                                           *)

\* A reload is pending that would find another text.
Unread(i, p) == i.pendingReloadFromDisk /\ Exists(p) /\ i.text # disk[p]

\* The info j comes after the info i of the file p, without a word from the editor:
\* a new text has a new version, and a text that a reload would not change stays.
Follows(i, j, p) ==
    /\ j.isOpen = i.isOpen
    /\ j.pendingReloadFromDisk = i.pendingReloadFromDisk
    /\ i.matchesDiskText => j.matchesDiskText
    /\ ~i.deferredDelete => ~j.deferredDelete
    /\ i.version <= j.version
    /\ i.version = j.version => i.text = j.text
    /\ i.version # j.version => Unread(i, p)

\* An info that is not new is a record of the right type.
LEMMA InfoFields ==
    ASSUME NEW i \in Info
    PROVE  /\ i.text \in Text /\ i.version \in Nat /\ i.isOpen \in BOOLEAN
           /\ i.pendingReloadFromDisk \in BOOLEAN /\ i.matchesDiskText \in BOOLEAN
           /\ i.deferredDelete \in BOOLEAN /\ i.containingProjects \in Seq(Project)
           /\ IsInjective(i.containingProjects)
           /\ i # NoInfo
BY InfoAssumption DEF Info

\* Attachment is membership of the list of containing projects.
LEMMA AttachedIsListed ==
    ASSUME NEW i \in Info, NEW P
    PROVE  isAttached(i, P) <=> \E k \in DOMAIN i.containingProjects :
                                    i.containingProjects[k] = P
<1> i.containingProjects \in Seq(Project)
    BY InfoFields
<1> QED
    BY DEF isAttached, Contains

\* The projects in a file's list are those isAttached (scriptinfo.go:131) finds there.
LEMMA RangeIsAttached ==
    ASSUME NEW i \in Info, NEW P
    PROVE  P \in Range(i.containingProjects) <=> isAttached(i, P)
BY AttachedIsListed DEF Range

\* Only projects are attached.
LEMMA ProjectsAreAttached ==
    ASSUME NEW i \in Info, NEW P, isAttached(i, P)
    PROVE  P \in Project
<1> i.containingProjects \in Seq(Project)
    BY InfoFields
<1> QED
    BY AttachedIsListed

\* A file keeps its type when its list of projects is another list without repetition.
LEMMA Relisting ==
    ASSUME NEW i \in Info, NEW d \in Seq(Project), IsInjective(d)
    PROVE  /\ [i EXCEPT !.containingProjects = d] \in Info
           /\ [i EXCEPT !.containingProjects = d].containingProjects = d
BY Zenon DEF Info

\* attachToProject attaches the project and no other.
LEMMA Attaching ==
    ASSUME NEW i \in Info, NEW P \in Project, NEW p
    PROVE  /\ attachToProject(i, P) \in Info
           /\ Follows(i, attachToProject(i, P), p)
           /\ attachToProject(i, P).version = i.version
           /\ attachToProject(i, P).text = i.text
           /\ attachToProject(i, P).deferredDelete = i.deferredDelete
           /\ isAttached(attachToProject(i, P), P)
           /\ \A Q : isAttached(i, Q) => isAttached(attachToProject(i, P), Q)
<1> DEFINE j == [i EXCEPT !.containingProjects = Append(@, P)]
           c == i.containingProjects
<1>1. CASE isAttached(i, P)
  BY <1>1, InfoFields DEF attachToProject, Follows
<1>2. CASE ~isAttached(i, P)
  <2>1. attachToProject(i, P) = j
    BY <1>2 DEF attachToProject
  <2>2. c \in Seq(Project) /\ Append(c, P) \in Seq(Project)
    BY InfoFields
  <2>0. IsInjective(Append(c, P))
    <3>1. ~(\E k \in DOMAIN c : c[k] = P)
      BY <1>2, AttachedIsListed
    <3>2. IsInjective(c)
      BY InfoFields
    <3> HIDE DEF c
    <3> QED BY <2>2, <3>1, <3>2 DEF IsInjective
  <2>3. j \in Info /\ j.containingProjects = Append(c, P)
    BY <2>0, <2>2, Zenon DEF Info
  <2>4. Follows(i, j, p) /\ j.version = i.version /\ j.text = i.text
        /\ j.deferredDelete = i.deferredDelete
    BY InfoFields DEF Info, Follows
  <2>5. Append(c, P)[Len(c) + 1] = P /\ Len(c) + 1 \in DOMAIN Append(c, P)
    BY <2>2
  <2>6. \A k \in DOMAIN c : k \in DOMAIN Append(c, P) /\ Append(c, P)[k] = c[k]
    BY <2>2
  <2>7. isAttached(j, P)
    BY <2>3, <2>5, AttachedIsListed
  <2>8. ASSUME NEW Q, isAttached(i, Q)
        PROVE  isAttached(j, Q)
    <3>1. PICK k \in DOMAIN c : c[k] = Q
      BY <2>8, AttachedIsListed
    <3> QED
      BY <2>3, <2>6, <3>1, AttachedIsListed
  <2> QED
    BY <2>1, <2>3, <2>4, <2>7, <2>8
<1> QED
    BY <1>1, <1>2

\* What is left of a sequence without one of its elements.
LEMMA Removing ==
    ASSUME NEW S, NEW s \in Seq(S), NEW k \in DOMAIN s
    PROVE  /\ RemoveAt(s, k) \in Seq(S)
           /\ Len(RemoveAt(s, k)) = Len(s) - 1
           /\ \A m \in 1 .. Len(s) - 1 :
                  RemoveAt(s, k)[m] = IF m < k THEN s[m] ELSE s[m + 1]
<1> DEFINE l == SubSeq(s, 1, k - 1)
           r == SubSeq(s, k + 1, Len(s))
<1>1. k \in 1 .. Len(s) /\ Len(s) \in Nat /\ \A j \in 1 .. Len(s) : s[j] \in S
  BY LenProperties
<1>2. l \in Seq(S) /\ Len(l) = k - 1 /\ \A j \in 1 .. k - 1 : l[j] = s[j]
  BY <1>1, SubSeqProperties, Z3
<1>3. r \in Seq(S) /\ Len(r) = Len(s) - k /\ \A j \in 1 .. Len(s) - k : r[j] = s[k + j]
  BY <1>1, SubSeqProperties, Z3
<1> DEFINE t == l \o r
<1> HIDE DEF l, r
<1>4. /\ t \in Seq(S) /\ Len(t) = Len(l) + Len(r)
      /\ \A j \in 1 .. Len(l) + Len(r) : t[j] = IF j <= Len(l) THEN l[j] ELSE r[j - Len(l)]
  BY <1>2, <1>3, ConcatProperties
<1> HIDE DEF t
<1>5. Len(t) = Len(s) - 1 /\ Len(l) + Len(r) = Len(s) - 1
  BY <1>1, <1>2, <1>3, <1>4
<1>6. ASSUME NEW m \in 1 .. Len(s) - 1
      PROVE  t[m] = IF m < k THEN s[m] ELSE s[m + 1]
  <2>1. t[m] = IF m <= k - 1 THEN l[m] ELSE r[m - (k - 1)]
    BY <1>2, <1>4, <1>5
  <2>2. CASE m < k
    <3>1. m \in 1 .. k - 1 /\ m <= k - 1
      BY <2>2, <1>1
    <3> QED
      BY <2>1, <2>2, <3>1, <1>2
  <2>3. CASE ~(m < k)
    <3>1. /\ m - (k - 1) \in 1 .. Len(s) - k /\ ~(m <= k - 1)
          /\ k + (m - (k - 1)) = m + 1
      BY <2>3, <1>1
    <3> QED
      BY <2>1, <2>3, <3>1, <1>3
  <2> QED
    BY <2>2, <2>3
<1> QED
    BY <1>4, <1>5, <1>6 DEF RemoveAt, t, l, r

\* detachFromProject detaches no other project.
LEMMA Detaching ==
    ASSUME NEW i \in Info, NEW P \in Project, NEW p
    PROVE  /\ detachFromProject(i, P) \in Info
           /\ Follows(i, detachFromProject(i, P), p)
           /\ \A Q : isAttached(i, Q) /\ Q # P => isAttached(detachFromProject(i, P), Q)
           /\ \A Q : isAttached(detachFromProject(i, P), Q) => isAttached(i, Q)
<1>1. CASE ~isAttached(i, P)
  BY <1>1, InfoFields DEF detachFromProject, Follows
<1>2. CASE isAttached(i, P)
  <2> DEFINE c == i.containingProjects
             index == CHOOSE k \in DOMAIN c : c[k] = P
             j == [i EXCEPT !.containingProjects = RemoveAt(@, index)]
  <2>1. detachFromProject(i, P) = j
    BY <1>2 DEF detachFromProject
  <2>2. c \in Seq(Project)
    BY InfoFields
  <2>3. index \in DOMAIN c /\ c[index] = P
    BY <1>2, AttachedIsListed
  <2> DEFINE d == RemoveAt(c, index)
  <2>4. /\ d \in Seq(Project) /\ Len(d) = Len(c) - 1
        /\ \A m \in 1 .. Len(c) - 1 : d[m] = IF m < index THEN c[m] ELSE c[m + 1]
    BY <2>2, <2>3, Removing
  <2>5. /\ IsInjective(c) /\ Len(c) \in Nat /\ DOMAIN c = 1 .. Len(c)
        /\ DOMAIN d = 1 .. Len(c) - 1
    BY <2>2, <2>4, InfoFields, LenProperties
  <2> HIDE DEF index, d, c
  <2>6. IsInjective(d)
    <3> DEFINE from(m) == IF m < index THEN m ELSE m + 1
    <3>1. \A m \in DOMAIN d : from(m) \in DOMAIN c /\ d[m] = c[from(m)]
      BY <2>3, <2>4, <2>5
    <3>2. \A m, n \in DOMAIN d : from(m) = from(n) => m = n
      BY <2>3, <2>5
    <3> HIDE DEF from
    <3> QED BY <3>1, <3>2, <2>5 DEF IsInjective
  <2>7. \A k \in DOMAIN c : k # index => \E m \in DOMAIN d : d[m] = c[k]
    <3>1. ASSUME NEW k \in DOMAIN c, k < index
          PROVE  k \in DOMAIN d /\ d[k] = c[k]
      BY <2>3, <2>4, <2>5, <3>1
    <3>2. ASSUME NEW k \in DOMAIN c, k > index
          PROVE  k - 1 \in DOMAIN d /\ d[k - 1] = c[k]
      <4>1. k - 1 \in 1 .. Len(c) - 1 /\ ~(k - 1 < index) /\ (k - 1) + 1 = k
        BY <2>3, <2>5, <3>2
      <4> QED BY <4>1, <2>4, <2>5
    <3>3. \A k \in DOMAIN c : k # index => k < index \/ k > index
      BY <2>3, <2>5
    <3> QED BY <3>1, <3>2, <3>3
  <2>8. \A m \in DOMAIN d : \E k \in DOMAIN c : c[k] = d[m]
    BY <2>3, <2>4, <2>5
  <2>9. j \in Info /\ j.containingProjects = d
    <3>1. j = [i EXCEPT !.containingProjects = d]
      BY DEF d, c
    <3> QED BY <3>1, <2>4, <2>6, Relisting
  <2>10. Follows(i, j, p)
    BY InfoFields DEF Info, Follows
  <2>11. ASSUME NEW Q, isAttached(i, Q), Q # P
         PROVE  isAttached(j, Q)
    <3>1. PICK k \in DOMAIN c : c[k] = Q
      BY <2>11, AttachedIsListed DEF c
    <3> QED
      BY <2>3, <2>7, <2>9, <2>11, <3>1, AttachedIsListed
  <2>12. ASSUME NEW Q, isAttached(j, Q)
         PROVE  isAttached(i, Q)
    <3>1. PICK m \in DOMAIN d : d[m] = Q
      BY <2>9, <2>12, AttachedIsListed
    <3> QED
      BY <2>8, <3>1, AttachedIsListed DEF c
  <2> QED
    BY <2>1, <2>9, <2>10, <2>11, <2>12
<1> QED
    BY <1>1, <1>2

\* reloadIfNeeded reads a new text only if a reload is pending that finds one, and leaves
\* none to be read.
LEMMA Reloading ==
    ASSUME NEW i \in Info, NEW p \in Path, disk \in [Path -> Text \cup {NoText}]
    PROVE  /\ reloadIfNeeded(i, p) \in Info
           /\ Follows(i, reloadIfNeeded(i, p), p)
           /\ ~Unread(reloadIfNeeded(i, p), p)
           /\ reloadIfNeeded(i, p).deferredDelete = i.deferredDelete
           /\ reloadIfNeeded(i, p).containingProjects = i.containingProjects
<1>1. CASE i.pendingReloadFromDisk /\ Exists(p) /\ disk[p] # i.text
  <2>1. disk[p] \in Text
    BY <1>1 DEF Exists
  <2>2. reloadIfNeeded(i, p) = [i EXCEPT !.text = disk[p], !.version = @ + 1,
                                         !.matchesDiskText = TRUE]
    BY <1>1 DEF reloadIfNeeded, SetTextFromDisk, setText, Info
  <2> DEFINE j == [i EXCEPT !.text = disk[p], !.version = @ + 1, !.matchesDiskText = TRUE]
  <2>0. i.version \in Nat /\ i.version + 1 \in Nat /\ i.version < i.version + 1
    BY InfoFields
  <2>3. j \in Info
    BY <2>0, <2>1 DEF Info
  <2>4. /\ j.version = i.version + 1 /\ j.isOpen = i.isOpen /\ j.text = disk[p]
        /\ j.pendingReloadFromDisk = i.pendingReloadFromDisk
        /\ j.deferredDelete = i.deferredDelete /\ j.matchesDiskText
        /\ j.containingProjects = i.containingProjects
    BY DEF Info
  <2>5. reloadIfNeeded(i, p) = j
    BY <2>2
  <2> HIDE DEF j
  <2>6. i.version <= j.version /\ i.version # j.version
    BY <2>0, <2>4
  <2>7. Follows(i, j, p)
    BY <2>4, <2>6, <1>1 DEF Follows, Unread
  <2>8. ~Unread(j, p)
    BY <2>4 DEF Unread
  <2> QED
    BY <2>3, <2>4, <2>5, <2>7, <2>8
<1>2. CASE ~(i.pendingReloadFromDisk /\ Exists(p) /\ disk[p] # i.text)
  BY <1>2, InfoFields DEF reloadIfNeeded, SetTextFromDisk, Follows, Unread
<1> QED
    BY <1>1, <1>2

\* What follows what follows a state of a file follows it.
LEMMA FollowingIsTransitive ==
    ASSUME NEW i \in Info, NEW j \in Info, NEW k \in Info, NEW p,
           Follows(i, j, p), Follows(j, k, p)
    PROVE  Follows(i, k, p)
BY InfoFields DEF Follows, Unread

DiskOK == disk \in [Path -> Text \cup {NoText}]

\* The info j may take the place of the one the service has for the file: it follows
\* that info, or goes on counting versions where a deleted one stopped, and stays
\* attached to every project but P.
Succeeds(s, p, j, P) ==
    /\ j \in Info
    /\ s.infos[p] # NoInfo =>
           /\ Follows(s.infos[p], j, p)
           /\ \A Q : isAttached(s.infos[p], Q) /\ Q # P => isAttached(j, Q)
    /\ s.infos[p] = NoInfo =>
           /\ ~j.isOpen /\ j.matchesDiskText /\ ~j.deferredDelete
           /\ s.versions[p] # NoVersion => s.versions[p] < j.version

\* The types of the fields of a service that the lemmas read.
LEMMA ServiceFields ==
    ASSUME NEW s \in Service
    PROVE  /\ s.infos \in [Path -> Info \cup {NoInfo}]
           /\ s.versions \in [Path -> Nat \cup {NoVersion}]
           /\ s.projects \in [Project -> ProjectState]
           /\ s.configured \in Configured \cup {NoProject}
           /\ s.openFiles \subseteq Path
BY DEF Service

\* The types of the fields of a project.
LEMMA ProjectFields ==
    ASSUME NEW x \in ProjectState
    PROVE  /\ x.exists \in BOOLEAN /\ x.dirty \in BOOLEAN
           /\ x.dirtyFilePath \in Path \cup {NoPath}
           /\ x.pendingReload \in {"none", "fileNames", "full"}
           /\ x.deferredClose \in BOOLEAN
           /\ x.rootFiles \subseteq Path /\ x.commandLine \subseteq Path
           /\ x.program \in Program \cup {NoProgram}
           /\ x.failedLookups \subseteq Path
BY DEF ProjectState

\* The counting of versions goes on.
LEMMA FirstVersions ==
    ASSUME NEW s \in Service, NEW p \in Path, NEW v \in Nat
    PROVE  /\ FirstVersion(s, p, v) \in Nat
           /\ s.versions[p] # NoVersion => s.versions[p] < FirstVersion(s, p, v)
<1>1. s.versions[p] \in Nat \cup {NoVersion}
  BY ServiceFields
<1> QED
    BY <1>1 DEF FirstVersion

\* getOrCreateScriptInfo finds the info or makes one of what is on disk.
LEMMA Getting ==
    ASSUME DiskOK, NEW s \in Service, NEW p \in Path, Available(s, p)
    PROVE  /\ Succeeds(s, p, getOrCreateScriptInfo(s, p), NoProject)
           /\ ~getOrCreateScriptInfo(s, p).deferredDelete
<1> DEFINE g == getOrCreateScriptInfo(s, p)
<1>1. CASE s.infos[p] = NoInfo
  <2>1. disk[p] \in Text /\ disk[p] # NoText
    BY <1>1 DEF DiskOK, Available, Live, Exists
  <2> DEFINE t == disk[p]
             x == setText(NewScriptInfo, t)
             y == [x EXCEPT !.matchesDiskText = TRUE]
             v == FirstVersion(s, p, y.version)
             lists == {c \in Seq(Project) : IsInjective(c)}
  <2>0. <<>> \in lists
    BY DEF IsInjective
  <2> HIDE DEF lists
  <2>2. /\ NewScriptInfo.text = NoText /\ NewScriptInfo.version + 1 \in Nat
        /\ NewScriptInfo \in [text : {NoText}, version : Nat, isOpen : {FALSE},
                               pendingReloadFromDisk : BOOLEAN, matchesDiskText : BOOLEAN,
                               deferredDelete : {FALSE}, containingProjects : lists]
    BY <2>0 DEF NewScriptInfo
  <2>3. x \in Info /\ ~x.isOpen /\ ~x.deferredDelete
    BY <2>1, <2>2 DEF setText, Info, lists
  <2>4. g = [y EXCEPT !.version = v]
    BY <1>1, <2>1, <2>2 DEF getOrCreateScriptInfo, SetTextFromDisk
  <2> HIDE DEF x
  <2>5. y \in Info /\ ~y.isOpen /\ ~y.deferredDelete /\ y.matchesDiskText
    BY <2>3 DEF Info
  <2> HIDE DEF y
  <2>6. v \in Nat /\ (s.versions[p] # NoVersion => s.versions[p] < v)
    BY <2>5, InfoFields, FirstVersions
  <2> HIDE DEF v, g
  <2>7. /\ g \in Info /\ ~g.isOpen /\ ~g.deferredDelete /\ g.matchesDiskText
        /\ g.version = v
    BY <2>4, <2>5, <2>6 DEF Info
  <2> QED
    BY <1>1, <2>6, <2>7 DEF Succeeds, g
<1>2. CASE s.infos[p] # NoInfo
  <2> DEFINE i == s.infos[p]
  <2>1. i \in Info
    BY <1>2, ServiceFields
  <2>2. g = [i EXCEPT !.deferredDelete = FALSE]
    BY <1>2 DEF getOrCreateScriptInfo
  <2>3. g \in Info /\ ~g.deferredDelete /\ g.containingProjects = i.containingProjects
    BY <2>1, <2>2 DEF Info
  <2>4. Follows(i, g, p)
    BY <2>1, <2>2, InfoFields DEF Info, Follows
  <2>5. \A Q : isAttached(i, Q) => isAttached(g, Q)
    BY <2>3 DEF isAttached
  <2> QED
    BY <1>2, <2>3, <2>4, <2>5 DEF Succeeds
<1> QED
    BY <1>1, <1>2

\* Attaching it to a project and reloading it are among the things that may happen to it.
LEMMA SucceedingAttached ==
    ASSUME NEW s \in Service, NEW p \in Path, NEW P0, NEW P \in Project, NEW i,
           Succeeds(s, p, i, P0)
    PROVE  /\ Succeeds(s, p, attachToProject(i, P), P0)
           /\ isAttached(attachToProject(i, P), P)
           /\ attachToProject(i, P).deferredDelete = i.deferredDelete
<1> DEFINE j == attachToProject(i, P)
<1>1. i \in Info
  BY DEF Succeeds
<1>2. /\ j \in Info /\ Follows(i, j, p) /\ j.version = i.version
      /\ j.deferredDelete = i.deferredDelete /\ isAttached(j, P)
      /\ \A Q : isAttached(i, Q) => isAttached(j, Q)
  BY <1>1, Attaching
<1> HIDE DEF j
<1>3. s.infos[p] # NoInfo => Follows(s.infos[p], j, p)
  BY <1>1, <1>2, FollowingIsTransitive, ServiceFields DEF Succeeds
<1>4. s.infos[p] = NoInfo => ~j.isOpen /\ j.matchesDiskText /\ ~j.deferredDelete
  BY <1>2 DEF Succeeds, Follows
<1> QED
  BY <1>2, <1>3, <1>4 DEF Succeeds, j

\* reloadIfNeeded (scriptinfo.go:72) of a file that succeeds another succeeds it too.
LEMMA SucceedingReloaded ==
    ASSUME DiskOK, NEW s \in Service, NEW p \in Path, NEW P0, NEW i, Succeeds(s, p, i, P0)
    PROVE  /\ Succeeds(s, p, reloadIfNeeded(i, p), P0)
           /\ ~Unread(reloadIfNeeded(i, p), p)
           /\ reloadIfNeeded(i, p).deferredDelete = i.deferredDelete
           /\ reloadIfNeeded(i, p).containingProjects = i.containingProjects
<1> DEFINE j == reloadIfNeeded(i, p)
<1>1. i \in Info
  BY DEF Succeeds
<1>2. /\ j \in Info /\ Follows(i, j, p) /\ j.deferredDelete = i.deferredDelete
      /\ j.containingProjects = i.containingProjects /\ ~Unread(j, p)
  BY <1>1, Reloading DEF DiskOK
<1> HIDE DEF j
<1>3. s.infos[p] # NoInfo => Follows(s.infos[p], j, p)
  BY <1>1, <1>2, FollowingIsTransitive, ServiceFields DEF Succeeds
<1>4. s.infos[p] = NoInfo => ~j.isOpen /\ j.matchesDiskText /\ ~j.deferredDelete
  BY <1>2 DEF Succeeds, Follows
<1>5. i.version \in Nat /\ j.version \in Nat /\ i.version <= j.version
  BY <1>1, <1>2, InfoFields DEF Follows
<1>6. s.infos[p] = NoInfo /\ s.versions[p] # NoVersion => s.versions[p] < j.version
  <2>1. s.versions[p] \in Nat \cup {NoVersion}
    BY ServiceFields
  <2>2. s.infos[p] = NoInfo /\ s.versions[p] # NoVersion => s.versions[p] < i.version
    BY DEF Succeeds
  <2> QED
    BY <1>5, <2>1, <2>2
<1>7. \A Q : isAttached(i, Q) => isAttached(j, Q)
  BY <1>2 DEF isAttached
<1> QED
  BY <1>2, <1>3, <1>4, <1>6, <1>7 DEF Succeeds, j

\* LoadFile: the info is attached to the project, not to be deleted, and read.
LEMMA Loading ==
    ASSUME DiskOK, NEW s \in Service, NEW p \in Path, NEW P \in Project, Available(s, p)
    PROVE  /\ Succeeds(s, p, LoadFile(s, P, p), NoProject)
           /\ isAttached(LoadFile(s, P, p), P)
           /\ ~LoadFile(s, P, p).deferredDelete
           /\ ~Unread(LoadFile(s, P, p), p)
<1> DEFINE i == attachToProject(getOrCreateScriptInfo(s, p), P)
<1>1. Succeeds(s, p, i, NoProject) /\ isAttached(i, P) /\ ~i.deferredDelete
  BY Getting, SucceedingAttached
<1> HIDE DEF i
<1>2. /\ Succeeds(s, p, reloadIfNeeded(i, p), NoProject)
      /\ ~reloadIfNeeded(i, p).deferredDelete /\ isAttached(reloadIfNeeded(i, p), P)
      /\ ~Unread(reloadIfNeeded(i, p), p)
  BY <1>1, SucceedingReloaded DEF isAttached
<1> QED
  BY <1>2 DEF LoadFile, i

\* Nothing happens to a file but what the server itself does: its info follows the one
\* before, or is made anew with a later version, and no project but P loses it.
Advances(s, r, p, P) ==
    /\ s.infos[p] # NoInfo =>
           /\ r.infos[p] # NoInfo
           /\ Follows(s.infos[p], r.infos[p], p)
           /\ \A Q : isAttached(s.infos[p], Q) /\ Q # P => isAttached(r.infos[p], Q)
    /\ s.infos[p] = NoInfo /\ r.infos[p] # NoInfo =>
           /\ ~r.infos[p].isOpen /\ r.infos[p].matchesDiskText /\ ~r.infos[p].deferredDelete
           /\ s.versions[p] # NoVersion => s.versions[p] < r.infos[p].version
    /\ s.infos[p] = NoInfo /\ r.infos[p] = NoInfo => r.versions[p] = s.versions[p]

Grows(s, r, P) ==
    /\ r \in Service
    /\ r.openFiles = s.openFiles
    /\ \A p \in Path : Advances(s, r, p, P)

\* Two steps that each advance a file advance it together.
LEMMA AdvancingIsTransitive ==
    ASSUME NEW s \in Service, NEW r \in Service, NEW q \in Service, NEW p \in Path, NEW P,
           Advances(s, r, p, P), Advances(r, q, p, P)
    PROVE  Advances(s, q, p, P)
<1>1. /\ s.infos[p] \in Info \cup {NoInfo} /\ r.infos[p] \in Info \cup {NoInfo}
      /\ q.infos[p] \in Info \cup {NoInfo} /\ s.versions[p] \in Nat \cup {NoVersion}
  BY ServiceFields
<1>2. CASE s.infos[p] # NoInfo
  <2>1. r.infos[p] # NoInfo /\ q.infos[p] # NoInfo
    BY <1>2 DEF Advances
  <2>2. Follows(s.infos[p], q.infos[p], p)
    BY <1>1, <1>2, <2>1, FollowingIsTransitive DEF Advances
  <2> QED
    BY <1>2, <2>1, <2>2 DEF Advances
<1>3. CASE s.infos[p] = NoInfo /\ r.infos[p] # NoInfo
  <2>1. q.infos[p] # NoInfo /\ Follows(r.infos[p], q.infos[p], p)
    BY <1>3 DEF Advances
  <2>2. /\ ~q.infos[p].isOpen /\ q.infos[p].matchesDiskText
        /\ ~q.infos[p].deferredDelete
    BY <1>3, <2>1 DEF Advances, Follows
  <2>3. r.infos[p].version \in Nat /\ q.infos[p].version \in Nat
    BY <1>1, <1>3, <2>1, InfoFields
  <2>4. r.infos[p].version <= q.infos[p].version
    BY <2>1 DEF Follows
  <2>5. s.versions[p] # NoVersion => s.versions[p] < r.infos[p].version
    BY <1>3 DEF Advances
  <2>6. s.versions[p] # NoVersion => s.versions[p] < q.infos[p].version
    BY <1>1, <2>3, <2>4, <2>5
  <2> QED
    BY <1>3, <2>1, <2>2, <2>6 DEF Advances
<1>4. CASE s.infos[p] = NoInfo /\ r.infos[p] = NoInfo
  BY <1>4 DEF Advances
<1> QED
  BY <1>2, <1>3, <1>4

\* Two steps that each let every file advance do so together.
LEMMA GrowingIsTransitive ==
    ASSUME NEW s \in Service, NEW r, NEW q, NEW P, Grows(s, r, P), Grows(r, q, P)
    PROVE  Grows(s, q, P)
BY AdvancingIsTransitive DEF Grows

\* A service that does not change grows.
LEMMA GrowingIsReflexive ==
    ASSUME NEW s \in Service, NEW P
    PROVE  Grows(s, s, P)
<1>1. ASSUME NEW p \in Path, s.infos[p] # NoInfo
      PROVE  Follows(s.infos[p], s.infos[p], p)
  BY <1>1, ServiceFields, InfoFields DEF Follows
<1> QED
  BY <1>1 DEF Grows, Advances

\* If no project loses a file, one project does not.
LEMMA NoneLoses ==
    ASSUME NEW s \in Service, NEW r, NEW P, Grows(s, r, NoProject)
    PROVE  Grows(s, r, P)
<1>1. ASSUME NEW p \in Path, s.infos[p] # NoInfo, NEW Q, isAttached(s.infos[p], Q)
      PROVE  isAttached(r.infos[p], Q)
  <2>1. s.infos[p] \in Info
    BY <1>1, ServiceFields
  <2>2. Q # NoProject
    BY <1>1, <2>1, ProjectsAreAttached, ServiceAssumption
  <2> QED
    BY <1>1, <2>2 DEF Grows, Advances
<1> QED
  BY <1>1 DEF Grows, Advances

\* The values of a function with some of them replaced.
LEMMA Overriding ==
    ASSUME NEW f, NEW g
    PROVE  Override(f, g) = [x \in DOMAIN g |-> IF x \in DOMAIN f THEN f[x] ELSE g[x]]
BY DEF Override

\* Enter puts the new infos in the table.
LEMMA Entering ==
    ASSUME NEW s \in Service, NEW F \in SUBSET Path, NEW infos, DOMAIN infos = F, NEW P,
           \A p \in F : Succeeds(s, p, infos[p], P)
    PROVE  /\ Grows(s, Enter(s, infos), P)
           /\ \A p \in F : Enter(s, infos).infos[p] = infos[p]
           /\ \A p \in Path \ F : Enter(s, infos).infos[p] = s.infos[p]
           /\ Enter(s, infos).projects = s.projects
           /\ Enter(s, infos).configured = s.configured
           /\ Enter(s, infos).panic = s.panic
<1> DEFINE made == {p \in DOMAIN infos : s.infos[p] = NoInfo}
           table == Override(infos, s.infos)
           versions == Override([p \in made |-> NoVersion], s.versions)
           r == [s EXCEPT !.infos = table, !.versions = versions]
<1>1. Enter(s, infos) = r
  BY DEF Enter
<1>2. table = [p \in Path |-> IF p \in F THEN infos[p] ELSE s.infos[p]]
  BY ServiceFields, Overriding
<1>3. versions = [p \in Path |-> IF p \in made THEN NoVersion ELSE s.versions[p]]
  BY ServiceFields, Overriding
<1>4. table \in [Path -> Info \cup {NoInfo}]
  BY <1>2, ServiceFields DEF Succeeds
<1>5. versions \in [Path -> Nat \cup {NoVersion}]
  BY <1>3, ServiceFields
<1>6. \A p \in made : p \in F /\ s.infos[p] = NoInfo
  OBVIOUS
<1>7. \A p \in F : infos[p] # NoInfo
  BY InfoFields DEF Succeeds
<1> HIDE DEF table, versions, made
<1>8. /\ r \in Service /\ r.infos = table /\ r.versions = versions
      /\ r.projects = s.projects /\ r.configured = s.configured
      /\ r.openFiles = s.openFiles /\ r.panic = s.panic
  BY <1>4, <1>5, Zenon DEF Service
<1> HIDE DEF r
<1>9. ASSUME NEW p \in Path
      PROVE  Advances(s, r, p, P)
  <2>1. CASE p \in F
    <3>1. r.infos[p] = infos[p] /\ Succeeds(s, p, r.infos[p], P) /\ r.infos[p] # NoInfo
      BY <2>1, <1>2, <1>7, <1>8
    <3> QED
      BY <3>1 DEF Succeeds, Advances
  <2>2. CASE p \notin F
    <3>1. r.infos[p] = s.infos[p] /\ r.versions[p] = s.versions[p]
      BY <2>2, <1>2, <1>3, <1>6, <1>8
    <3>2. Advances(s, s, p, P)
      BY GrowingIsReflexive DEF Grows
    <3> QED
      BY <3>1, <3>2 DEF Advances
  <2> QED
    BY <2>1, <2>2
<1> QED
  BY <1>1, <1>2, <1>8, <1>9 DEF Grows

\* An info is open if and only if the editor has the file open, and then it is neither to
\* be reloaded nor to be deleted.
Shown(s) ==
    \A p \in Path :
        /\ p \in s.openFiles => s.infos[p] # NoInfo /\ s.infos[p].isOpen
        /\ s.infos[p] # NoInfo /\ s.infos[p].isOpen =>
               /\ p \in s.openFiles
               /\ ~s.infos[p].pendingReloadFromDisk
               /\ ~s.infos[p].deferredDelete

\* No later version of a file than the info's has been parsed, and the same version of
\* the text the info has.
Holds(s, p, d) ==
    IF s.infos[p] = NoInfo THEN s.versions[p] # NoVersion /\ d.version <= s.versions[p]
    ELSE /\ d.version <= s.infos[p].version
         /\ d.version = s.infos[p].version => d.text = s.infos[p].text

DocOf(s, P, p) ==
    IF s.projects[P].program = NoProgram THEN NoDoc ELSE s.projects[P].program.files[p]

Attached(s, P, p) == s.infos[p] # NoInfo /\ isAttached(s.infos[p], P)

\* The project has the file among those it is told of changes of.
Listed(s, P, p) == Attached(s, P, p) /\ ~s.infos[p].deferredDelete

\* The parsed file d is what the file p would be parsed to now.
Current(s, p, d) ==
    /\ s.infos[p] # NoInfo
    /\ d.version = s.infos[p].version
    /\ ~Unread(s.infos[p], p)

DocsHeld(s, P) == \A p \in Path : DocOf(s, P, p) # NoDoc => Holds(s, p, DocOf(s, P, p))

\* Open files go on showing the editor's text while a service grows.
LEMMA GrowingIsShown ==
    ASSUME NEW s \in Service, NEW r, NEW P, Grows(s, r, P), Shown(s)
    PROVE  Shown(r)
<1>1. ASSUME NEW p \in Path
      PROVE  /\ p \in r.openFiles => r.infos[p] # NoInfo /\ r.infos[p].isOpen
             /\ r.infos[p] # NoInfo /\ r.infos[p].isOpen =>
                    /\ p \in r.openFiles
                    /\ ~r.infos[p].pendingReloadFromDisk
                    /\ ~r.infos[p].deferredDelete
  <2>1. Advances(s, r, p, P) /\ r.openFiles = s.openFiles
    BY DEF Grows
  <2>2. CASE s.infos[p] # NoInfo
    BY <2>1, <2>2 DEF Advances, Follows, Shown
  <2>3. CASE s.infos[p] = NoInfo
    BY <2>1, <2>3 DEF Advances, Shown
  <2> QED
    BY <2>2, <2>3
<1> QED
  BY <1>1 DEF Shown

\* What the editor has in an open file, the server leaves alone.
LEMMA OpenFilesStay ==
    ASSUME NEW s \in Service, NEW r, NEW P, Grows(s, r, P), Shown(s), NEW p \in s.openFiles
    PROVE  /\ s.infos[p] \in Info /\ r.infos[p] \in Info
           /\ r.infos[p].version = s.infos[p].version
           /\ r.infos[p].text = s.infos[p].text
<1>1. p \in Path /\ s.infos[p] # NoInfo /\ ~s.infos[p].pendingReloadFromDisk
  BY ServiceFields DEF Shown
<1>2. r.infos[p] # NoInfo /\ Follows(s.infos[p], r.infos[p], p) /\ r \in Service
  BY <1>1 DEF Grows, Advances
<1>3. r.infos[p] \in Info /\ s.infos[p] \in Info
  BY <1>1, <1>2, ServiceFields
<1> QED
  BY <1>1, <1>2, <1>3 DEF Follows, Unread

\* A parsed file that was parsed from a text of its file stays one while a service grows.
LEMMA GrowingHolds ==
    ASSUME NEW s \in Service, NEW r, NEW P, Grows(s, r, P), NEW p \in Path, NEW d \in Doc,
           Holds(s, p, d)
    PROVE  Holds(r, p, d)
<1>1. r \in Service /\ Advances(s, r, p, P)
  BY DEF Grows
<1>2. /\ s.infos[p] \in Info \cup {NoInfo} /\ r.infos[p] \in Info \cup {NoInfo}
      /\ s.versions[p] \in Nat \cup {NoVersion}
  BY <1>1, ServiceFields
<1>3. d.version \in Nat
  BY DEF Doc
<1>4. CASE s.infos[p] # NoInfo
  <2> DEFINE i == s.infos[p]
             j == r.infos[p]
  <2>1. j # NoInfo /\ Follows(i, j, p)
    BY <1>1, <1>4 DEF Advances
  <2>2. i.version \in Nat /\ j.version \in Nat
    BY <1>2, <1>4, <2>1, InfoFields
  <2>3. i.version <= j.version /\ (i.version = j.version => i.text = j.text)
    BY <2>1 DEF Follows
  <2>4. d.version <= i.version /\ (d.version = i.version => d.text = i.text)
    BY <1>4 DEF Holds
  <2> HIDE DEF i, j
  <2>5. /\ d.version <= j.version
        /\ d.version = j.version => d.version = i.version /\ i.version = j.version
    BY <1>3, <2>2, <2>3, <2>4
  <2>6. d.version = j.version => d.text = j.text
    BY <2>3, <2>4, <2>5
  <2> QED
    BY <2>1, <2>5, <2>6 DEF Holds, j
<1>5. CASE s.infos[p] = NoInfo /\ r.infos[p] # NoInfo
  <2>1. s.versions[p] \in Nat /\ d.version <= s.versions[p]
    BY <1>2, <1>5 DEF Holds
  <2>2. s.versions[p] < r.infos[p].version /\ r.infos[p].version \in Nat
    BY <1>1, <1>2, <1>5, InfoFields, InfoAssumption, <2>1 DEF Advances
  <2>3. d.version < r.infos[p].version
    BY <1>3, <2>1, <2>2
  <2>4. d.version <= r.infos[p].version /\ d.version # r.infos[p].version
    BY <1>3, <2>2, <2>3
  <2> QED
    BY <1>5, <2>4 DEF Holds
<1>6. CASE s.infos[p] = NoInfo /\ r.infos[p] = NoInfo
  BY <1>1, <1>6 DEF Advances, Holds
<1> QED
  BY <1>4, <1>5, <1>6

\* What a project's program has for a path is a parsed file or none.
LEMMA DocsAreTyped ==
    ASSUME NEW s \in Service, NEW P \in Project, NEW p \in Path
    PROVE  DocOf(s, P, p) \in Doc \cup {NoDoc}
<1>1. s.projects[P] \in ProjectState
  BY ServiceFields
<1>2. s.projects[P].program \in Program \cup {NoProgram}
  BY <1>1, ProjectFields
<1> QED
  BY <1>2 DEF DocOf, Program

\* A program that is not replaced keeps its parsed files justified while a service grows.
LEMMA GrowingHoldsDocs ==
    ASSUME NEW s \in Service, NEW r, NEW P, Grows(s, r, P), NEW Q \in Project,
           r.projects[Q].program = s.projects[Q].program, DocsHeld(s, Q)
    PROVE  DocsHeld(r, Q)
<1>1. \A p \in Path : DocOf(r, Q, p) = DocOf(s, Q, p)
  BY DEF DocOf
<1>2. ASSUME NEW p \in Path, DocOf(s, Q, p) # NoDoc
      PROVE  Holds(r, p, DocOf(s, Q, p))
  BY <1>2, DocsAreTyped, GrowingHolds DEF DocsHeld
<1> QED
  BY <1>1, <1>2 DEF DocsHeld

\* Loading some files attaches them to the project and reads them.
LEMMA LoadingFiles ==
    ASSUME DiskOK, NEW s \in Service, NEW P \in Project, NEW F \in SUBSET Path,
           \A p \in F : Available(s, p)
    PROVE  /\ Grows(s, LoadFiles(s, P, F), NoProject)
           /\ \A p \in F : /\ LoadFiles(s, P, F).infos[p] \in Info
                           /\ isAttached(LoadFiles(s, P, F).infos[p], P)
                           /\ ~LoadFiles(s, P, F).infos[p].deferredDelete
                           /\ ~Unread(LoadFiles(s, P, F).infos[p], p)
           /\ \A p \in Path \ F : LoadFiles(s, P, F).infos[p] = s.infos[p]
           /\ LoadFiles(s, P, F).projects = s.projects
           /\ LoadFiles(s, P, F).configured = s.configured
           /\ LoadFiles(s, P, F).panic = s.panic
<1> DEFINE infos == [p \in F |-> LoadFile(s, P, p)]
<1>1. LoadFiles(s, P, F) = Enter(s, infos)
  BY DEF LoadFiles
<1>2. ASSUME NEW p \in F
      PROVE  /\ Succeeds(s, p, infos[p], NoProject)
             /\ isAttached(infos[p], P) /\ ~infos[p].deferredDelete /\ infos[p] \in Info
             /\ ~Unread(infos[p], p)
  <2>1. infos[p] = LoadFile(s, P, p) /\ Available(s, p) /\ p \in Path
    OBVIOUS
  <2> HIDE DEF infos
  <2> QED
    BY <2>1, Loading DEF Succeeds
<1>3. DOMAIN infos = F
  OBVIOUS
<1> HIDE DEF infos
<1>4. /\ Grows(s, Enter(s, infos), NoProject)
      /\ \A p \in F : Enter(s, infos).infos[p] = infos[p]
      /\ \A p \in Path \ F : Enter(s, infos).infos[p] = s.infos[p]
      /\ Enter(s, infos).projects = s.projects
      /\ Enter(s, infos).configured = s.configured
      /\ Enter(s, infos).panic = s.panic
  BY <1>2, <1>3, Entering
<1> QED
  BY <1>1, <1>2, <1>4

\* A document that is acquired is that of the info.
LEMMA Acquiring ==
    ASSUME NEW s \in Service, NEW P \in Project, NEW p \in Path, s.infos[p] # NoInfo,
           DocsHeld(s, P)
    PROVE  /\ AcquireDocument(s, P, p) \in Doc
           /\ AcquireDocument(s, P, p).version = s.infos[p].version
           /\ AcquireDocument(s, P, p).text = s.infos[p].text
<1> DEFINE old == DocOf(s, P, p)
           i == s.infos[p]
<1>1. /\ i \in Info /\ i.version \in Nat /\ i.text \in Text
  BY ServiceFields, InfoFields
<1>2. AcquireDocument(s, P, p) = IF old # NoDoc /\ old.version = i.version THEN old
                                 ELSE [version |-> i.version, text |-> i.text]
  BY DEF AcquireDocument, DocOf
<1>3. old \in Doc \cup {NoDoc}
  BY DocsAreTyped
<1>4. old # NoDoc => Holds(s, p, old)
  BY DEF DocsHeld
<1> HIDE DEF old, i
<1>5. CASE old # NoDoc /\ old.version = i.version
  BY <1>2, <1>3, <1>4, <1>5 DEF Holds, i
<1>6. CASE ~(old # NoDoc /\ old.version = i.version)
  BY <1>1, <1>2, <1>6 DEF Doc, i
<1> QED
  BY <1>5, <1>6

\* The state with another project object.
LEMMA ProjectReplaced ==
    ASSUME NEW s \in Service, NEW P \in Project, NEW x \in ProjectState
    PROVE  /\ [s EXCEPT !.projects[P] = x] \in Service
           /\ [s EXCEPT !.projects[P] = x].infos = s.infos
           /\ [s EXCEPT !.projects[P] = x].versions = s.versions
           /\ [s EXCEPT !.projects[P] = x].openFiles = s.openFiles
           /\ [s EXCEPT !.projects[P] = x].configured = s.configured
           /\ [s EXCEPT !.projects[P] = x].panic = s.panic
           /\ [s EXCEPT !.projects[P] = x].projects[P] = x
           /\ \A Q \in Project : Q # P => [s EXCEPT !.projects[P] = x].projects[Q] = s.projects[Q]
<1> DEFINE t == [s.projects EXCEPT ![P] = x]
           r == [s EXCEPT !.projects = t]
<1>1. [s EXCEPT !.projects[P] = x] = r
  OBVIOUS
<1>2. /\ t \in [Project -> ProjectState] /\ t[P] = x
      /\ \A Q \in Project : Q # P => t[Q] = s.projects[Q]
  BY ServiceFields
<1> HIDE DEF t
<1>3. /\ r \in Service /\ r.infos = s.infos /\ r.versions = s.versions
      /\ r.openFiles = s.openFiles /\ r.configured = s.configured /\ r.panic = s.panic
      /\ r.projects = t
  BY <1>2, Zenon DEF Service
<1> QED
  BY <1>1, <1>2, <1>3

\* Only files, versions and open files decide whether a service grows.
LEMMA ReplacingProjectsGrows ==
    ASSUME NEW s \in Service, NEW r, NEW P, NEW q \in Service, Grows(s, r, P),
           q.infos = r.infos, q.versions = r.versions, q.openFiles = r.openFiles
    PROVE  Grows(s, q, P)
BY DEF Grows, Advances

\* An available file has a text.
LEMMA TextsAreCurrent ==
    ASSUME DiskOK, NEW s \in Service, NEW p \in Path, Available(s, p)
    PROVE  CurrentText(s, p) \in Text
<1> DEFINE g == getOrCreateScriptInfo(s, p)
           i == reloadIfNeeded(g, p)
<1>1. Succeeds(s, p, g, NoProject)
  BY Getting
<1> HIDE DEF g
<1>2. Succeeds(s, p, i, NoProject)
  BY <1>1, SucceedingReloaded
<1>3. i \in Info
  BY <1>2 DEF Succeeds
<1>4. CurrentText(s, p) = i.text
  BY DEF CurrentText, g
<1> HIDE DEF i
<1> QED
  BY <1>3, <1>4, InfoFields

\* The files of a program can be had, and all its roots that can be had are among them.
LEMMA ReachableIsAvailable ==
    ASSUME DiskOK, NEW s \in Service, NEW roots \in SUBSET Path
    PROVE  /\ Reachable(s, roots) \in SUBSET Path
           /\ \A p \in Reachable(s, roots) : Available(s, p)
           /\ \A p \in roots : Available(s, p) => p \in Reachable(s, roots)
<1> DEFINE Ok(F) == {p \in F : Available(s, p)}
           Closed(F) == /\ Ok(roots) \subseteq F
                        /\ \A p \in F : Available(s, p) =>
                               Ok(Resolved(CurrentText(s, p))) \subseteq F
           F0 == {p \in Path : Available(s, p)}
<1>1. Reachable(s, roots) = {p \in Path : \A F \in SUBSET Path : Closed(F) => p \in F}
  BY Zenon DEF Reachable
<1>2. Closed(F0)
  <2>1. Ok(roots) \subseteq F0
    OBVIOUS
  <2>2. ASSUME NEW p \in F0
        PROVE  Ok(Resolved(CurrentText(s, p))) \subseteq F0
    <3>1. CurrentText(s, p) \in Text
      BY TextsAreCurrent
    <3>2. Resolved(CurrentText(s, p)) \subseteq Path
      BY <3>1, ProjectAssumption DEF Resolved
    <3> QED
      BY <3>2
  <2> QED
    BY <2>1, <2>2
<1>3. \A F \in SUBSET Path : Closed(F) => \A p \in roots : Available(s, p) => p \in F
  OBVIOUS
<1>4. F0 \in SUBSET Path /\ \A p \in F0 : Available(s, p)
  OBVIOUS
<1> HIDE DEF Closed, F0
<1> QED
  BY <1>1, <1>2, <1>3, <1>4

\* Building a program leaves all of a project but its program and failed lookups alone.
Rebuilt(x, y) ==
    /\ y \in ProjectState
    /\ y.exists = x.exists /\ y.dirty = x.dirty /\ y.dirtyFilePath = x.dirtyFilePath
    /\ y.pendingReload = x.pendingReload /\ y.deferredClose = x.deferredClose
    /\ y.rootFiles = x.rootFiles /\ y.commandLine = x.commandLine

\* A project with a new program is rebuilt: nothing else of it changes.
LEMMA Rebuilding ==
    ASSUME NEW x \in ProjectState, NEW made \in Program, NEW failed \in SUBSET Path
    PROVE  /\ Rebuilt(x, [x EXCEPT !.program = made, !.failedLookups = failed])
           /\ [x EXCEPT !.program = made, !.failedLookups = failed].program = made
<1> DEFINE y == [x EXCEPT !.program = made, !.failedLookups = failed]
<1>1. /\ y \in ProjectState /\ y.program = made
      /\ y.exists = x.exists /\ y.dirty = x.dirty /\ y.dirtyFilePath = x.dirtyFilePath
      /\ y.pendingReload = x.pendingReload /\ y.deferredClose = x.deferredClose
      /\ y.rootFiles = x.rootFiles /\ y.commandLine = x.commandLine
  BY Zenon DEF ProjectState
<1> QED
  BY <1>1 DEF Rebuilt

\* A program built just now: its files are attached to the project and are those of the
\* infos, which have been read.
Built(r, P, p) ==
    DocOf(r, P, p) # NoDoc =>
        /\ Listed(r, P, p)
        /\ Current(r, p, DocOf(r, P, p))
        /\ DocOf(r, P, p).text = r.infos[p].text

Others(s, r, P) ==
    /\ r.configured = s.configured /\ r.panic = s.panic
    /\ \A Q \in Project : Q # P => r.projects[Q] = s.projects[Q]

\* NewProgram (program.go:175) lets the files advance, changes the program of its project
\* alone, leaves every file of it current and attaches every root that exists.
LEMMA BuildingAnew ==
    ASSUME DiskOK, NEW s \in Service, NEW P \in Project, NEW roots \in SUBSET Path,
           DocsHeld(s, P)
    PROVE  /\ Grows(s, NewProgram(s, P, roots), NoProject)
           /\ Others(s, NewProgram(s, P, roots), P)
           /\ Rebuilt(s.projects[P], NewProgram(s, P, roots).projects[P])
           /\ \A p \in Path : Built(NewProgram(s, P, roots), P, p)
           /\ \A p \in roots : Available(s, p) => Attached(NewProgram(s, P, roots), P, p)
<1> DEFINE F == Reachable(s, roots)
           r == LoadFiles(s, P, F)
           files == [p \in Path |-> IF p \in F THEN AcquireDocument(r, P, p) ELSE NoDoc]
           made == [roots |-> roots, files |-> files]
           failed == {p \in UNION {Imports[r.infos[q].text] : q \in F} : ~Exists(p)}
           x == [r.projects[P] EXCEPT !.program = made, !.failedLookups = failed]
           n == [r EXCEPT !.projects[P] = x]
<1>1. NewProgram(s, P, roots) = n
  BY DEF NewProgram
<1>2. /\ F \in SUBSET Path /\ \A p \in F : Available(s, p)
      /\ \A p \in roots : Available(s, p) => p \in F
  BY ReachableIsAvailable
<1> HIDE DEF F
<1>3. /\ Grows(s, r, NoProject)
      /\ \A p \in F : /\ r.infos[p] \in Info /\ isAttached(r.infos[p], P)
                      /\ ~r.infos[p].deferredDelete /\ ~Unread(r.infos[p], p)
      /\ r.projects = s.projects /\ r.configured = s.configured /\ r.panic = s.panic
  BY <1>2, LoadingFiles
<1> HIDE DEF r
<1>4. r \in Service /\ r.projects[P] \in ProjectState
  BY <1>3, ServiceFields DEF Grows
<1>5. DocsHeld(r, P)
  BY <1>3, GrowingHoldsDocs
<1>6. \A p \in F : r.infos[p] # NoInfo /\ r.infos[p].text \in Text
  BY <1>3, InfoFields
<1>7. ASSUME NEW p \in F
      PROVE  /\ AcquireDocument(r, P, p) \in Doc
             /\ AcquireDocument(r, P, p).version = r.infos[p].version
             /\ AcquireDocument(r, P, p).text = r.infos[p].text
  BY <1>2, <1>4, <1>5, <1>6, Acquiring
<1>8. files \in [Path -> Doc \cup {NoDoc}]
  BY <1>2, <1>7
<1>9. \A p \in Path : files[p] # NoDoc => /\ p \in F /\ files[p].version = r.infos[p].version
                                          /\ files[p].text = r.infos[p].text
  BY <1>7
<1> HIDE DEF files
<1>10. made \in Program /\ made.files = files
  BY <1>8 DEF Program
<1>11. failed \in SUBSET Path
  BY <1>6, ProjectAssumption
<1> HIDE DEF made, failed
<1>12. x \in ProjectState /\ Rebuilt(r.projects[P], x) /\ x.program = made
  <2>1. Rebuilt(r.projects[P], x) /\ x.program = made
    BY <1>4, <1>10, <1>11, Rebuilding
  <2> QED
    BY <2>1 DEF Rebuilt
<1> HIDE DEF x
<1>13. /\ n \in Service /\ n.infos = r.infos /\ n.versions = r.versions
       /\ n.openFiles = r.openFiles /\ n.configured = r.configured /\ n.panic = r.panic
       /\ n.projects[P] = x /\ \A Q \in Project : Q # P => n.projects[Q] = r.projects[Q]
  BY <1>4, <1>12, ProjectReplaced
<1> HIDE DEF n
<1>14. Grows(s, n, NoProject)
  BY <1>3, <1>13, ReplacingProjectsGrows
<1>15. Others(s, n, P)
  BY <1>3, <1>13 DEF Others
<1>16. ASSUME NEW p \in Path
       PROVE  Built(n, P, p)
  <2>1. DocOf(n, P, p) = files[p]
    BY <1>10, <1>12, <1>13, ProjectAssumption DEF DocOf
  <2> QED
    BY <2>1, <1>3, <1>6, <1>9, <1>13 DEF Built, Attached, Listed, Current
<1>17. \A p \in roots : Available(s, p) => Attached(n, P, p)
  BY <1>2, <1>3, <1>6, <1>13 DEF Attached
<1> QED
  BY <1>1, <1>3, <1>12, <1>13, <1>14, <1>15, <1>16, <1>17

\* UpdateProgram fails for a file that has left the program only.  Otherwise it replaces
\* the one file or builds the program anew.
LEMMA Updating ==
    ASSUME DiskOK, NEW s \in Service, NEW P \in Project, NEW p \in Path, DocsHeld(s, P),
           s.projects[P].program # NoProgram, Available(s, p)
    PROVE  \/ UpdateProgram(s, P, p) = Panic(s, "changed file not in program")
           \/ /\ Grows(s, UpdateProgram(s, P, p), NoProject)
              /\ Others(s, UpdateProgram(s, P, p), P)
              /\ Rebuilt(s.projects[P], UpdateProgram(s, P, p).projects[P])
              /\ \A q \in Path : \/ Built(UpdateProgram(s, P, p), P, q)
                                 \/ /\ q # p
                                    /\ DocOf(UpdateProgram(s, P, p), P, q) = DocOf(s, P, q)
                                    /\ UpdateProgram(s, P, p).infos[q] = s.infos[q]
              /\ DocsHeld(UpdateProgram(s, P, p), P)
<1> DEFINE old == s.projects[P].program
           r == LoadFiles(s, P, {p})
           file == AcquireDocument(r, P, p)
           u == UpdateProgram(s, P, p)
<1>0. old \in Program /\ s.projects[P] \in ProjectState
  BY ServiceFields, ProjectFields
<1>1. /\ Grows(s, r, NoProject)
      /\ r.infos[p] \in Info /\ isAttached(r.infos[p], P)
      /\ ~r.infos[p].deferredDelete /\ ~Unread(r.infos[p], p)
      /\ \A q \in Path : q # p => r.infos[q] = s.infos[q]
      /\ r.projects = s.projects /\ r.configured = s.configured /\ r.panic = s.panic
  BY LoadingFiles
<1>2. u = IF old.files[p] = NoDoc THEN Panic(s, "changed file not in program")
          ELSE IF Imports[file.text] = Imports[old.files[p].text]
               THEN [r EXCEPT !.projects[P] = [@ EXCEPT !.program.files[p] = file]]
               ELSE NewProgram(r, P, old.roots)
  BY DEF UpdateProgram
<1> HIDE DEF r, u
<1>3. r \in Service /\ DocsHeld(r, P)
  BY <1>1, GrowingHoldsDocs DEF Grows
<1>4. file \in Doc /\ file.version = r.infos[p].version /\ file.text = r.infos[p].text
  BY <1>1, <1>3, InfoFields, Acquiring
<1>5. CASE old.files[p] = NoDoc
  BY <1>2, <1>5 DEF u
<1>6. CASE old.files[p] # NoDoc /\ Imports[file.text] = Imports[old.files[p].text]
  <2> DEFINE x == [r.projects[P] EXCEPT !.program.files[p] = file]
             files == [old.files EXCEPT ![p] = file]
             y == [old EXCEPT !.files = files]
             n == [r EXCEPT !.projects[P] = x]
  <2>1. u = n
    BY <1>2, <1>6
  <2> HIDE DEF file
  <2>2. /\ files \in [Path -> Doc \cup {NoDoc}] /\ files[p] = file
        /\ \A q \in Path : q # p => files[q] = old.files[q]
    BY <1>0, <1>4 DEF Program
  <2>3. x = [s.projects[P] EXCEPT !.program = y]
    BY <1>1
  <2> HIDE DEF files
  <2>4. y \in Program /\ y.files = files
    BY <1>0, <2>2 DEF Program
  <2> HIDE DEF y
  <2>5. /\ [s.projects[P] EXCEPT !.program = y] \in ProjectState
        /\ [s.projects[P] EXCEPT !.program = y].program = y
        /\ Rebuilt(s.projects[P], [s.projects[P] EXCEPT !.program = y])
    <3> DEFINE z == [s.projects[P] EXCEPT !.program = y]
    <3>1. /\ z \in ProjectState /\ z.program = y
          /\ z.exists = s.projects[P].exists /\ z.dirty = s.projects[P].dirty
          /\ z.dirtyFilePath = s.projects[P].dirtyFilePath
          /\ z.pendingReload = s.projects[P].pendingReload
          /\ z.deferredClose = s.projects[P].deferredClose
          /\ z.rootFiles = s.projects[P].rootFiles
          /\ z.commandLine = s.projects[P].commandLine
      BY <1>0, <2>4, Zenon DEF ProjectState
    <3> QED
      BY <3>1 DEF Rebuilt
  <2>6. x \in ProjectState /\ Rebuilt(s.projects[P], x) /\ x.program = y
    BY <2>3, <2>5
  <2> HIDE DEF x
  <2>7. /\ n \in Service /\ n.infos = r.infos /\ n.versions = r.versions
        /\ n.openFiles = r.openFiles /\ n.configured = r.configured /\ n.panic = r.panic
        /\ n.projects[P] = x /\ \A Q \in Project : Q # P => n.projects[Q] = r.projects[Q]
    BY <1>3, <2>6, ProjectReplaced
  <2> HIDE DEF n
  <2>8. Grows(s, n, NoProject)
    BY <1>1, <2>7, ReplacingProjectsGrows
  <2>9. Others(s, n, P)
    BY <1>1, <2>7 DEF Others
  <2>10. \A q \in Path : DocOf(n, P, q) = files[q]
    BY <2>4, <2>6, <2>7, ProjectAssumption DEF DocOf
  <2>11. \A q \in Path : q # p => DocOf(n, P, q) = DocOf(s, P, q) /\ n.infos[q] = s.infos[q]
    BY <1>1, <2>2, <2>7, <2>10 DEF DocOf
  <2>12. Built(n, P, p)
    BY <1>1, <1>4, <2>2, <2>7, <2>10, InfoFields DEF Built, Attached, Listed, Current
  <2>13. DocsHeld(n, P)
    <3>1. ASSUME NEW q \in Path, DocOf(n, P, q) # NoDoc
          PROVE  Holds(n, q, DocOf(n, P, q))
      <4>1. CASE q = p
        <5>1. file.version \in Nat
          BY <1>4 DEF Doc
        <5> QED
          BY <4>1, <5>1, <1>1, <1>4, <2>2, <2>7, <2>10, InfoFields DEF Holds
      <4>2. CASE q # p
        <5>1. DocOf(s, P, q) \in Doc /\ Holds(s, q, DocOf(s, P, q))
          BY <3>1, <4>2, <2>11, DocsAreTyped DEF DocsHeld
        <5> QED
          BY <4>2, <5>1, <2>8, <2>11, GrowingHolds
      <4> QED
        BY <4>1, <4>2
    <3> QED
      BY <3>1 DEF DocsHeld
  <2> QED
    BY <2>1, <2>6, <2>7, <2>8, <2>9, <2>11, <2>12, <2>13 DEF u
<1>7. CASE old.files[p] # NoDoc /\ Imports[file.text] # Imports[old.files[p].text]
  <2> DEFINE n == NewProgram(r, P, old.roots)
  <2>1. u = n
    BY <1>2, <1>7
  <2>2. old.roots \in SUBSET Path
    BY <1>0 DEF Program
  <2>3. /\ Grows(r, n, NoProject) /\ Others(r, n, P)
        /\ Rebuilt(r.projects[P], n.projects[P])
        /\ \A q \in Path : Built(n, P, q)
    BY <1>3, <2>2, BuildingAnew
  <2> HIDE DEF n
  <2>4. Grows(s, n, NoProject)
    BY <1>1, <2>3, GrowingIsTransitive
  <2>5. Others(s, n, P)
    BY <1>1, <2>3 DEF Others
  <2>6. DocsHeld(n, P)
    <3>1. ASSUME NEW q \in Path, DocOf(n, P, q) # NoDoc
          PROVE  Holds(n, q, DocOf(n, P, q))
      <4>1. DocOf(n, P, q) \in Doc
        BY <3>1, <2>3, DocsAreTyped DEF Grows
      <4>2. DocOf(n, P, q).version \in Nat
        BY <4>1 DEF Doc
      <4> QED
        BY <3>1, <4>2, <2>3 DEF Built, Current, Holds
    <3> QED
      BY <3>1 DEF DocsHeld
  <2> QED
    BY <1>1, <2>1, <2>3, <2>4, <2>5, <2>6 DEF u
<1> QED
  BY <1>5, <1>6, <1>7

Marked(s, P) == s.projects[P].dirty /\ s.projects[P].dirtyFilePath = NoPath

\* A project that is not marked is attached to the files of its program.
DocsAttached(s, P) ==
    \A p \in Path : DocOf(s, P, p) # NoDoc => Listed(s, P, p) \/ Marked(s, P)

\* The one changed file is attached to the project and not to be deleted.
DirtyFile(s, P) ==
    s.projects[P].dirtyFilePath # NoPath => Listed(s, P, s.projects[P].dirtyFilePath)

ReloadMarked(s, P) == s.projects[P].pendingReload # "none" => P # Inferred /\ Marked(s, P)

RootsAttached(s, P) == P = Inferred => \A p \in s.projects[P].rootFiles : Attached(s, P, p)

\* A program has a file in T as the server has it, or would read it, or is marked.
StaleMarked(s, P, T) ==
    \A p \in T : DocOf(s, P, p) # NoDoc =>
        \/ Current(s, p, DocOf(s, P, p))
        \/ s.projects[P].dirty /\ s.projects[P].dirtyFilePath \in {NoPath, p}

Sound(s, P, T) ==
    /\ DocsHeld(s, P)
    /\ DocsAttached(s, P)
    /\ DirtyFile(s, P)
    /\ ReloadMarked(s, P)
    /\ RootsAttached(s, P)
    /\ StaleMarked(s, P, T)

Fine(s, T) ==
    /\ s \in Service
    /\ s.panic = "none"
    /\ Shown(s)
    /\ T \subseteq Path
    /\ \A P \in Project : Sound(s, P, T)

WorldOK == DiskOK /\ config \in (SUBSET Inside) \cup {NoConfig}

\* A project that is marked as dirty as a whole is sound if its parsed files and roots are.
LEMMA MarkedIsSound ==
    ASSUME NEW s, NEW P, NEW T, DocsHeld(s, P), Marked(s, P), RootsAttached(s, P),
           s.projects[P].pendingReload # "none" => P # Inferred
    PROVE  Sound(s, P, T)
BY DEF Sound, Marked, DocsAttached, DirtyFile, ReloadMarked, StaleMarked

\* A file stays attached to the projects that a step does not detach, and is not deleted.
LEMMA GrowingAttached ==
    ASSUME NEW s \in Service, NEW r, NEW P, Grows(s, r, P), NEW Q \in Project, Q # P,
           NEW p \in Path, Attached(s, Q, p)
    PROVE  /\ Attached(r, Q, p)
           /\ Listed(s, Q, p) => Listed(r, Q, p)
BY DEF Grows, Advances, Attached, Listed, Follows

\* What is current stays so while a service grows: there is nothing to be read.
LEMMA GrowingIsCurrent ==
    ASSUME NEW s \in Service, NEW r, NEW P, Grows(s, r, P), NEW p \in Path, NEW d,
           Current(s, p, d)
    PROVE  Current(r, p, d)
BY DEF Grows, Advances, Current, Follows, Unread

\* A project whose files are not taken away stays sound while infos change.
LEMMA GrowingIsSound ==
    ASSUME NEW s, NEW T, Fine(s, T), NEW r, NEW P, Grows(s, r, P), NEW Q \in Project, Q # P,
           r.projects[Q] = s.projects[Q]
    PROVE  Sound(r, Q, T)
<1>1. s \in Service /\ Shown(s) /\ T \subseteq Path /\ Sound(s, Q, T) /\ r \in Service
  BY DEF Fine, Grows
<1>2. \A p \in Path : DocOf(r, Q, p) = DocOf(s, Q, p)
  BY DEF DocOf
<1>3. DocsHeld(r, Q)
  BY <1>1, GrowingHoldsDocs DEF Sound
<1>4. DocsAttached(r, Q)
  BY <1>1, <1>2, GrowingAttached DEF Sound, DocsAttached, Listed, Marked
<1>5. DirtyFile(r, Q)
  <2>1. s.projects[Q] \in ProjectState
    BY <1>1, ServiceFields
  <2>2. s.projects[Q].dirtyFilePath \in Path \cup {NoPath}
    BY <2>1, ProjectFields
  <2> QED
    BY <1>1, <2>2, GrowingAttached DEF Sound, DirtyFile, Listed
<1>6. ReloadMarked(r, Q)
  BY <1>1 DEF Sound, ReloadMarked, Marked
<1>7. RootsAttached(r, Q)
  <2>1. s.projects[Q].rootFiles \subseteq Path
    BY <1>1, ServiceFields, ProjectFields
  <2> QED
    BY <1>1, <2>1, GrowingAttached DEF Sound, RootsAttached
<1>8. StaleMarked(r, Q, T)
  BY <1>1, <1>2, GrowingIsCurrent DEF Sound, StaleMarked
<1> QED
  BY <1>3, <1>4, <1>5, <1>6, <1>7, <1>8 DEF Sound

\* A step of a file that detaches it from no project detaches it from at most one.
LEMMA SucceedingForOne ==
    ASSUME NEW s \in Service, NEW p \in Path, NEW i, NEW P, Succeeds(s, p, i, NoProject)
    PROVE  Succeeds(s, p, i, P)
<1>1. ASSUME s.infos[p] # NoInfo, NEW Q, isAttached(s.infos[p], Q)
      PROVE  isAttached(i, Q)
  <2>1. s.infos[p] \in Info
    BY <1>1, ServiceFields
  <2>2. Q # NoProject
    BY <1>1, <2>1, ProjectsAreAttached, ServiceAssumption
  <2> QED
    BY <1>1, <2>2 DEF Succeeds
<1> QED
  BY <1>1 DEF Succeeds

\* What a reload changes of a project is the list of its files.
Refiled(x, y) ==
    /\ y \in ProjectState
    /\ y.exists = x.exists /\ y.dirty = x.dirty /\ y.dirtyFilePath = x.dirtyFilePath
    /\ y.deferredClose = x.deferredClose /\ y.program = x.program

\* Whatever leaves the project is a root that will be loaded again.
Retained(s, r, P) ==
    \A p \in Path : Attached(s, P, p) =>
        Attached(r, P, p) \/ (p \in r.projects[P].rootFiles /\ Live(r, p))

\* setRootFiles (project.go:884) lets the files advance and changes only the roots of its
\* project; what it detaches is a root that will be loaded again.
LEMMA SettingRoots ==
    ASSUME DiskOK, NEW s \in Service, NEW P \in Project, P # Inferred,
           NEW names \in SUBSET Path, \A p \in names : Exists(p)
    PROVE  /\ Grows(s, setRootFiles(s, P, names), P)
           /\ Others(s, setRootFiles(s, P, names), P)
           /\ Refiled(s.projects[P], setRootFiles(s, P, names).projects[P])
           /\ Retained(s, setRootFiles(s, P, names), P)
<1> DEFINE roots == s.projects[P].rootFiles
           Named(p) == IF p \in roots THEN getOrCreateScriptInfo(s, p)
                       ELSE attachToProject(getOrCreateScriptInfo(s, p), P)
           others == {p \in roots \ names : Live(s, p)}
           infos == [p \in names \cup others |->
                        IF p \in names THEN Named(p) ELSE detachFromProject(s.infos[p], P)]
           r == Enter(s, infos)
           x == removeFile([r.projects[P] EXCEPT !.rootFiles = names \cup others], P, others)
           n == [r EXCEPT !.projects[P] = x]
<1>1. setRootFiles(s, P, names) = n
  BY DEF setRootFiles
<1>2. s.projects[P] \in ProjectState /\ roots \subseteq Path
  BY ServiceFields, ProjectFields
<1>3. others \subseteq Path /\ names \cup others \in SUBSET Path /\ \A p \in others : Live(s, p)
  BY <1>2
<1>4. ASSUME NEW p \in names
      PROVE  Succeeds(s, p, Named(p), NoProject)
  <2>1. Succeeds(s, p, getOrCreateScriptInfo(s, p), NoProject)
    BY Getting DEF Available
  <2>2. Succeeds(s, p, attachToProject(getOrCreateScriptInfo(s, p), P), NoProject)
    BY <2>1, SucceedingAttached
  <2> QED
    BY <2>1, <2>2
<1>5. ASSUME NEW p \in others
      PROVE  /\ Succeeds(s, p, detachFromProject(s.infos[p], P), P)
             /\ ~detachFromProject(s.infos[p], P).deferredDelete
  <2>1. s.infos[p] \in Info /\ s.infos[p] # NoInfo /\ ~s.infos[p].deferredDelete
    BY <1>3, ServiceFields DEF Live
  <2> DEFINE d == detachFromProject(s.infos[p], P)
  <2>2. d \in Info /\ Follows(s.infos[p], d, p)
        /\ \A Q : isAttached(s.infos[p], Q) /\ Q # P => isAttached(d, Q)
    BY <2>1, Detaching
  <2> HIDE DEF d
  <2> QED
    BY <2>1, <2>2 DEF Succeeds, Follows, d
<1>6. \A p \in names \cup others : Succeeds(s, p, infos[p], P)
  BY <1>3, <1>4, <1>5, SucceedingForOne
<1>7. DOMAIN infos = names \cup others
  OBVIOUS
<1>8. /\ \A p \in names : infos[p] = Named(p)
      /\ \A p \in others : infos[p] = detachFromProject(s.infos[p], P)
  OBVIOUS
<1> HIDE DEF infos, others, Named
<1>9. /\ Grows(s, r, P) /\ \A p \in names \cup others : r.infos[p] = infos[p]
      /\ \A p \in Path \ (names \cup others) : r.infos[p] = s.infos[p]
      /\ r.projects = s.projects /\ r.configured = s.configured /\ r.panic = s.panic
  BY <1>3, <1>6, <1>7, Entering
<1> HIDE DEF r
<1>10. x \in ProjectState /\ Refiled(s.projects[P], x) /\ x.rootFiles = names \cup others
  <2> DEFINE y == [s.projects[P] EXCEPT !.rootFiles = names \cup others]
  <2>1. /\ y \in ProjectState /\ Refiled(s.projects[P], y) /\ y.rootFiles = names \cup others
    <3>1. /\ y \in ProjectState /\ y.rootFiles = names \cup others
          /\ y.exists = s.projects[P].exists /\ y.dirty = s.projects[P].dirty
          /\ y.dirtyFilePath = s.projects[P].dirtyFilePath
          /\ y.deferredClose = s.projects[P].deferredClose
          /\ y.program = s.projects[P].program
      BY <1>2, <1>3, Zenon DEF ProjectState
    <3> QED
      BY <3>1 DEF Refiled
  <2>2. x = IF others \cap y.rootFiles = {} THEN y ELSE [y EXCEPT !.pendingReload = "fileNames"]
    BY <1>9 DEF removeFile
  <2> HIDE DEF x, y
  <2> DEFINE z == [y EXCEPT !.pendingReload = "fileNames"]
  <2>3. /\ z \in ProjectState /\ z.rootFiles = y.rootFiles
        /\ z.exists = y.exists /\ z.dirty = y.dirty /\ z.dirtyFilePath = y.dirtyFilePath
        /\ z.deferredClose = y.deferredClose /\ z.program = y.program
    BY <2>1, Zenon DEF ProjectState
  <2>4. Refiled(s.projects[P], z)
    BY <2>1, <2>3 DEF Refiled
  <2> QED
    BY <2>1, <2>2, <2>3, <2>4
<1> HIDE DEF x
<1>11. r \in Service
  BY <1>9 DEF Grows
<1>12. /\ n \in Service /\ n.infos = r.infos /\ n.versions = r.versions
       /\ n.openFiles = r.openFiles /\ n.configured = r.configured /\ n.panic = r.panic
       /\ n.projects[P] = x /\ \A Q \in Project : Q # P => n.projects[Q] = r.projects[Q]
  BY <1>10, <1>11, ProjectReplaced
<1> HIDE DEF n
<1>13. Grows(s, n, P)
  BY <1>9, <1>12, ReplacingProjectsGrows
<1>14. Others(s, n, P)
  BY <1>9, <1>12 DEF Others
<1>15. ASSUME NEW p \in Path, Attached(s, P, p)
       PROVE  Attached(n, P, p) \/ (p \in n.projects[P].rootFiles /\ Live(n, p))
  <2>1. CASE p \in names
    <3>1. /\ s.infos[p] # NoInfo /\ isAttached(s.infos[p], P)
          /\ Succeeds(s, p, infos[p], NoProject)
      BY <1>15, <1>4, <1>8, <2>1 DEF Attached
    <3>2. isAttached(infos[p], P) /\ infos[p] # NoInfo
      BY <3>1, ServiceAssumption, InfoFields DEF Succeeds
    <3> QED
      BY <2>1, <3>2, <1>9, <1>12 DEF Attached
  <2>2. CASE p \in others
    <3>1. ~infos[p].deferredDelete /\ infos[p] # NoInfo
      BY <1>5, <1>8, <2>2, InfoFields DEF Succeeds
    <3> QED
      BY <2>2, <3>1, <1>9, <1>10, <1>12 DEF Live
  <2>3. CASE p \notin names \cup others
    BY <1>15, <2>3, <1>9, <1>12 DEF Attached
  <2> QED
    BY <2>1, <2>2, <2>3
<1> QED
  BY <1>1, <1>10, <1>12, <1>13, <1>14, <1>15 DEF Retained

\* The panics that the code does not exclude (ClosesFilesOfSeveralProjects and others).
Panics == {"nil project in CloseFile", "changed file not in program", "no default project",
           "failed to load project"}

Panicked(s) == "panic" \in DOMAIN s /\ s.panic \in Panics

\* A service that has panicked stays so when a project changes.
LEMMA PanicPersists ==
    ASSUME NEW s, Panicked(s), NEW P, NEW x
    PROVE  Panicked([s EXCEPT !.projects[P] = x])
BY DEF Panicked

\* A panic leaves a service of its type that has panicked.
LEMMA Panicking ==
    ASSUME NEW s \in Service, s.panic = "none", NEW why \in Panics
    PROVE  Panicked(Panic(s, why))
<1>1. Panic(s, why) = [s EXCEPT !.panic = why]
  BY DEF Panic
<1>2. "panic" \in DOMAIN s
  BY DEF Service
<1> QED
  BY <1>1, <1>2 DEF Panicked

\* A project whose parsed config changes keeps its program and its marks.
LEMMA CommandLines ==
    ASSUME NEW x \in ProjectState, NEW files \in SUBSET Path
    PROVE  Refiled(x, [x EXCEPT !.commandLine = files])
<1> DEFINE y == [x EXCEPT !.commandLine = files]
<1>1. /\ y \in ProjectState
      /\ y.exists = x.exists /\ y.dirty = x.dirty /\ y.dirtyFilePath = x.dirtyFilePath
      /\ y.deferredClose = x.deferredClose /\ y.program = x.program
  BY Zenon DEF ProjectState
<1> QED
  BY <1>1 DEF Refiled

\* loadConfig (project.go:843) panics when the config file is gone; otherwise it changes the
\* roots and the parsed config of its project alone.
LEMMA LoadingConfig ==
    ASSUME WorldOK, NEW s \in Service, s.panic = "none", NEW P \in Project, P # Inferred
    PROVE  \/ config = NoConfig /\ Panicked(loadConfig(s, P))
           \/ /\ Grows(s, loadConfig(s, P), P)
              /\ Others(s, loadConfig(s, P), P)
              /\ Refiled(s.projects[P], loadConfig(s, P).projects[P])
              /\ Retained(s, loadConfig(s, P), P)
<1>1. CASE config = NoConfig
  BY <1>1, Panicking DEF loadConfig, Panics
<1>2. CASE config # NoConfig
  <2> DEFINE x == [s.projects[P] EXCEPT !.commandLine = config]
             t == [s EXCEPT !.projects[P] = x]
             r == setRootFiles(t, P, Matching(config))
  <2>1. loadConfig(s, P) = r
    BY <1>2 DEF loadConfig
  <2>2. config \in SUBSET Path
    BY <1>2, ServiceAssumption DEF WorldOK
  <2>3. Matching(config) \in SUBSET Path /\ \A p \in Matching(config) : Exists(p)
    BY <2>2 DEF Matching
  <2>4. s.projects[P] \in ProjectState
    BY ServiceFields
  <2>5. x \in ProjectState /\ Refiled(s.projects[P], x)
    <3>0. \A y \in ProjectState : \A files \in SUBSET Path :
              Refiled(y, [y EXCEPT !.commandLine = files])
      BY CommandLines
    <3>1. Refiled(s.projects[P], x)
      BY <2>2, <2>4, <3>0, Zenon
    <3> QED
      BY <3>1 DEF Refiled
  <2> HIDE DEF x
  <2>6. /\ t \in Service /\ t.infos = s.infos /\ t.versions = s.versions
        /\ t.openFiles = s.openFiles /\ t.configured = s.configured /\ t.panic = s.panic
        /\ t.projects[P] = x /\ \A Q \in Project : Q # P => t.projects[Q] = s.projects[Q]
    BY <2>5, ProjectReplaced
  <2> HIDE DEF t
  <2>7. /\ Grows(t, r, P) /\ Others(t, r, P) /\ Refiled(t.projects[P], r.projects[P])
        /\ Retained(t, r, P)
    BY <2>3, <2>6, SettingRoots DEF WorldOK
  <2> HIDE DEF r
  <2>8. Grows(s, t, P)
    BY <2>6, GrowingIsReflexive, ReplacingProjectsGrows
  <2>9. Grows(s, r, P)
    BY <2>7, <2>8, GrowingIsTransitive
  <2>10. Others(s, r, P)
    BY <2>6, <2>7 DEF Others
  <2>11. Refiled(s.projects[P], r.projects[P])
    BY <2>5, <2>6, <2>7 DEF Refiled
  <2>12. Retained(s, r, P)
    BY <2>6, <2>7 DEF Retained, Attached
  <2> QED
    BY <2>1, <2>9, <2>10, <2>11, <2>12
<1> QED
  BY <1>1, <1>2

\* A project that lists its files again is marked.
LEMMA RefiledIsSound ==
    ASSUME NEW s \in Service, NEW r, NEW P \in Project, NEW T, P # Inferred, Sound(s, P, T),
           Marked(s, P), Grows(s, r, P), Refiled(s.projects[P], r.projects[P])
    PROVE  Sound(r, P, T) /\ Marked(r, P)
<1>1. DocsHeld(r, P)
  BY GrowingHoldsDocs DEF Sound, Refiled
<1>2. Marked(r, P)
  BY DEF Marked, Refiled
<1> QED
  BY <1>1, <1>2, MarkedIsSound DEF RootsAttached

\* The state after Reload of a project of the state s.
Reloaded(s, r, P) ==
    /\ Grows(s, r, P)
    /\ Others(s, r, P)
    /\ Refiled(s.projects[P], r.projects[P])
    /\ r.projects[P].pendingReload = "none"
    /\ \/ P # Inferred /\ Marked(r, P) /\ Retained(s, r, P)
       \/ r.infos = s.infos /\ r.projects[P].rootFiles = s.projects[P].rootFiles

\* The reload at the head of updateGraph (project.go:469) panics or leaves the service fine.
LEMMA ReloadingProjects ==
    ASSUME WorldOK, NEW s, NEW T, Fine(s, T), NEW P \in Project
    PROVE  Panicked(Reload(s, P)) \/ (Reloaded(s, Reload(s, P), P) /\ Fine(Reload(s, P), T))
<1> DEFINE project == s.projects[P]
           names == Matching(project.commandLine)
           r == CASE project.pendingReload = "fileNames" -> setRootFiles(s, P, names)
                  [] project.pendingReload = "full" -> loadConfig(s, P)
                  [] OTHER -> s
           x == [r.projects[P] EXCEPT !.pendingReload = "none"]
           n == [r EXCEPT !.projects[P] = x]
<1>1. Reload(s, P) = n
  BY DEF Reload
<1>2. /\ s \in Service /\ s.panic = "none" /\ Shown(s) /\ Sound(s, P, T)
      /\ T \subseteq Path
  BY DEF Fine
<1>3. project \in ProjectState /\ project.commandLine \subseteq Path
      /\ project.pendingReload \in {"none", "fileNames", "full"}
  BY <1>2, ServiceFields, ProjectFields
<1>4. names \in SUBSET Path /\ \A p \in names : Exists(p)
  BY <1>3 DEF Matching
<1>5. project.pendingReload # "none" => P # Inferred /\ Marked(s, P)
  BY <1>2 DEF Sound, ReloadMarked
<1>6. \/ Panicked(r)
      \/ /\ P # Inferred /\ Marked(s, P)
         /\ Grows(s, r, P) /\ Others(s, r, P) /\ Refiled(project, r.projects[P])
         /\ Retained(s, r, P)
      \/ project.pendingReload = "none" /\ r = s
  <2>1. CASE project.pendingReload = "fileNames"
    <3>1. r = setRootFiles(s, P, names)
      BY <2>1
    <3> QED
      BY <3>1, <2>1, <1>2, <1>4, <1>5, SettingRoots DEF WorldOK
  <2>2. CASE project.pendingReload = "full"
    <3>1. r = loadConfig(s, P)
      BY <2>2
    <3> HIDE DEF r, project
    <3> QED
      BY <3>1, <2>2, <1>2, <1>5, LoadingConfig DEF project
  <2>3. CASE project.pendingReload = "none"
    BY <2>3
  <2> QED
    BY <2>1, <2>2, <2>3, <1>3
<1> HIDE DEF r, names
<1>7. CASE Panicked(r)
  BY <1>1, <1>7, PanicPersists
<1>8. ASSUME r \in Service, Refiled(project, r.projects[P])
      PROVE  /\ n \in Service /\ n.infos = r.infos /\ n.versions = r.versions
             /\ n.openFiles = r.openFiles /\ n.configured = r.configured /\ n.panic = r.panic
             /\ Refiled(project, n.projects[P]) /\ n.projects[P].pendingReload = "none"
             /\ n.projects[P].rootFiles = r.projects[P].rootFiles
             /\ \A Q \in Project : Q # P => n.projects[Q] = r.projects[Q]
  <2>1. r.projects[P] \in ProjectState
    BY <1>8, ServiceFields
  <2>2. /\ x \in ProjectState /\ x.pendingReload = "none" /\ x.rootFiles = r.projects[P].rootFiles
        /\ x.exists = r.projects[P].exists /\ x.dirty = r.projects[P].dirty
        /\ x.dirtyFilePath = r.projects[P].dirtyFilePath
        /\ x.deferredClose = r.projects[P].deferredClose
        /\ x.program = r.projects[P].program
    BY <2>1, Zenon DEF ProjectState
  <2>3. Refiled(project, x)
    BY <1>8, <2>2 DEF Refiled
  <2> HIDE DEF x
  <2> QED
    BY <1>8, <2>2, <2>3, ProjectReplaced
<1>9. CASE /\ P # Inferred /\ Marked(s, P)
           /\ Grows(s, r, P) /\ Others(s, r, P) /\ Refiled(project, r.projects[P])
           /\ Retained(s, r, P)
  <2>1. r \in Service
    BY <1>9 DEF Grows
  <2>2. /\ n \in Service /\ n.infos = r.infos /\ n.versions = r.versions
        /\ n.openFiles = r.openFiles /\ n.configured = r.configured /\ n.panic = r.panic
        /\ Refiled(project, n.projects[P]) /\ n.projects[P].pendingReload = "none"
        /\ n.projects[P].rootFiles = r.projects[P].rootFiles
        /\ \A Q \in Project : Q # P => n.projects[Q] = r.projects[Q]
    BY <2>1, <1>8, <1>9
  <2> HIDE DEF n
  <2>3. Grows(s, n, P)
    BY <1>2, <1>9, <2>2, ReplacingProjectsGrows
  <2>4. Others(s, n, P)
    BY <1>9, <2>2 DEF Others
  <2>5. Sound(n, P, T) /\ Marked(n, P)
    BY <1>2, <1>9, <2>2, <2>3, RefiledIsSound
  <2>6. Retained(s, n, P)
    BY <1>9, <2>2 DEF Retained, Attached, Live
  <2>7. Reloaded(s, n, P)
    BY <1>9, <2>2, <2>3, <2>4, <2>5, <2>6 DEF Reloaded
  <2>8. Shown(n)
    BY <1>2, <2>3, GrowingIsShown
  <2>9. \A Q \in Project : Sound(n, Q, T)
    BY <2>3, <2>4, <2>5, GrowingIsSound DEF Others
  <2>10. n.panic = "none" /\ T \subseteq Path
    BY <1>2, <2>3, <2>4 DEF Others, Grows
  <2> QED
    BY <1>1, <2>2, <2>7, <2>8, <2>9, <2>10 DEF Fine
<1>10. CASE project.pendingReload = "none" /\ r = s
  <2>1. Refiled(project, project)
    BY <1>3 DEF Refiled
  <2>2. /\ n \in Service /\ n.infos = s.infos /\ n.versions = s.versions
        /\ n.openFiles = s.openFiles /\ n.configured = s.configured /\ n.panic = s.panic
        /\ Refiled(project, n.projects[P]) /\ n.projects[P].pendingReload = "none"
        /\ n.projects[P].rootFiles = s.projects[P].rootFiles
        /\ \A Q \in Project : Q # P => n.projects[Q] = s.projects[Q]
    BY <2>1, <1>2, <1>8, <1>10
  <2> HIDE DEF n
  <2>3. Grows(s, n, P)
    BY <1>2, <2>2, GrowingIsReflexive, ReplacingProjectsGrows
  <2>4. Others(s, n, P)
    BY <2>2 DEF Others
  <2>5. Reloaded(s, n, P)
    BY <2>2, <2>3, <2>4 DEF Reloaded
  <2>6. Sound(n, P, T)
    <3>1. \A p \in Path : DocOf(n, P, p) = DocOf(s, P, p)
      BY <2>2 DEF DocOf, Refiled
    <3>2. /\ DocsHeld(s, P) /\ DocsAttached(s, P) /\ DirtyFile(s, P) /\ RootsAttached(s, P)
          /\ StaleMarked(s, P, T)
      BY <1>2 DEF Sound
    <3>3. DocsHeld(n, P)
      BY <3>1, <3>2, <2>2 DEF DocsHeld, Holds
    <3>4. DocsAttached(n, P)
      BY <3>1, <3>2, <2>2 DEF DocsAttached, Listed, Attached, Marked, Refiled
    <3>5. DirtyFile(n, P)
      BY <3>2, <2>2 DEF DirtyFile, Listed, Attached, Refiled
    <3>6. RootsAttached(n, P)
      BY <3>2, <2>2 DEF RootsAttached, Attached
    <3>7. StaleMarked(n, P, T)
      BY <1>2, <3>1, <3>2, <2>2 DEF StaleMarked, Current, Refiled
    <3> QED
      BY <3>3, <3>4, <3>5, <3>6, <3>7, <2>2 DEF Sound, ReloadMarked
  <2>7. Shown(n)
    BY <1>2, <2>3, GrowingIsShown
  <2>8. \A Q \in Project : Sound(n, Q, T)
    BY <2>3, <2>4, <2>6, GrowingIsSound DEF Others
  <2> QED
    BY <1>1, <1>2, <2>2, <2>5, <2>7, <2>8 DEF Fine
<1> QED
  BY <1>6, <1>7, <1>9, <1>10

\* After updateProgram every file of the program is attached and of the current version.
Ready(u, P, T) ==
    \A p \in Path : DocOf(u, P, p) # NoDoc =>
        /\ Listed(u, P, p)
        /\ Holds(u, p, DocOf(u, P, p))
        /\ p \in T => Current(u, p, DocOf(u, P, p))

BuildsOn(q, u, P, T) ==
    /\ Grows(q, u, NoProject)
    /\ Others(q, u, P)
    /\ Rebuilt(q.projects[P], u.projects[P])
    /\ Ready(u, P, T)
    /\ Marked(q, P) => \A p \in q.projects[P].rootFiles : Live(q, p) => Attached(u, P, p)

\* A file of a program that was just built is attached to the project, held, and current.
LEMMA BuiltIsReady ==
    ASSUME NEW u \in Service, NEW P \in Project, NEW p \in Path, Built(u, P, p),
           DocOf(u, P, p) # NoDoc
    PROVE  /\ Listed(u, P, p)
           /\ Holds(u, p, DocOf(u, P, p))
           /\ Current(u, p, DocOf(u, P, p))
<1>1. DocOf(u, P, p) \in Doc
  BY DocsAreTyped
<1>2. DocOf(u, P, p).version \in Nat
  BY <1>1 DEF Doc
<1> QED
  BY <1>2 DEF Built, Current, Holds

\* updateProgram (project.go:509) panics or leaves a program whose files are all current.
LEMMA UpdatingPrograms ==
    ASSUME WorldOK, NEW q, NEW T, Fine(q, T), NEW P \in Project, q.projects[P].dirty
    PROVE  Panicked(updateProgram(q, P)) \/ BuildsOn(q, updateProgram(q, P), P, T)
<1> DEFINE p == q.projects[P].dirtyFilePath
           u == updateProgram(q, P)
<1>1. q \in Service /\ q.panic = "none" /\ Sound(q, P, T) /\ DocsHeld(q, P)
  BY DEF Fine, Sound
<1>2. /\ q.projects[P] \in ProjectState /\ p \in Path \cup {NoPath}
      /\ q.projects[P].rootFiles \in SUBSET Path
  BY <1>1, ServiceFields, ProjectFields
<1>3. CASE q.projects[P].program = NoProgram \/ p = NoPath
  <2>1. u = NewProgram(q, P, q.projects[P].rootFiles)
    BY <1>3 DEF updateProgram
  <2>2. /\ Grows(q, u, NoProject) /\ Others(q, u, P)
        /\ Rebuilt(q.projects[P], u.projects[P])
        /\ \A r \in Path : Built(u, P, r)
        /\ \A r \in q.projects[P].rootFiles : Available(q, r) => Attached(u, P, r)
    BY <1>1, <1>2, <2>1, BuildingAnew DEF WorldOK
  <2> HIDE DEF u, p
  <2>3. Ready(u, P, T)
    BY <2>2, BuiltIsReady DEF Ready, Grows
  <2> QED
    BY <2>2, <2>3 DEF BuildsOn, Available, u
<1>4. CASE q.projects[P].program # NoProgram /\ p # NoPath
  <2>1. u = UpdateProgram(q, P, p)
    BY <1>4 DEF updateProgram
  <2>2. p \in Path /\ Listed(q, P, p)
    BY <1>1, <1>2, <1>4 DEF Sound, DirtyFile
  <2>3. Available(q, p)
    BY <2>2 DEF Available, Live, Listed, Attached
  <2>4. ~Marked(q, P)
    BY <1>4 DEF Marked
  <2> HIDE DEF u
  <2>5. CASE u = Panic(q, "changed file not in program")
    BY <2>5, <1>1, Panicking DEF Panics, u
  <2>6. CASE /\ Grows(q, u, NoProject) /\ Others(q, u, P)
             /\ Rebuilt(q.projects[P], u.projects[P])
             /\ \A r \in Path : \/ Built(u, P, r)
                                \/ /\ r # p
                                   /\ DocOf(u, P, r) = DocOf(q, P, r)
                                   /\ u.infos[r] = q.infos[r]
             /\ DocsHeld(u, P)
    <3>1. ASSUME NEW r \in Path, DocOf(u, P, r) # NoDoc
          PROVE  /\ Listed(u, P, r)
                 /\ Holds(u, r, DocOf(u, P, r))
                 /\ r \in T => Current(u, r, DocOf(u, P, r))
      <4>1. CASE Built(u, P, r)
        BY <3>1, <4>1, <2>6, BuiltIsReady DEF Grows
      <4>2. CASE r # p /\ DocOf(u, P, r) = DocOf(q, P, r) /\ u.infos[r] = q.infos[r]
        <5>1. Listed(q, P, r)
          BY <3>1, <4>2, <1>1, <2>4 DEF Sound, DocsAttached
        <5>2. Listed(u, P, r)
          BY <4>2, <5>1 DEF Listed, Attached
        <5>3. Holds(u, r, DocOf(u, P, r))
          BY <3>1, <2>6 DEF DocsHeld
        <5>4. r \in T => Current(q, r, DocOf(q, P, r))
          BY <3>1, <4>2, <1>1, <1>4 DEF Sound, StaleMarked
        <5> QED
          BY <4>2, <5>2, <5>3, <5>4 DEF Current
      <4> QED
        BY <2>6, <4>1, <4>2
    <3>2. Ready(u, P, T)
      BY <3>1 DEF Ready
    <3> QED
      BY <2>4, <2>6, <3>2 DEF BuildsOn, u
  <2> QED
    <3>1. \/ UpdateProgram(q, P, p) = Panic(q, "changed file not in program")
          \/ /\ Grows(q, UpdateProgram(q, P, p), NoProject)
             /\ Others(q, UpdateProgram(q, P, p), P)
             /\ Rebuilt(q.projects[P], UpdateProgram(q, P, p).projects[P])
             /\ \A r \in Path : \/ Built(UpdateProgram(q, P, p), P, r)
                                \/ /\ r # p
                                   /\ DocOf(UpdateProgram(q, P, p), P, r) = DocOf(q, P, r)
                                   /\ UpdateProgram(q, P, p).infos[r] = q.infos[r]
             /\ DocsHeld(UpdateProgram(q, P, p), P)
      BY <1>1, <1>4, <2>2, <2>3, Updating DEF WorldOK
    <3> QED
      BY <2>1, <2>5, <2>6, <3>1
<1> QED
  BY <1>3, <1>4

\* A panic is not forgotten by what the program would have done next.
LEMMA PanicEnters ==
    ASSUME NEW s, Panicked(s), NEW infos
    PROVE  Panicked(Enter(s, infos))
BY DEF Panicked, Enter

\* Nothing is built after a panic.
LEMMA PanicBuilds ==
    ASSUME NEW s, Panicked(s), NEW P, NEW roots
    PROVE  Panicked(NewProgram(s, P, roots))
BY PanicEnters, PanicPersists DEF NewProgram, LoadFiles

\* Nothing is updated after a panic.
LEMMA PanicUpdates ==
    ASSUME NEW s, Panicked(s), NEW P
    PROVE  Panicked(updateProgram(s, P))
<1>1. ASSUME NEW why
      PROVE  Panicked(Panic(s, why))
  BY "none" \notin Panics DEF Panic, Panicked, Panics
<1>2. ASSUME NEW p
      PROVE  Panicked(UpdateProgram(s, P, p))
  <2>1. Panicked(LoadFiles(s, P, {p}))
    BY PanicEnters DEF LoadFiles
  <2> QED
    BY <2>1, <1>1, PanicBuilds, PanicPersists DEF UpdateProgram
<1> QED
  BY <1>2, PanicBuilds DEF updateProgram

\* updateGraph: no project loses a file, and the project is not dirty.
Updates(s, g, T) ==
    Panicked(g) \/ (Fine(g, T) /\ Grows(s, g, NoProject))

\* What updateGraph (project.go:482) resets, and what it leaves alone.
LEMMA Cleaning ==
    ASSUME NEW x \in ProjectState
    PROVE  /\ [x EXCEPT !.dirty = FALSE, !.dirtyFilePath = NoPath] \in ProjectState
           /\ ~[x EXCEPT !.dirty = FALSE, !.dirtyFilePath = NoPath].dirty
           /\ [x EXCEPT !.dirty = FALSE, !.dirtyFilePath = NoPath].dirtyFilePath = NoPath
           /\ [x EXCEPT !.dirty = FALSE, !.dirtyFilePath = NoPath].pendingReload = x.pendingReload
           /\ [x EXCEPT !.dirty = FALSE, !.dirtyFilePath = NoPath].rootFiles = x.rootFiles
           /\ [x EXCEPT !.dirty = FALSE, !.dirtyFilePath = NoPath].program = x.program
BY Zenon DEF ProjectState

\* updateGraph (project.go:455) panics or leaves the service fine and the project clean.
LEMMA UpdatingGraphs ==
    ASSUME WorldOK, NEW s, NEW T, Fine(s, T), NEW P \in Project
    PROVE  /\ Updates(s, updateGraph(s, P), T)
           /\ Panicked(updateGraph(s, P)) \/ ~updateGraph(s, P).projects[P].dirty
<1>0. s \in Service /\ s.panic = "none" /\ Shown(s) /\ T \subseteq Path
  BY DEF Fine
<1>1. CASE ~s.projects[P].dirty
  <2>1. updateGraph(s, P) = s
    BY <1>1 DEF updateGraph
  <2> QED
    BY <1>0, <1>1, <2>1, GrowingIsReflexive DEF Updates
<1>2. CASE s.projects[P].dirty
  <2> DEFINE q == Reload(s, P)
             u == updateProgram(q, P)
             x == [u.projects[P] EXCEPT !.dirty = FALSE, !.dirtyFilePath = NoPath]
             g == [u EXCEPT !.projects[P] = x]
  <2>1. updateGraph(s, P) = g
    BY <1>0, <1>2 DEF updateGraph
  <2>2. CASE Panicked(q)
    <3>1. Panicked(u)
      BY <2>2, PanicUpdates
    <3> QED
      BY <3>1, <2>1, PanicPersists DEF Updates
  <2>3. CASE Reloaded(s, q, P) /\ Fine(q, T) /\ Panicked(u)
    BY <2>1, <2>3, PanicPersists DEF Updates
  <2>4. ASSUME Reloaded(s, q, P), Fine(q, T), BuildsOn(q, u, P, T)
        PROVE  Fine(g, T) /\ Grows(s, g, NoProject) /\ ~g.projects[P].dirty
    <3>1. /\ Grows(s, q, P) /\ Others(s, q, P) /\ Refiled(s.projects[P], q.projects[P])
          /\ q.projects[P].pendingReload = "none"
          /\ \/ P # Inferred /\ Marked(q, P) /\ Retained(s, q, P)
             \/ q.infos = s.infos
      BY <2>4 DEF Reloaded
    <3>2. /\ q \in Service /\ q.panic = "none" /\ Shown(q) /\ T \subseteq Path
          /\ Sound(q, P, T)
      BY <2>4 DEF Fine
    <3>3. /\ Grows(q, u, NoProject) /\ Others(q, u, P)
          /\ Rebuilt(q.projects[P], u.projects[P]) /\ Ready(u, P, T)
          /\ Marked(q, P) => \A p \in q.projects[P].rootFiles : Live(q, p) => Attached(u, P, p)
      BY <2>4 DEF BuildsOn
    <3> HIDE DEF q, u
    <3>4. u \in Service /\ u.projects[P] \in ProjectState
      BY <3>3 DEF Grows, Rebuilt
    <3>5. /\ x \in ProjectState /\ ~x.dirty /\ x.dirtyFilePath = NoPath
          /\ x.pendingReload = "none" /\ x.rootFiles = q.projects[P].rootFiles
          /\ x.program = u.projects[P].program
      BY <3>1, <3>3, <3>4, Cleaning DEF Rebuilt
    <3> HIDE DEF x
    <3>6. /\ g \in Service /\ g.infos = u.infos /\ g.versions = u.versions
          /\ g.openFiles = u.openFiles /\ g.configured = u.configured /\ g.panic = u.panic
          /\ g.projects[P] = x /\ \A Q \in Project : Q # P => g.projects[Q] = u.projects[Q]
      BY <3>4, <3>5, ProjectReplaced
    <3> HIDE DEF g
    <3>7. Grows(q, g, NoProject)
      BY <3>2, <3>3, <3>6, ReplacingProjectsGrows
    <3>8. Shown(g) /\ g.panic = "none" /\ T \subseteq Path
      BY <3>2, <3>3, <3>6, <3>7, GrowingIsShown DEF Others, Grows
    <3>9. \A p \in Path : DocOf(g, P, p) = DocOf(u, P, p)
      BY <3>5, <3>6 DEF DocOf
    <3>10. /\ DocsHeld(g, P) /\ DocsAttached(g, P) /\ StaleMarked(g, P, T)
      BY <3>2, <3>3, <3>6, <3>9
      DEF Ready, DocsHeld, DocsAttached, StaleMarked, Holds, Listed, Attached, Current
    <3>11. DirtyFile(g, P) /\ ReloadMarked(g, P)
      BY <3>5, <3>6 DEF DirtyFile, ReloadMarked
    <3>12. RootsAttached(g, P)
      <4>1. q.projects[P].rootFiles \subseteq Path
        BY <3>2, ServiceFields, ProjectFields
      <4>2. \A p \in Path : Attached(q, P, p) => Attached(g, P, p)
        BY <3>2, <3>7, ServiceAssumption, GrowingAttached
      <4> QED
        BY <3>2, <3>5, <3>6, <4>1, <4>2 DEF Sound, RootsAttached
    <3>13. \A Q \in Project : Sound(g, Q, T)
      <4>1. Sound(g, P, T)
        BY <3>10, <3>11, <3>12 DEF Sound
      <4>2. ASSUME NEW Q \in Project, Q # P
            PROVE  Sound(g, Q, T)
        <5>1. g.projects[Q] = q.projects[Q] /\ Q # NoProject
          BY <4>2, <3>3, <3>6, ServiceAssumption DEF Others
        <5> QED
          BY <2>4, <3>7, <5>1, GrowingIsSound
      <4> QED
        BY <4>1, <4>2
    <3>14. Fine(g, T)
      BY <3>6, <3>8, <3>13 DEF Fine
    <3>15. Grows(s, g, P)
      <4>1. Grows(q, g, P)
        BY <3>2, <3>7, NoneLoses
      <4> QED
        BY <1>0, <3>1, <4>1, GrowingIsTransitive
    <3>16. ASSUME NEW p \in Path, Attached(s, P, p)
           PROVE  Attached(g, P, p)
      <4>1. CASE Attached(q, P, p)
        BY <4>1, <3>2, <3>7, ServiceAssumption, GrowingAttached
      <4>2. CASE ~Attached(q, P, p)
        <5>1. Marked(q, P) /\ p \in q.projects[P].rootFiles /\ Live(q, p)
          BY <3>1, <3>16, <4>2 DEF Retained, Attached
        <5>2. Attached(u, P, p)
          BY <3>3, <5>1
        <5> QED
          BY <3>6, <5>2 DEF Attached
      <4> QED
        BY <4>1, <4>2
    <3>17. Grows(s, g, NoProject)
      <4>1. ASSUME NEW p \in Path, s.infos[p] # NoInfo, NEW Q, isAttached(s.infos[p], Q)
            PROVE  isAttached(g.infos[p], Q)
        BY <4>1, <3>15, <3>16 DEF Grows, Advances, Attached
      <4> QED
        BY <3>15, <4>1 DEF Grows, Advances
    <3> QED
      BY <3>5, <3>6, <3>14, <3>17
  <2>5. q.projects[P].dirty \/ ~Reloaded(s, q, P)
    BY <1>2 DEF Reloaded, Refiled
  <2> HIDE DEF g, u, q
  <2> QED
    BY <1>0, <2>1, <2>2, <2>3, <2>4, <2>5, ReloadingProjects, UpdatingPrograms DEF Updates, q, u
<1> QED
  BY <1>1, <1>2

\* What holds at the start and is kept by every step of a loop holds throughout.
LEMMA LoopInduction ==
    ASSUME NEW n \in Nat, NEW S, 0 \in S, \A k \in 0 .. n : k \in S /\ k < n => k + 1 \in S
    PROVE  \A k \in 0 .. n : k \in S
<1> SUFFICES ASSUME NEW m \in 0 .. n, m \notin S
             PROVE  FALSE
  OBVIOUS
<1> DEFINE F == {k \in 0 .. n : k \notin S}
<1>1. F \subseteq Nat /\ F # {}
  OBVIOUS
<1>2. PICK x \in F : \A y \in F : <<y, x>> \notin OpToRel(<, Nat)
  BY <1>1, NatLessThanWellFounded, WFMin, Zenon
<1>3. x \in 0 .. n /\ x \notin S /\ x # 0
  OBVIOUS
<1>4. x - 1 \in 0 .. n /\ x - 1 < n /\ (x - 1) + 1 = x /\ x - 1 \in Nat /\ x \in Nat /\ x - 1 < x
  BY <1>3
<1>5. x - 1 \notin S
  BY <1>3, <1>4
<1>6. x - 1 \in F
  BY <1>4, <1>5
<1>7. <<x - 1, x>> \in OpToRel(<, Nat)
  BY <1>4, Zenon DEF OpToRel
<1> QED
  BY <1>2, <1>6, <1>7

\* A file that loses no project has a list of containing projects that is no shorter.
LEMMA ListsGrow ==
    ASSUME NEW i \in Info, NEW j \in Info, \A Q : isAttached(i, Q) => isAttached(j, Q)
    PROVE  Len(i.containingProjects) <= Len(j.containingProjects)
<1> DEFINE c == i.containingProjects
           d == j.containingProjects
           f == [k \in 1 .. Len(c) |-> CHOOSE m \in 1 .. Len(d) : d[m] = c[k]]
<1>1. /\ c \in Seq(Project) /\ IsInjective(c) /\ Len(c) \in Nat /\ DOMAIN c = 1 .. Len(c)
      /\ d \in Seq(Project) /\ Len(d) \in Nat /\ DOMAIN d = 1 .. Len(d)
  BY InfoFields, LenProperties
<1>2. ASSUME NEW k \in 1 .. Len(c)
      PROVE  f[k] \in 1 .. Len(d) /\ d[f[k]] = c[k]
  <2>1. isAttached(i, c[k])
    BY <1>1, AttachedIsListed
  <2>2. \E m \in 1 .. Len(d) : d[m] = c[k]
    BY <1>1, <2>1, AttachedIsListed
  <2> QED
    BY <2>2
<1> HIDE DEF c, d
<1>3. f \in [1 .. Len(c) -> 1 .. Len(d)]
  BY <1>2
<1>4. \A k, l \in 1 .. Len(c) : f[k] = f[l] => k = l
  BY <1>1, <1>2 DEF IsInjective
<1> HIDE DEF f
<1>5. f \in Injection(1 .. Len(c), 1 .. Len(d))
  BY <1>3, <1>4 DEF Injection, IsInjective
<1>6. /\ IsFiniteSet(1 .. Len(d))
      /\ Cardinality(1 .. Len(c)) = Len(c) /\ Cardinality(1 .. Len(d)) = Len(d)
  <2>1. ASSUME NEW n \in Nat
        PROVE  IsFiniteSet(1 .. n) /\ Cardinality(1 .. n) = n
    <3>1. 1 \in Int /\ n \in Int
      OBVIOUS
    <3>2. IsFiniteSet(1 .. n) /\ Cardinality(1 .. n) = IF 1 > n THEN 0 ELSE n - 1 + 1
      BY <3>1, FS_Interval, Zenon
    <3> QED
      BY <3>2
  <2> QED
    BY <1>1, <2>1
<1>7. Cardinality(1 .. Len(c)) <= Cardinality(1 .. Len(d))
  BY <1>5, <1>6, FS_Injection
<1> QED
  BY <1>6, <1>7 DEF c, d

\* The panic of a loop step is the last thing that happens.
LEMMA PanicStays ==
    ASSUME NEW s, Panicked(s)
    PROVE  /\ \A P : updateGraph(s, P) = s
           /\ \A why : Panic(s, why) = s
<1>1. s.panic # "none"
  BY DEF Panicked, Panics
<1> QED
  BY <1>1 DEF updateGraph, Panic

\* A step that grows before an update is part of it.
LEMMA UpdatesCompose ==
    ASSUME NEW s \in Service, NEW r, NEW q, NEW T, Grows(s, r, NoProject), Updates(r, q, T)
    PROVE  Updates(s, q, T)
BY GrowingIsTransitive DEF Updates

\* The state once the first m of the containing projects have been updated.
UpdatingContaining(s, p, m, f) ==
    f = [k \in 0 .. m |->
            IF k = 0 THEN s
            ELSE IF k \in DOMAIN f[k - 1].infos[p].containingProjects
            THEN updateGraph(f[k - 1], f[k - 1].infos[p].containingProjects[k])
            ELSE Panic(f[k - 1], "nil project in assignProjectToOpenedScriptInfo")]

\* The recursive function of updateContainingProjects exists: the provers need a witness.
LEMMA ContainingLoopIsDefined ==
    ASSUME NEW s, NEW p, NEW n \in Nat
    PROVE  \E f : UpdatingContaining(s, p, n, f)
<1> DEFINE S == {m \in 0 .. n : \E f : UpdatingContaining(s, p, m, f)}
           next(r, k) == IF k \in DOMAIN r.infos[p].containingProjects
                         THEN updateGraph(r, r.infos[p].containingProjects[k])
                         ELSE Panic(r, "nil project in assignProjectToOpenedScriptInfo")
<1>0. ASSUME NEW m, NEW f
      PROVE  UpdatingContaining(s, p, m, f)
             <=> f = [k \in 0 .. m |-> IF k = 0 THEN s ELSE next(f[k - 1], k)]
  BY DEF UpdatingContaining
<1> HIDE DEF next
<1>1. 0 \in S
  <2> DEFINE f == [k \in 0 .. 0 |-> s]
  <2>1. f = [k \in 0 .. 0 |-> IF k = 0 THEN s ELSE next(f[k - 1], k)]
    OBVIOUS
  <2>2. UpdatingContaining(s, p, 0, f)
    BY <1>0, <2>1
  <2> QED
    BY <2>2
<1>2. ASSUME NEW m \in 0 .. n, m \in S, m < n
      PROVE  m + 1 \in S
  <2>1. PICK f : f = [k \in 0 .. m |-> IF k = 0 THEN s ELSE next(f[k - 1], k)]
    BY <1>0, <1>2
  <2> DEFINE g == [k \in 0 .. m + 1 |-> IF k = m + 1 THEN next(f[m], m + 1) ELSE f[k]]
  <2>2. \A k \in 0 .. m : g[k] = f[k] /\ k # m + 1 /\ k \in 0 .. m + 1
    OBVIOUS
  <2>3. g[m + 1] = next(f[m], m + 1)
    OBVIOUS
  <2>4. ASSUME NEW k \in 0 .. m + 1
        PROVE  g[k] = IF k = 0 THEN s ELSE next(g[k - 1], k)
    <3>1. CASE k = m + 1
      <4>1. k # 0 /\ k - 1 = m /\ m \in 0 .. m
        BY <3>1
      <4> QED
        BY <3>1, <4>1, <2>2, <2>3
    <3>2. CASE k # m + 1
      <4>1. k \in 0 .. m /\ (k # 0 => k - 1 \in 0 .. m)
        BY <3>2
      <4>2. g[k] = f[k] /\ (k # 0 => g[k - 1] = f[k - 1])
        BY <4>1, <2>2
      <4>3. f[k] = IF k = 0 THEN s ELSE next(f[k - 1], k)
        BY <4>1, <2>1
      <4> HIDE DEF g
      <4> QED
        BY <4>2, <4>3
    <3> QED
      BY <3>1, <3>2
  <2>5. DOMAIN g = 0 .. m + 1 /\ g = [k \in 0 .. m + 1 |-> g[k]]
    OBVIOUS
  <2> HIDE DEF g
  <2>6. g = [k \in 0 .. m + 1 |-> IF k = 0 THEN s ELSE next(g[k - 1], k)]
    BY <2>4, <2>5
  <2>7. UpdatingContaining(s, p, m + 1, g)
    BY <1>0, <2>6
  <2>8. m + 1 \in 0 .. n
    BY <1>2
  <2> QED
    BY <2>7, <2>8
<1>3. \A k \in 0 .. n : k \in S
  <2> HIDE DEF S
  <2> QED
    BY <1>1, <1>2, LoopInduction
<1> QED
  BY <1>3

\* updateContainingProjects: no list gets shorter on the way, so no project is nil.
LEMMA UpdatingContainingProjects ==
    ASSUME WorldOK, NEW s, NEW T, Fine(s, T), NEW p \in Path, s.infos[p] # NoInfo
    PROVE  Updates(s, updateContainingProjects(s, p), T)
<1> DEFINE n == Len(s.infos[p].containingProjects)
           f == CHOOSE f : UpdatingContaining(s, p, n, f)
           S == {k \in 0 .. n : Updates(s, f[k], T)}
<1>1. s \in Service /\ s.infos[p] \in Info
  BY ServiceFields DEF Fine
<1>2. n \in Nat
  BY <1>1, InfoFields, LenProperties
<1>3. updateContainingProjects(s, p) = f[n]
  BY DEF updateContainingProjects, UpdatingContaining
<1> HIDE DEF n
<1>4. UpdatingContaining(s, p, n, f)
  BY <1>2, ContainingLoopIsDefined
<1> HIDE DEF f
<1>5. 0 \in S
  <2>1. f[0] = s
    <3>1. 0 \in 0 .. n
      BY <1>2
    <3> QED
      BY <1>4, <3>1, Zenon DEF UpdatingContaining
  <2>2. Updates(s, s, T)
    BY <1>1, GrowingIsReflexive DEF Updates
  <2> QED
    BY <1>2, <2>1, <2>2
<1>6. ASSUME NEW m \in 0 .. n, m \in S, m < n
      PROVE  m + 1 \in S
  <2> DEFINE r == f[m]
             c == r.infos[p].containingProjects
  <2>1. f[m + 1] = IF m + 1 \in DOMAIN c THEN updateGraph(r, c[m + 1])
                   ELSE Panic(r, "nil project in assignProjectToOpenedScriptInfo")
    <3>1. m + 1 \in 0 .. n /\ m + 1 # 0 /\ (m + 1) - 1 = m
      BY <1>2, <1>6
    <3> QED
      BY <1>4, <3>1 DEF UpdatingContaining
  <2> HIDE DEF r
  <2>2. CASE Panicked(r)
    <3>1. f[m + 1] = r
      BY <2>1, <2>2, PanicStays
    <3> QED
      BY <1>2, <1>6, <2>2, <3>1 DEF Updates
  <2>3. CASE Fine(r, T) /\ Grows(s, r, NoProject)
    <3>1. r \in Service /\ r.infos[p] \in Info
      BY <1>1, <2>3, ServiceFields, InfoFields DEF Grows, Advances
    <3>2. \A Q : isAttached(s.infos[p], Q) => isAttached(r.infos[p], Q)
      <4>1. \A Q : isAttached(s.infos[p], Q) => Q # NoProject
        BY <1>1, ProjectsAreAttached, ServiceAssumption
      <4>2. /\ s.infos[p] # NoInfo
            /\ Advances(s, r, p, NoProject)
        BY <1>1, <2>3, InfoFields DEF Grows
      <4> QED
        BY <4>1, <4>2 DEF Advances
    <3>3. n <= Len(c)
      BY <1>1, <3>1, <3>2, ListsGrow DEF n
    <3>4. c \in Seq(Project)
      BY <3>1, InfoFields
    <3>5. m + 1 \in DOMAIN c /\ c[m + 1] \in Project
      <4> HIDE DEF c
      <4>1. Len(c) \in Nat /\ DOMAIN c = 1 .. Len(c) /\ \A k \in 1 .. Len(c) : c[k] \in Project
        BY <3>4
      <4>2. m + 1 \in 1 .. Len(c)
        BY <1>2, <1>6, <3>3, <4>1
      <4> QED
        BY <4>1, <4>2
    <3>6. Updates(r, f[m + 1], T)
      BY <2>1, <2>3, <3>5, UpdatingGraphs
    <3>7. Updates(s, f[m + 1], T)
      BY <1>1, <2>3, <3>6, UpdatesCompose
    <3> QED
      BY <1>2, <1>6, <3>7
  <2> QED
    BY <1>6, <2>2, <2>3 DEF Updates, r
<1>7. \A k \in 0 .. n : k \in S
  <2> HIDE DEF S
  <2> QED
    BY <1>2, <1>5, <1>6, LoopInduction
<1> QED
  BY <1>2, <1>3, <1>7

-----------------------------------------------------------------------------
(* Marks.                                                                  *)

\* The marks of a project stay, or it is marked as dirty in general; an inferred project
\* gets no roots.
Remarks(P, x, y) ==
    /\ y \in ProjectState
    /\ \/ /\ y.program = x.program /\ y.dirty = x.dirty /\ y.dirtyFilePath = x.dirtyFilePath
          /\ y.pendingReload = x.pendingReload /\ y.rootFiles = x.rootFiles
       \/ /\ y.program \in {x.program, NoProgram} /\ y.dirty /\ y.dirtyFilePath = NoPath
          /\ P = Inferred => y.rootFiles \subseteq x.rootFiles /\ y.pendingReload = "none"

\* A service with another table of projects differs in nothing else.
LEMMA ProjectsReplaced ==
    ASSUME NEW s \in Service, NEW table \in [Project -> ProjectState]
    PROVE  /\ [s EXCEPT !.projects = table] \in Service
           /\ [s EXCEPT !.projects = table].infos = s.infos
           /\ [s EXCEPT !.projects = table].versions = s.versions
           /\ [s EXCEPT !.projects = table].openFiles = s.openFiles
           /\ [s EXCEPT !.projects = table].configured = s.configured
           /\ [s EXCEPT !.projects = table].panic = s.panic
           /\ [s EXCEPT !.projects = table].projects = table
BY Zenon DEF Service

\* Marking projects as dirty leaves them sound.
LEMMA RemarkedIsFine ==
    ASSUME NEW s, NEW T, Fine(s, T), NEW r \in Service, r.infos = s.infos,
           r.versions = s.versions, r.openFiles = s.openFiles, r.panic = s.panic,
           \A P \in Project : Remarks(P, s.projects[P], r.projects[P])
    PROVE  Fine(r, T) /\ Grows(s, r, NoProject)
<1>1. s \in Service /\ s.panic = "none" /\ Shown(s) /\ T \subseteq Path
  BY DEF Fine
<1>2. Grows(s, r, NoProject)
  BY <1>1, GrowingIsReflexive, ReplacingProjectsGrows
<1>3. Shown(r)
  BY <1>1, <1>2, GrowingIsShown
<1>4. ASSUME NEW P \in Project
      PROVE  Sound(r, P, T)
  <2> DEFINE x == s.projects[P]
             y == r.projects[P]
  <2>1. Sound(s, P, T) /\ Remarks(P, x, y)
    BY <1>4 DEF Fine
  <2>2. /\ DocsHeld(s, P) /\ DocsAttached(s, P) /\ DirtyFile(s, P) /\ RootsAttached(s, P)
        /\ StaleMarked(s, P, T) /\ ReloadMarked(s, P)
    BY <2>1 DEF Sound
  <2>3. y.program \in {x.program, NoProgram}
    BY <2>1 DEF Remarks
  <2>4. \A p \in Path : DocOf(r, P, p) \in {DocOf(s, P, p), NoDoc}
    BY <2>3 DEF DocOf
  <2>5. DocsHeld(r, P)
    BY <2>2, <2>4 DEF DocsHeld, Holds
  <2>6. RootsAttached(r, P)
    BY <2>1, <2>2 DEF RootsAttached, Attached, Remarks
  <2>7. CASE /\ y.program = x.program /\ y.dirty = x.dirty
             /\ y.dirtyFilePath = x.dirtyFilePath
             /\ y.pendingReload = x.pendingReload /\ y.rootFiles = x.rootFiles
    <3>1. \A p \in Path : DocOf(r, P, p) = DocOf(s, P, p)
      BY <2>7 DEF DocOf
    <3>2. DocsAttached(r, P)
      BY <2>2, <2>7, <3>1 DEF DocsAttached, Listed, Attached, Marked
    <3>3. DirtyFile(r, P)
      BY <2>2, <2>7 DEF DirtyFile, Listed, Attached
    <3>4. ReloadMarked(r, P)
      BY <2>2, <2>7 DEF ReloadMarked, Marked
    <3>5. StaleMarked(r, P, T)
      BY <1>1, <2>2, <2>7, <3>1 DEF StaleMarked, Current
    <3> QED
      BY <2>5, <2>6, <3>2, <3>3, <3>4, <3>5 DEF Sound
  <2>8. CASE /\ y.dirty /\ y.dirtyFilePath = NoPath
             /\ P = Inferred => y.pendingReload = "none"
    <3>1. Marked(r, P)
      BY <2>8 DEF Marked
    <3> QED
      BY <2>5, <2>6, <2>8, <3>1, MarkedIsSound
  <2> QED
    BY <2>1, <2>7, <2>8 DEF Remarks
<1> QED
  BY <1>1, <1>2, <1>3, <1>4 DEF Fine

\* A project that is marked and keeps its program leaves the service fine.
LEMMA RemarkedOne ==
    ASSUME NEW s, NEW T, Fine(s, T), NEW P \in Project, NEW x, Remarks(P, s.projects[P], x)
    PROVE  /\ Fine([s EXCEPT !.projects[P] = x], T)
           /\ Grows(s, [s EXCEPT !.projects[P] = x], NoProject)
<1> DEFINE r == [s EXCEPT !.projects[P] = x]
<1>1. s \in Service /\ x \in ProjectState
  BY DEF Fine, Remarks
<1>2. /\ r \in Service /\ r.infos = s.infos /\ r.versions = s.versions
      /\ r.openFiles = s.openFiles /\ r.panic = s.panic /\ r.projects[P] = x
      /\ \A Q \in Project : Q # P => r.projects[Q] = s.projects[Q]
  BY <1>1, ProjectReplaced
<1> HIDE DEF r
<1>3. \A Q \in Project : Remarks(Q, s.projects[Q], r.projects[Q])
  <2>1. ASSUME NEW Q \in Project, Q # P
        PROVE  Remarks(Q, s.projects[Q], r.projects[Q])
    BY <1>1, <1>2, <2>1, ServiceFields DEF Remarks
  <2> QED
    BY <1>2, <2>1
<1>4. Fine(r, T) /\ Grows(s, r, NoProject)
  BY <1>2, <1>3, RemarkedIsFine
<1> QED
  BY <1>4 DEF r

\* markAsDirty (project.go:432) marks and keeps the program.
LEMMA MarkingAsDirty ==
    ASSUME NEW x \in ProjectState, NEW P, P = Inferred => x.pendingReload = "none"
    PROVE  Remarks(P, x, markAsDirty(x))
<1> DEFINE y == [x EXCEPT !.dirty = TRUE, !.dirtyFilePath = NoPath]
<1>1. /\ y \in ProjectState /\ y.dirty /\ y.dirtyFilePath = NoPath
      /\ y.program = x.program /\ y.rootFiles = x.rootFiles
      /\ y.pendingReload = x.pendingReload
  BY Zenon DEF ProjectState
<1>2. markAsDirty(x) = y
  BY DEF markAsDirty
<1> HIDE DEF y
<1> QED
  BY <1>1, <1>2 DEF Remarks

\* A project that is to reload its files or its config is marked as dirty as a whole.
LEMMA AskingForReload ==
    ASSUME NEW x \in ProjectState, NEW kind \in {"fileNames", "full"}, NEW P, P # Inferred
    PROVE  Remarks(P, x, markAsDirty([x EXCEPT !.pendingReload = kind]))
<1> DEFINE y == [x EXCEPT !.pendingReload = kind]
<1>1. y \in ProjectState /\ y.program = x.program
  BY Zenon DEF ProjectState
<1> HIDE DEF y
<1>2. /\ Remarks(P, y, markAsDirty(y))
      /\ markAsDirty(y).dirty /\ markAsDirty(y).dirtyFilePath = NoPath
  <2>1. Remarks(P, y, markAsDirty(y))
    BY <1>1, MarkingAsDirty
  <2>2. markAsDirty(y).dirty /\ markAsDirty(y).dirtyFilePath = NoPath
    BY <1>1, Zenon DEF markAsDirty, ProjectState
  <2> QED
    BY <2>1, <2>2
<1>3. Remarks(P, x, markAsDirty(y))
  BY <1>1, <1>2 DEF Remarks
<1> QED
  BY <1>3 DEF y

\* RemoveFile marks the project, and an inferred one forgets the root.
LEMMA RemovingFile ==
    ASSUME NEW x \in ProjectState, NEW P, P = Inferred => x.pendingReload = "none",
           NEW p \in Path
    PROVE  /\ Remarks(P, x, RemoveFile(x, P, p))
           /\ RemoveFile(x, P, p).dirty /\ RemoveFile(x, P, p).dirtyFilePath = NoPath
           /\ P = Inferred => p \notin RemoveFile(x, P, p).rootFiles
<1> DEFINE y == removeFile(x, P, {p})
<1>1. /\ y \in ProjectState /\ y.program = x.program
      /\ P = Inferred => /\ y.rootFiles \subseteq x.rootFiles /\ p \notin y.rootFiles
                         /\ y.pendingReload = "none"
  <2>1. CASE {p} \cap x.rootFiles = {}
    BY <2>1 DEF removeFile
  <2>2. CASE {p} \cap x.rootFiles # {} /\ P = Inferred
    <3> DEFINE files == x.rootFiles \ {p}
               z == [x EXCEPT !.rootFiles = files]
    <3>1. y = z
      BY <2>2 DEF removeFile
    <3>2. files \in SUBSET Path
      BY ProjectFields
    <3>3. files \subseteq x.rootFiles /\ p \notin files
      OBVIOUS
    <3> HIDE DEF files
    <3>4. /\ z \in ProjectState /\ z.program = x.program /\ z.rootFiles = files
          /\ z.pendingReload = x.pendingReload
      BY <3>2, Zenon DEF ProjectState
    <3> QED
      BY <2>2, <3>1, <3>3, <3>4
  <2>3. CASE {p} \cap x.rootFiles # {} /\ P # Inferred
    <3> DEFINE z == [x EXCEPT !.pendingReload = "fileNames"]
    <3>1. y = z
      BY <2>3 DEF removeFile
    <3>2. z \in ProjectState /\ z.program = x.program
      BY Zenon DEF ProjectState
    <3> QED
      BY <2>3, <3>1, <3>2
  <2> QED
    BY <2>1, <2>2, <2>3
<1>2. RemoveFile(x, P, p) = markAsDirty(y)
  BY DEF RemoveFile
<1> HIDE DEF y
<1>3. /\ markAsDirty(y) \in ProjectState /\ markAsDirty(y).program = y.program
      /\ markAsDirty(y).rootFiles = y.rootFiles
      /\ markAsDirty(y).pendingReload = y.pendingReload
      /\ markAsDirty(y).dirty /\ markAsDirty(y).dirtyFilePath = NoPath
  <2>1. \A z \in ProjectState :
            /\ markAsDirty(z) \in ProjectState /\ markAsDirty(z).program = z.program
            /\ markAsDirty(z).rootFiles = z.rootFiles
            /\ markAsDirty(z).pendingReload = z.pendingReload
            /\ markAsDirty(z).dirty /\ markAsDirty(z).dirtyFilePath = NoPath
    <3> TAKE z \in ProjectState
    <3> QED
      BY Zenon DEF ProjectState, markAsDirty
  <2> QED
    BY <1>1, <2>1
<1> QED
  BY <1>1, <1>2, <1>3 DEF Remarks

\* onWatchEventForNilScriptInfo marks the project or leaves it alone.
LEMMA WatchingNilInfo ==
    ASSUME NEW x \in ProjectState, NEW P, P = Inferred => x.pendingReload = "none", NEW p
    PROVE  Remarks(P, x, onWatchEventForNilScriptInfo(x, P, p))
<1>1. Remarks(P, x, x)
  BY DEF Remarks
<1>2. Remarks(P, x, markAsDirty(x))
  BY MarkingAsDirty
<1>3. P # Inferred => Remarks(P, x, markAsDirty([x EXCEPT !.pendingReload = "fileNames"]))
  BY AskingForReload
<1> QED
  BY <1>1, <1>2, <1>3 DEF onWatchEventForNilScriptInfo

-----------------------------------------------------------------------------
(* markContainingProjectsAsDirty.                                          *)

\* The project that is marked for a file.
LEMMA MarkingFile ==
    ASSUME NEW x \in ProjectState, NEW p \in Path
    PROVE  /\ MarkFileAsDirty(x, p) \in ProjectState
           /\ MarkFileAsDirty(x, p).dirty
           /\ MarkFileAsDirty(x, p).dirtyFilePath
                = IF ~x.dirty \/ x.dirtyFilePath = p THEN p ELSE NoPath
           /\ MarkFileAsDirty(x, p).pendingReload = x.pendingReload
           /\ MarkFileAsDirty(x, p).rootFiles = x.rootFiles
           /\ MarkFileAsDirty(x, p).program = x.program
           /\ MarkFileAsDirty(x, p).exists = x.exists
           /\ MarkFileAsDirty(x, p).deferredClose = x.deferredClose
<1> DEFINE y == [x EXCEPT !.dirty = TRUE, !.dirtyFilePath = p]
           z == [x EXCEPT !.dirtyFilePath = NoPath]
<1>1. /\ y \in ProjectState /\ y.dirty /\ y.dirtyFilePath = p
      /\ y.pendingReload = x.pendingReload /\ y.rootFiles = x.rootFiles
      /\ y.program = x.program /\ y.exists = x.exists /\ y.deferredClose = x.deferredClose
  BY Zenon DEF ProjectState
<1>2. /\ z \in ProjectState /\ z.dirty = x.dirty /\ z.dirtyFilePath = NoPath
      /\ z.pendingReload = x.pendingReload /\ z.rootFiles = x.rootFiles
      /\ z.program = x.program /\ z.exists = x.exists /\ z.deferredClose = x.deferredClose
  BY Zenon DEF ProjectState
<1>3. MarkFileAsDirty(x, p) = IF ~x.dirty THEN y
                              ELSE IF x.dirtyFilePath # p THEN z ELSE x
  BY DEF MarkFileAsDirty
<1> HIDE DEF y, z
<1> QED
  BY <1>1, <1>2, <1>3

\* markContainingProjectsAsDirty (scriptinfo.go:111) marks the file in every project in its
\* list and leaves the other projects alone.
LEMMA MarkingContaining ==
    ASSUME NEW s \in Service, NEW p \in Path, s.infos[p] # NoInfo
    PROVE  /\ markContainingProjectsAsDirty(s, p) \in Service
           /\ markContainingProjectsAsDirty(s, p).infos = s.infos
           /\ markContainingProjectsAsDirty(s, p).versions = s.versions
           /\ markContainingProjectsAsDirty(s, p).openFiles = s.openFiles
           /\ markContainingProjectsAsDirty(s, p).configured = s.configured
           /\ markContainingProjectsAsDirty(s, p).panic = s.panic
           /\ \A P \in Project : markContainingProjectsAsDirty(s, p).projects[P]
                  = IF isAttached(s.infos[p], P) THEN MarkFileAsDirty(s.projects[P], p)
                    ELSE s.projects[P]
<1> DEFINE c == s.infos[p].containingProjects
           table == Override([P \in Range(c) |-> MarkFileAsDirty(s.projects[P], p)], s.projects)
           r == [s EXCEPT !.projects = table]
<1>1. markContainingProjectsAsDirty(s, p) = r
  BY DEF markContainingProjectsAsDirty
<1>2. s.infos[p] \in Info /\ s.projects \in [Project -> ProjectState]
  BY ServiceFields
<1>3. table = [P \in Project |-> IF P \in Range(c) THEN MarkFileAsDirty(s.projects[P], p)
                                 ELSE s.projects[P]]
  BY <1>2, Overriding
<1>4. \A P : P \in Range(c) <=> isAttached(s.infos[p], P)
  BY <1>2, RangeIsAttached
<1> HIDE DEF c, table
<1>5. \A P \in Project : MarkFileAsDirty(s.projects[P], p) \in ProjectState
  BY <1>2, MarkingFile
<1>6. table \in [Project -> ProjectState]
  BY <1>2, <1>3, <1>5
<1>7. /\ r \in Service /\ r.infos = s.infos /\ r.versions = s.versions
      /\ r.openFiles = s.openFiles /\ r.configured = s.configured /\ r.panic = s.panic
      /\ r.projects = table
  BY <1>6, ProjectsReplaced
<1> QED
  BY <1>1, <1>3, <1>4, <1>7

\* Once its projects are marked, a changed file is no longer stale without a mark.
LEMMA MarkingIsFine ==
    ASSUME NEW s, NEW T, NEW p \in Path, Fine(s, T \ {p}), T \subseteq Path,
           s.infos[p] # NoInfo, ~s.infos[p].deferredDelete
    PROVE  Fine(markContainingProjectsAsDirty(s, p), T)
<1> DEFINE r == markContainingProjectsAsDirty(s, p)
<1>1. s \in Service /\ s.panic = "none" /\ Shown(s)
  BY DEF Fine
<1>2. /\ r \in Service /\ r.infos = s.infos /\ r.versions = s.versions
      /\ r.openFiles = s.openFiles /\ r.panic = s.panic
      /\ \A P \in Project : r.projects[P]
             = IF isAttached(s.infos[p], P) THEN MarkFileAsDirty(s.projects[P], p)
               ELSE s.projects[P]
  BY <1>1, MarkingContaining
<1> HIDE DEF r
<1>3. Shown(r)
  BY <1>1, <1>2 DEF Shown
<1>4. ASSUME NEW P \in Project
      PROVE  Sound(r, P, T)
  <2> DEFINE x == s.projects[P]
             y == r.projects[P]
  <2>1. /\ DocsHeld(s, P) /\ DocsAttached(s, P) /\ DirtyFile(s, P) /\ RootsAttached(s, P)
        /\ StaleMarked(s, P, T \ {p}) /\ ReloadMarked(s, P)
    BY <1>4 DEF Fine, Sound
  <2>2. x \in ProjectState /\ x.dirtyFilePath \in Path \cup {NoPath} /\ p # NoPath
    BY <1>1, ServiceFields, ProjectFields, ProjectAssumption
  <2>3. /\ y.program = x.program /\ y.pendingReload = x.pendingReload
        /\ y.rootFiles = x.rootFiles
        /\ ~isAttached(s.infos[p], P) => y = x
        /\ isAttached(s.infos[p], P) =>
               /\ y.dirty
               /\ y.dirtyFilePath = IF ~x.dirty \/ x.dirtyFilePath = p THEN p ELSE NoPath
    BY <1>2, <2>2, MarkingFile
  <2> HIDE DEF x, y
  <2>4. \A q \in Path : DocOf(r, P, q) = DocOf(s, P, q)
    BY <2>3 DEF DocOf, x, y
  <2>5. Marked(s, P) => Marked(r, P)
    BY <2>2, <2>3 DEF Marked, x, y
  <2>6. DocsHeld(r, P)
    BY <1>2, <2>1, <2>4 DEF DocsHeld, Holds
  <2>7. DocsAttached(r, P)
    BY <1>2, <2>1, <2>4, <2>5 DEF DocsAttached, Listed, Attached
  <2>8. DirtyFile(r, P)
    BY <1>2, <2>1, <2>3 DEF DirtyFile, Listed, Attached, x, y
  <2>9. ReloadMarked(r, P)
    BY <2>1, <2>3, <2>5 DEF ReloadMarked, x, y
  <2>10. RootsAttached(r, P)
    BY <1>2, <2>1, <2>3 DEF RootsAttached, Attached, x, y
  <2>11. StaleMarked(r, P, T)
    <3>1. ASSUME NEW q \in T, DocOf(r, P, q) # NoDoc
          PROVE  \/ Current(r, q, DocOf(r, P, q))
                 \/ y.dirty /\ y.dirtyFilePath \in {NoPath, q}
      <4>1. q \in Path
        BY <1>1, ServiceFields
      <4>2. CASE q = p
        <5>1. Listed(s, P, p) \/ Marked(s, P)
          BY <2>1, <2>4, <3>1, <4>1, <4>2 DEF DocsAttached
        <5> QED
          BY <2>3, <4>2, <5>1 DEF Listed, Attached, Marked, x
      <4>3. CASE q # p
        <5>1. \/ Current(s, q, DocOf(s, P, q))
              \/ x.dirty /\ x.dirtyFilePath \in {NoPath, q}
          BY <2>1, <2>4, <3>1, <4>1, <4>3 DEF StaleMarked, x
        <5> QED
          BY <1>2, <2>2, <2>3, <2>4, <4>1, <4>3, <5>1 DEF Current
      <4> QED
        BY <4>2, <4>3
    <3> QED
      BY <3>1 DEF StaleMarked, y
  <2> QED
    BY <2>6, <2>7, <2>8, <2>9, <2>10, <2>11 DEF Sound
<1>5. Fine(r, T)
  BY <1>1, <1>2, <1>3, <1>4 DEF Fine
<1> QED
  BY <1>5 DEF r

-----------------------------------------------------------------------------
(* Projects for open files.                                                *)

\* The records of project objects.
LEMMA NewProjects ==
    /\ [NewProject EXCEPT !.exists = TRUE] \in ProjectState
    /\ \A x : Remarks(Inferred, x, [NewProject EXCEPT !.exists = TRUE])
    /\ [NewProject EXCEPT !.exists = TRUE].rootFiles = {}
<1> DEFINE y == [NewProject EXCEPT !.exists = TRUE]
<1>1. /\ NewProject \in ProjectState /\ NewProject.program = NoProgram /\ NewProject.dirty
      /\ NewProject.dirtyFilePath = NoPath /\ NewProject.rootFiles = {}
      /\ NewProject.pendingReload = "none"
  BY DEF NewProject, ProjectState
<1>2. /\ y \in ProjectState /\ y.program = NewProject.program
      /\ y.dirty = NewProject.dirty /\ y.dirtyFilePath = NewProject.dirtyFilePath
      /\ y.rootFiles = NewProject.rootFiles /\ y.pendingReload = NewProject.pendingReload
  BY <1>1, Zenon DEF ProjectState
<1> HIDE DEF y
<1>3. \A x : Remarks(Inferred, x, y)
  BY <1>1, <1>2 DEF Remarks
<1> QED
  BY <1>1, <1>2, <1>3 DEF y

\* A service with another state of one file differs in nothing else.
LEMMA InfoReplaced ==
    ASSUME NEW s \in Service, NEW p \in Path, NEW i \in Info
    PROVE  /\ [s EXCEPT !.infos[p] = i] \in Service
           /\ [s EXCEPT !.infos[p] = i].infos[p] = i
           /\ \A q \in Path : q # p => [s EXCEPT !.infos[p] = i].infos[q] = s.infos[q]
           /\ [s EXCEPT !.infos[p] = i].versions = s.versions
           /\ [s EXCEPT !.infos[p] = i].openFiles = s.openFiles
           /\ [s EXCEPT !.infos[p] = i].configured = s.configured
           /\ [s EXCEPT !.infos[p] = i].panic = s.panic
           /\ [s EXCEPT !.infos[p] = i].projects = s.projects
<1> DEFINE t == [s.infos EXCEPT ![p] = i]
           r == [s EXCEPT !.infos = t]
<1>1. [s EXCEPT !.infos[p] = i] = r
  OBVIOUS
<1>2. t \in [Path -> Info \cup {NoInfo}] /\ t[p] = i /\ \A q \in Path : q # p => t[q] = s.infos[q]
  BY ServiceFields
<1> HIDE DEF t
<1>3. /\ r \in Service /\ r.infos = t /\ r.versions = s.versions
      /\ r.openFiles = s.openFiles /\ r.configured = s.configured /\ r.panic = s.panic
      /\ r.projects = s.projects
  BY <1>2, Zenon DEF Service
<1> QED
  BY <1>1, <1>2, <1>3

\* The info of one file follows the one before: the state grows.
LEMMA InfoFollows ==
    ASSUME NEW s \in Service, NEW p \in Path, s.infos[p] # NoInfo, NEW i \in Info, NEW P,
           Follows(s.infos[p], i, p), \A Q : isAttached(s.infos[p], Q) /\ Q # P => isAttached(i, Q)
    PROVE  Grows(s, [s EXCEPT !.infos[p] = i], P)
<1> DEFINE r == [s EXCEPT !.infos[p] = i]
<1>1. /\ r \in Service /\ r.infos[p] = i /\ r.versions = s.versions
      /\ \A q \in Path : q # p => r.infos[q] = s.infos[q] /\ r.openFiles = s.openFiles
      /\ r.openFiles = s.openFiles
  BY InfoReplaced
<1> HIDE DEF r
<1>2. Advances(s, r, p, P)
  BY <1>1, InfoFields DEF Advances
<1>3. ASSUME NEW q \in Path, q # p
      PROVE  Advances(s, r, q, P)
  <2>1. Advances(s, s, q, P)
    BY GrowingIsReflexive DEF Grows
  <2> QED
    BY <1>1, <1>3, <2>1 DEF Advances
<1>4. Grows(s, r, P)
  BY <1>1, <1>2, <1>3 DEF Grows
<1> QED
  BY <1>4 DEF r

\* A project with one more root differs in nothing else.
LEMMA RootsAdded ==
    ASSUME NEW x \in ProjectState, NEW p \in Path
    PROVE  /\ [x EXCEPT !.rootFiles = @ \cup {p}] \in ProjectState
           /\ [x EXCEPT !.rootFiles = @ \cup {p}].rootFiles = x.rootFiles \cup {p}
           /\ [x EXCEPT !.rootFiles = @ \cup {p}].program = x.program
           /\ [x EXCEPT !.rootFiles = @ \cup {p}].pendingReload = x.pendingReload
<1> DEFINE files == x.rootFiles \cup {p}
           y == [x EXCEPT !.rootFiles = files]
<1>1. files \in SUBSET Path
  BY ProjectFields
<1> HIDE DEF files
<1>2. /\ y \in ProjectState /\ y.rootFiles = files /\ y.program = x.program
      /\ y.pendingReload = x.pendingReload
  BY <1>1, Zenon DEF ProjectState
<1> QED
  BY <1>2 DEF files

\* The fields of a project after markAsDirty (project.go:432).
LEMMA MarkedFields ==
    ASSUME NEW x \in ProjectState
    PROVE  /\ markAsDirty(x) \in ProjectState /\ markAsDirty(x).program = x.program
           /\ markAsDirty(x).rootFiles = x.rootFiles
           /\ markAsDirty(x).pendingReload = x.pendingReload
           /\ markAsDirty(x).dirty /\ markAsDirty(x).dirtyFilePath = NoPath
           /\ markAsDirty(x).exists = x.exists
           /\ markAsDirty(x).deferredClose = x.deferredClose
BY Zenon DEF ProjectState, markAsDirty

\* AddRoot of a file that is not a root attaches it to the project.
LEMMA AddingRoot ==
    ASSUME NEW s, NEW T, Fine(s, T), NEW p \in Path, s.infos[p] # NoInfo,
           p \notin s.projects[Inferred].rootFiles
    PROVE  Fine(AddRoot(s, Inferred, p), T) /\ Grows(s, AddRoot(s, Inferred, p), NoProject)
<1> DEFINE y == [s.projects[Inferred] EXCEPT !.rootFiles = @ \cup {p}]
           i == attachToProject(s.infos[p], Inferred)
           a == [s EXCEPT !.infos[p] = i]
           b == [s EXCEPT !.projects[Inferred] = y, !.infos[p] = i]
           x == markAsDirty(b.projects[Inferred])
           r == [b EXCEPT !.projects[Inferred] = x]
<1>0. /\ s \in Service /\ s.panic = "none" /\ Shown(s) /\ T \subseteq Path
      /\ Sound(s, Inferred, T) /\ Inferred \in Project
  BY ProjectAssumption DEF Fine
<1>1. addRoot(s, Inferred, p) = b
  BY DEF addRoot
<1>2. AddRoot(s, Inferred, p) = r
  BY <1>1 DEF AddRoot
<1>3. s.projects[Inferred] \in ProjectState /\ s.infos[p] \in Info
  BY <1>0, ServiceFields
<1>4. /\ y \in ProjectState /\ y.rootFiles = s.projects[Inferred].rootFiles \cup {p}
      /\ y.program = s.projects[Inferred].program
      /\ y.pendingReload = s.projects[Inferred].pendingReload
  BY <1>3, RootsAdded
<1> HIDE DEF y
<1>5. /\ i \in Info /\ Follows(s.infos[p], i, p) /\ isAttached(i, Inferred)
      /\ \A Q : isAttached(s.infos[p], Q) => isAttached(i, Q)
  BY <1>0, <1>3, Attaching
<1> HIDE DEF i
<1>6. Grows(s, a, NoProject)
  BY <1>0, <1>5, InfoFollows
<1>7. a.infos[p] = i /\ a.versions = s.versions /\ a.openFiles = s.openFiles
  BY <1>0, <1>5, InfoReplaced
<1>8. /\ b \in Service /\ b.infos = a.infos /\ b.versions = a.versions
      /\ b.openFiles = a.openFiles /\ b.panic = s.panic /\ b.projects[Inferred] = y
      /\ \A Q \in Project : Q # Inferred => b.projects[Q] = s.projects[Q]
  <2> DEFINE t == [s.projects EXCEPT ![Inferred] = y]
             u == [s.infos EXCEPT ![p] = i]
             c == [s EXCEPT !.projects = t, !.infos = u]
  <2>1. b = c /\ a = [s EXCEPT !.infos = u]
    BY Zenon
  <2>2. /\ t \in [Project -> ProjectState] /\ t[Inferred] = y
        /\ \A Q \in Project : Q # Inferred => t[Q] = s.projects[Q]
    BY <1>0, <1>4, ServiceFields
  <2>3. u \in [Path -> Info \cup {NoInfo}]
    BY <1>0, <1>5, ServiceFields
  <2> HIDE DEF t, u
  <2>4. /\ c \in Service /\ c.infos = u /\ c.versions = s.versions
        /\ c.openFiles = s.openFiles /\ c.panic = s.panic /\ c.projects = t
    BY <1>0, <2>2, <2>3, Zenon DEF Service
  <2>5. a.infos = u
    BY <1>0, <2>1, <2>3, Zenon DEF Service
  <2> HIDE DEF a, b, c
  <2> QED
    BY <1>7, <2>1, <2>2, <2>4, <2>5
<1> HIDE DEF a, b
<1>9. Grows(s, b, NoProject)
  BY <1>0, <1>6, <1>8, ReplacingProjectsGrows
<1>10. /\ x \in ProjectState /\ x.program = y.program /\ x.rootFiles = y.rootFiles
       /\ x.pendingReload = y.pendingReload /\ x.dirty /\ x.dirtyFilePath = NoPath
  BY <1>4, <1>8, MarkedFields
<1> HIDE DEF x
<1>11. /\ r \in Service /\ r.infos = b.infos /\ r.versions = b.versions
       /\ r.openFiles = b.openFiles /\ r.panic = b.panic /\ r.projects[Inferred] = x
       /\ \A Q \in Project : Q # Inferred => r.projects[Q] = b.projects[Q]
  BY <1>0, <1>8, <1>10, ProjectReplaced
<1> HIDE DEF r
<1>12. Grows(s, r, NoProject)
  BY <1>0, <1>9, <1>11, ReplacingProjectsGrows
<1>13. Shown(r)
  BY <1>0, <1>12, GrowingIsShown
<1>14. Sound(r, Inferred, T)
  <2>1. /\ DocsHeld(s, Inferred) /\ RootsAttached(s, Inferred) /\ ReloadMarked(s, Inferred)
    BY <1>0 DEF Sound
  <2>2. DocsHeld(r, Inferred)
    BY <1>0, <1>4, <1>10, <1>11, <1>12, <2>1, GrowingHoldsDocs
  <2>3. Marked(r, Inferred)
    BY <1>10, <1>11 DEF Marked
  <2>4. RootsAttached(r, Inferred)
    <3>1. ASSUME NEW q \in s.projects[Inferred].rootFiles
          PROVE  Attached(r, Inferred, q)
      <4>1. q \in Path /\ Attached(s, Inferred, q)
        BY <1>3, <2>1, ProjectFields DEF RootsAttached
      <4> QED
        BY <1>0, <1>12, <4>1, GrowingAttached, ServiceAssumption
    <3>2. Attached(r, Inferred, p)
      BY <1>5, <1>7, <1>8, <1>11, InfoFields DEF Attached
    <3> QED
      BY <1>4, <1>10, <1>11, <3>1, <3>2 DEF RootsAttached
  <2>5. r.projects[Inferred].pendingReload = "none"
    BY <1>4, <1>10, <1>11, <2>1 DEF ReloadMarked
  <2> QED
    BY <2>2, <2>3, <2>4, <2>5, MarkedIsSound
<1>15. ASSUME NEW Q \in Project, Q # Inferred
       PROVE  Sound(r, Q, T)
  <2>1. r.projects[Q] = s.projects[Q] /\ Q # NoProject
    BY <1>8, <1>11, <1>15, ServiceAssumption
  <2> QED
    BY <1>12, <2>1, GrowingIsSound
<1>16. Fine(r, T)
  BY <1>0, <1>7, <1>8, <1>11, <1>13, <1>14, <1>15 DEF Fine
<1> QED
  BY <1>2, <1>12, <1>16

\* Another update of a project may follow an update.
LEMMA UpdatingAfter ==
    ASSUME WorldOK, NEW s \in Service, NEW r, NEW T, Updates(s, r, T), NEW P \in Project
    PROVE  Updates(s, updateGraph(r, P), T)
<1>1. CASE Panicked(r)
  BY <1>1, PanicStays DEF Updates
<1>2. CASE Fine(r, T) /\ Grows(s, r, NoProject)
  BY <1>2, UpdatingGraphs, UpdatesCompose
<1> QED
  BY <1>1, <1>2 DEF Updates

\* assignOrphanScriptInfoToInferredProject: an orphan is no root.
LEMMA AssigningOrphans ==
    ASSUME WorldOK, NEW s, NEW T, Fine(s, T), NEW p \in s.openFiles, isOrphan(s, p)
    PROVE  Updates(s, assignOrphanScriptInfoToInferredProject(s, p), T)
<1> DEFINE y == [NewProject EXCEPT !.exists = TRUE]
           r == IF s.projects[Inferred].exists THEN s ELSE [s EXCEPT !.projects[Inferred] = y]
<1>0. s \in Service /\ Shown(s) /\ Inferred \in Project /\ Sound(s, Inferred, T)
  BY ProjectAssumption DEF Fine
<1>1. /\ p \in Path /\ s.infos[p] # NoInfo /\ ~s.infos[p].deferredDelete
      /\ s.infos[p] \in Info
  BY <1>0, ServiceFields DEF Shown
<1>2. p \notin s.projects[Inferred].rootFiles
  <2> SUFFICES ASSUME p \in s.projects[Inferred].rootFiles
               PROVE  FALSE
    OBVIOUS
  <2>1. isAttached(s.infos[p], Inferred)
    BY <1>0 DEF Sound, RootsAttached, Attached
  <2>2. Inferred \in Range(s.infos[p].containingProjects)
    BY <1>1, <2>1, RangeIsAttached
  <2> QED
    BY <1>1, <2>2 DEF isOrphan, isOrphanProject
<1>3. /\ Fine(r, T) /\ Grows(s, r, NoProject) /\ p \notin r.projects[Inferred].rootFiles
  <2>1. CASE s.projects[Inferred].exists
    BY <1>0, <1>2, <2>1, GrowingIsReflexive
  <2>2. CASE ~s.projects[Inferred].exists
    <3>0. y.rootFiles = {} /\ Remarks(Inferred, s.projects[Inferred], y) /\ y \in ProjectState
      BY NewProjects
    <3> HIDE DEF y
    <3>1. /\ Fine([s EXCEPT !.projects[Inferred] = y], T)
          /\ Grows(s, [s EXCEPT !.projects[Inferred] = y], NoProject)
      BY <1>0, <3>0, RemarkedOne
    <3>2. [s EXCEPT !.projects[Inferred] = y].projects[Inferred] = y
      BY <1>0, <3>0, ProjectReplaced
    <3> QED
      BY <2>2, <3>0, <3>1, <3>2
  <2> QED
    BY <2>1, <2>2
<1>4. assignOrphanScriptInfoToInferredProject(s, p)
        = updateGraph(AddRoot(r, Inferred, p), Inferred)
  BY DEF assignOrphanScriptInfoToInferredProject
<1> HIDE DEF r
<1>5. r \in Service /\ r.infos[p] # NoInfo
  BY <1>1, <1>3 DEF Grows, Advances
<1>6. Fine(AddRoot(r, Inferred, p), T) /\ Grows(r, AddRoot(r, Inferred, p), NoProject)
  BY <1>1, <1>3, <1>5, AddingRoot
<1>7. Updates(s, AddRoot(r, Inferred, p), T)
  BY <1>0, <1>3, <1>6, GrowingIsTransitive DEF Updates
<1> QED
  BY <1>0, <1>4, <1>7, UpdatingAfter

\* ensureProjectForOpenFile: an open file has an info.
LEMMA EnsuringProject ==
    ASSUME WorldOK, NEW s, NEW T, Fine(s, T), NEW p \in s.openFiles
    PROVE  Updates(s, ensureProjectForOpenFile(s, p), T)
<1>0. s \in Service /\ Shown(s)
  BY DEF Fine
<1>1. p \in Path /\ Live(s, p)
  BY <1>0, ServiceFields DEF Shown, Live
<1>2. Updates(s, s, T)
  BY <1>0, GrowingIsReflexive DEF Updates
<1> QED
  BY <1>1, <1>2, AssigningOrphans DEF ensureProjectForOpenFile

\* No file is assigned to a project after a panic.
LEMMA PanicIsAssigned ==
    ASSUME NEW s, Panicked(s), NEW p
    PROVE  /\ Panicked(assignOrphanScriptInfoToInferredProject(s, p))
           /\ Panicked(ensureProjectForOpenFile(s, p))
<1> DEFINE r == IF s.projects[Inferred].exists THEN s
                ELSE [s EXCEPT !.projects[Inferred] = [NewProject EXCEPT !.exists = TRUE]]
<1>1. Panicked(r)
  BY PanicPersists
<1> HIDE DEF r
<1>2. Panicked(addRoot(r, Inferred, p))
  <2>1. CASE p \in r.projects[Inferred].rootFiles
    BY <1>1, <2>1, PanicStays DEF addRoot
  <2>2. CASE p \notin r.projects[Inferred].rootFiles
    BY <1>1, <2>2 DEF addRoot, Panicked
  <2> QED
    BY <2>1, <2>2
<1>3. Panicked(AddRoot(r, Inferred, p))
  BY <1>2, PanicPersists DEF AddRoot
<1>4. assignOrphanScriptInfoToInferredProject(s, p)
        = updateGraph(AddRoot(r, Inferred, p), Inferred)
  BY DEF assignOrphanScriptInfoToInferredProject, r
<1>5. Panicked(assignOrphanScriptInfoToInferredProject(s, p))
  BY <1>3, <1>4, PanicStays
<1>6. Panic(s, "scriptInfo not found for open file") = s
  BY PanicStays
<1> QED
  BY <1>5, <1>6 DEF ensureProjectForOpenFile

\* The update of the inferred project may follow an update.
LEMMA UpdatingInferred ==
    ASSUME WorldOK, NEW s \in Service, NEW r, NEW T, Updates(s, r, T)
    PROVE  Updates(s, updateInferredProjects(r), T)
BY UpdatingAfter, ProjectAssumption DEF updateInferredProjects

\* The state once the first m of the open files have been ensured a project.
EnsuringProjects(s, files, m, f) ==
    f = [k \in 0 .. m |-> IF k = 0 THEN s ELSE ensureProjectForOpenFile(f[k - 1], files[k])]

\* The recursive function of ensureProjectForOpenFiles exists: the provers need a witness.
LEMMA EnsuringLoopIsDefined ==
    ASSUME NEW s, NEW files, NEW n \in Nat
    PROVE  \E f : EnsuringProjects(s, files, n, f)
<1> DEFINE S == {m \in 0 .. n : \E f : EnsuringProjects(s, files, m, f)}
           next(r, k) == ensureProjectForOpenFile(r, files[k])
<1>0. ASSUME NEW m, NEW f
      PROVE  EnsuringProjects(s, files, m, f)
             <=> f = [k \in 0 .. m |-> IF k = 0 THEN s ELSE next(f[k - 1], k)]
  BY DEF EnsuringProjects
<1> HIDE DEF next
<1>1. 0 \in S
  <2> DEFINE f == [k \in 0 .. 0 |-> s]
  <2>1. f = [k \in 0 .. 0 |-> IF k = 0 THEN s ELSE next(f[k - 1], k)]
    OBVIOUS
  <2>2. EnsuringProjects(s, files, 0, f)
    BY <1>0, <2>1
  <2> QED
    BY <2>2
<1>2. ASSUME NEW m \in 0 .. n, m \in S, m < n
      PROVE  m + 1 \in S
  <2>1. PICK f : f = [k \in 0 .. m |-> IF k = 0 THEN s ELSE next(f[k - 1], k)]
    BY <1>0, <1>2
  <2> DEFINE g == [k \in 0 .. m + 1 |-> IF k = m + 1 THEN next(f[m], m + 1) ELSE f[k]]
  <2>2. \A k \in 0 .. m : g[k] = f[k] /\ k # m + 1 /\ k \in 0 .. m + 1
    OBVIOUS
  <2>3. g[m + 1] = next(f[m], m + 1)
    OBVIOUS
  <2>4. ASSUME NEW k \in 0 .. m + 1
        PROVE  g[k] = IF k = 0 THEN s ELSE next(g[k - 1], k)
    <3>1. CASE k = m + 1
      <4>1. k # 0 /\ k - 1 = m /\ m \in 0 .. m
        BY <3>1
      <4> QED
        BY <3>1, <4>1, <2>2, <2>3
    <3>2. CASE k # m + 1
      <4>1. k \in 0 .. m /\ (k # 0 => k - 1 \in 0 .. m)
        BY <3>2
      <4>2. g[k] = f[k] /\ (k # 0 => g[k - 1] = f[k - 1])
        BY <4>1, <2>2
      <4>3. f[k] = IF k = 0 THEN s ELSE next(f[k - 1], k)
        BY <4>1, <2>1
      <4> HIDE DEF g
      <4> QED
        BY <4>2, <4>3
    <3> QED
      BY <3>1, <3>2
  <2>5. DOMAIN g = 0 .. m + 1 /\ g = [k \in 0 .. m + 1 |-> g[k]]
    OBVIOUS
  <2> HIDE DEF g
  <2>6. g = [k \in 0 .. m + 1 |-> IF k = 0 THEN s ELSE next(g[k - 1], k)]
    BY <2>4, <2>5
  <2>7. EnsuringProjects(s, files, m + 1, g)
    BY <1>0, <2>6
  <2>8. m + 1 \in 0 .. n
    BY <1>2
  <2> QED
    BY <2>7, <2>8
<1>3. \A k \in 0 .. n : k \in S
  <2> HIDE DEF S
  <2> QED
    BY <1>1, <1>2, LoopInduction
<1> QED
  BY <1>3

\* ensureProjectForOpenFiles, in whatever order the files come.
LEMMA EnsuringOpenFiles ==
    ASSUME WorldOK, NEW s \in Service, NEW r, NEW T, Updates(s, r, T),
           IsFiniteSet(s.openFiles), NEW files \in SetToSeqs(s.openFiles)
    PROVE  Updates(s, ensureProjectForOpenFiles(r, files), T)
<1> DEFINE n == Cardinality(s.openFiles)
           f == CHOOSE f : EnsuringProjects(r, files, n, f)
           S == {k \in 0 .. n : Updates(s, f[k], T)}
<1>1. n \in Nat
  BY FS_CardinalityType
<1>2. files \in [1 .. n -> s.openFiles]
  BY Zenon DEF SetToSeqs
<1>3. Len(files) = n
  <2>1. files \in Seq(s.openFiles) /\ DOMAIN files = 1 .. n
    BY <1>1, <1>2
  <2> QED
    BY <1>1, <2>1
<1>4. ensureProjectForOpenFiles(r, files) = updateInferredProjects(f[n])
  BY <1>3 DEF ensureProjectForOpenFiles, EnsuringProjects
<1> HIDE DEF n
<1>5. EnsuringProjects(r, files, n, f)
  BY <1>1, EnsuringLoopIsDefined
<1> HIDE DEF f
<1>6. 0 \in S
  <2>1. 0 \in 0 .. n
    BY <1>1
  <2>2. f[0] = r
    BY <1>5, <2>1, Zenon DEF EnsuringProjects
  <2> QED
    BY <2>1, <2>2
<1>7. ASSUME NEW m \in 0 .. n, m \in S, m < n
      PROVE  m + 1 \in S
  <2> DEFINE q == f[m]
  <2>1. f[m + 1] = ensureProjectForOpenFile(q, files[m + 1])
    <3>1. m + 1 \in 0 .. n /\ m + 1 # 0 /\ (m + 1) - 1 = m
      BY <1>1, <1>7
    <3> QED
      BY <1>5, <3>1 DEF EnsuringProjects
  <2>2. files[m + 1] \in s.openFiles /\ m + 1 \in 0 .. n
    BY <1>1, <1>2, <1>7
  <2>3. Updates(s, q, T)
    BY <1>7
  <2> HIDE DEF q
  <2>4. CASE Panicked(q)
    BY <2>1, <2>2, <2>4, PanicIsAssigned DEF Updates
  <2>5. CASE Fine(q, T) /\ Grows(s, q, NoProject)
    <3>1. files[m + 1] \in q.openFiles
      BY <2>2, <2>5 DEF Grows
    <3>2. Updates(q, f[m + 1], T)
      BY <2>1, <2>5, <3>1, EnsuringProject
    <3>3. Updates(s, f[m + 1], T)
      BY <2>5, <3>2, UpdatesCompose
    <3> QED
      BY <2>2, <3>3
  <2> QED
    BY <2>3, <2>4, <2>5 DEF Updates
<1>8. \A k \in 0 .. n : k \in S
  <2> HIDE DEF S
  <2> QED
    BY <1>1, <1>6, <1>7, LoopInduction
<1>9. Updates(s, f[n], T)
  BY <1>1, <1>8
<1> QED
  BY <1>4, <1>9, UpdatingInferred

\* ensureProjectStructureUpToDate.
LEMMA EnsuringStructure ==
    ASSUME WorldOK, NEW s, NEW T, Fine(s, T), IsFiniteSet(s.openFiles),
           NEW files \in SetToSeqs(s.openFiles)
    PROVE  Updates(s, ensureProjectStructureUpToDate(s, files), T)
<1> DEFINE c == IF s.configured = NoProject THEN s ELSE updateGraph(s, s.configured)
           r == updateInferredProjects(c)
<1>0. s \in Service /\ Updates(s, s, T)
  BY GrowingIsReflexive DEF Fine, Updates
<1>1. s.configured # NoProject => s.configured \in Project
  BY <1>0, ServiceFields DEF Configured
<1>2. Updates(s, c, T)
  BY <1>0, <1>1, UpdatingAfter
<1> HIDE DEF c
<1>3. Updates(s, r, T)
  BY <1>0, <1>2, UpdatingInferred
<1>4. Updates(s, ensureProjectForOpenFiles(r, files), T)
  BY <1>0, <1>3, EnsuringOpenFiles
<1> QED
  BY <1>3, <1>4 DEF ensureProjectStructureUpToDate, c

\* The least element of a set of numbers that is not empty is one of them.
LEMMA MinimumIsMember ==
    ASSUME NEW S \in SUBSET Nat, S # {}
    PROVE  Min(S) \in S
<1>1. \E x \in S : \A y \in S : x <= y
  <2>1. \E x \in S : \A y \in S : <<y, x>> \notin OpToRel(<, Nat)
    BY NatLessThanWellFounded, WFMin, Zenon
  <2>2. ASSUME NEW x \in S, NEW y \in S, <<y, x>> \notin OpToRel(<, Nat)
        PROVE  x <= y
    <3>1. ~(y < x)
      BY <2>2, Zenon DEF OpToRel
    <3> QED
      BY <3>1
  <2> QED
    BY <2>1, <2>2
<1> QED
  BY <1>1 DEF Min

\* getDefaultProjectForScript finds a project or none.
LEMMA DefaultIsProject ==
    ASSUME NEW s \in Service, NEW p \in Path, s.infos[p] # NoInfo
    PROVE  getDefaultProjectForScript(s, p) \in Project \cup {NoProject}
<1> DEFINE containing == s.infos[p].containingProjects
           candidates == {k \in DOMAIN containing :
                              containing[k] \in Configured /\ Usable(s, containing[k])}
           default == IF /\ \E k \in candidates : k # Len(containing)
                         /\ HasConfigFile(p) /\ Usable(s, s.configured)
                      THEN s.configured ELSE NoProject
<1>1. s.infos[p] \in Info
  BY ServiceFields
<1>2. /\ containing \in Seq(Project) /\ Len(containing) \in Nat
      /\ \A k \in DOMAIN containing : containing[k] \in Project /\ k \in Nat
  BY <1>1, InfoFields
<1>3. candidates # {} => Min(candidates) \in DOMAIN containing
  BY <1>2, MinimumIsMember
<1>4. Len(containing) = 1 => containing[1] \in Project
  BY <1>2
<1>5. default \in Project \cup {NoProject}
  BY ServiceFields DEF Configured
<1>6. Inferred \in Project
  BY ProjectAssumption
<1>7. getDefaultProjectForScript(s, p) =
          IF Len(containing) = 1
          THEN IF s.projects[containing[1]].deferredClose THEN NoProject ELSE containing[1]
          ELSE IF default # NoProject THEN default
          ELSE IF candidates # {} THEN containing[Min(candidates)]
          ELSE IF Contains(containing, Inferred) THEN Inferred
          ELSE NoProject
  BY DEF getDefaultProjectForScript
<1> HIDE DEF containing, candidates, default
<1> QED
  BY <1>2, <1>3, <1>4, <1>5, <1>6, <1>7

-----------------------------------------------------------------------------
(* Opening a file.                                                         *)

CanCreate(s) ==
    Usable(s, s.configured) \/ \E Q \in Configured : ~s.projects[Q].exists

\* createOrReloadConfiguredProject, where there is a config file.
LEMMA CreatingOrReloading ==
    ASSUME WorldOK, config # NoConfig, NEW s, NEW T, Fine(s, T), CanCreate(s)
    PROVE  /\ Fine(createOrReloadConfiguredProject(s), T)
           /\ \E P : Grows(s, createOrReloadConfiguredProject(s), P)
<1> DEFINE P == IF Usable(s, s.configured) THEN s.configured
                ELSE CHOOSE Q \in Configured : ~s.projects[Q].exists
           y == [s.projects[P] EXCEPT !.exists = TRUE]
           b == [s EXCEPT !.projects[P] = y]
           n == [s EXCEPT !.projects[P] = y, !.configured = P]
           r == IF P = s.configured THEN s ELSE n
           l == loadConfig(r, P)
           x == markAsDirty(l.projects[P])
           g == [l EXCEPT !.projects[P] = x]
<1>0. s \in Service /\ s.panic = "none" /\ Grows(s, s, NoProject)
  BY GrowingIsReflexive DEF Fine
<1>1. createOrReloadConfiguredProject(s) = g
  BY DEF createOrReloadConfiguredProject
<1>2. P \in Configured
  BY <1>0, ServiceFields DEF CanCreate, Usable
<1>3. P \in Project /\ P # Inferred
  BY <1>2 DEF Configured
<1> HIDE DEF P
<1>4. s.projects[P] \in ProjectState
  BY <1>0, <1>3, ServiceFields
<1>5. Remarks(P, s.projects[P], y)
  <2>1. /\ y \in ProjectState /\ y.program = s.projects[P].program
        /\ y.dirty = s.projects[P].dirty /\ y.dirtyFilePath = s.projects[P].dirtyFilePath
        /\ y.pendingReload = s.projects[P].pendingReload
        /\ y.rootFiles = s.projects[P].rootFiles
    BY <1>4, Zenon DEF ProjectState
  <2> HIDE DEF y
  <2> QED
    BY <2>1 DEF Remarks
<1>6. Fine(n, T) /\ Grows(s, n, NoProject)
  <2>0. y \in ProjectState
    BY <1>5 DEF Remarks
  <2> HIDE DEF y
  <2>1. n \in Service /\ n.infos = s.infos /\ n.versions = s.versions
        /\ n.openFiles = s.openFiles /\ n.panic = s.panic /\ n.projects[P] = y
        /\ \A Q \in Project : Q # P => n.projects[Q] = s.projects[Q]
    <3> DEFINE t == [s.projects EXCEPT ![P] = y]
               c == [s EXCEPT !.projects = t, !.configured = P]
    <3>1. n = c
      BY Zenon
    <3>2. /\ t \in [Project -> ProjectState] /\ t[P] = y
          /\ \A Q \in Project : Q # P => t[Q] = s.projects[Q]
      BY <1>0, <1>3, <2>0, ServiceFields
    <3> HIDE DEF t, n
    <3>3. /\ c \in Service /\ c.infos = s.infos /\ c.versions = s.versions
          /\ c.openFiles = s.openFiles /\ c.panic = s.panic /\ c.projects = t
      BY <1>0, <1>2, <3>2, Zenon DEF Service
    <3> HIDE DEF c
    <3> QED
      BY <3>1, <3>2, <3>3
  <2> HIDE DEF n
  <2>2. \A Q \in Project : Remarks(Q, s.projects[Q], n.projects[Q])
    <3>1. ASSUME NEW Q \in Project, Q # P
          PROVE  Remarks(Q, s.projects[Q], n.projects[Q])
      BY <1>0, <2>1, <3>1, ServiceFields DEF Remarks
    <3> QED
      BY <1>5, <2>1, <3>1
  <2> QED
    BY <2>1, <2>2, RemarkedIsFine
<1> HIDE DEF n
<1>7. Fine(r, T) /\ Grows(s, r, NoProject)
  BY <1>0, <1>6
<1> HIDE DEF r
<1>8. r \in Service /\ r.panic = "none"
  BY <1>7 DEF Fine
<1>9. Grows(r, l, P) /\ Others(r, l, P) /\ Refiled(r.projects[P], l.projects[P])
  BY <1>3, <1>8, LoadingConfig
<1> HIDE DEF l
<1>10. l \in Service /\ l.projects[P] \in ProjectState
  BY <1>9 DEF Grows, Refiled
<1>11. /\ x \in ProjectState /\ x.program = r.projects[P].program
       /\ x.dirty /\ x.dirtyFilePath = NoPath
  BY <1>9, <1>10, MarkedFields DEF Refiled
<1> HIDE DEF x
<1>12. /\ g \in Service /\ g.infos = l.infos /\ g.versions = l.versions
       /\ g.openFiles = l.openFiles /\ g.panic = l.panic /\ g.projects[P] = x
       /\ \A Q \in Project : Q # P => g.projects[Q] = l.projects[Q]
  BY <1>3, <1>10, <1>11, ProjectReplaced
<1> HIDE DEF g
<1>13. Grows(r, g, P)
  BY <1>8, <1>9, <1>12, ReplacingProjectsGrows
<1>14. Grows(s, g, P)
  <2>1. Grows(s, r, P)
    BY <1>0, <1>7, NoneLoses
  <2> QED
    BY <1>0, <1>13, <2>1, GrowingIsTransitive
<1>15. Shown(r) /\ T \subseteq Path /\ Sound(r, P, T)
  BY <1>3, <1>7 DEF Fine
<1>16. Shown(g) /\ T \subseteq Path
  BY <1>8, <1>13, <1>15, GrowingIsShown DEF Grows
<1>17. Sound(g, P, T)
  <2>1. DocsHeld(g, P)
    BY <1>3, <1>8, <1>11, <1>12, <1>13, <1>15, GrowingHoldsDocs DEF Sound
  <2>2. Marked(g, P) /\ RootsAttached(g, P)
    BY <1>3, <1>11, <1>12 DEF Marked, RootsAttached
  <2> QED
    BY <1>3, <2>1, <2>2, MarkedIsSound
<1>18. ASSUME NEW Q \in Project, Q # P
       PROVE  Sound(g, Q, T)
  <2>1. g.projects[Q] = r.projects[Q]
    BY <1>9, <1>12, <1>18 DEF Others
  <2> QED
    BY <1>7, <1>13, <1>18, <2>1, GrowingIsSound
<1>19. Fine(g, T)
  BY <1>8, <1>9, <1>12, <1>16, <1>17, <1>18 DEF Fine, Others
<1> QED
  BY <1>1, <1>14, <1>19 DEF g

\* A state in which the server has stopped for a known reason, or all is well and the open
\* files are as they were.
Settles(s, g, T) ==
    Panicked(g) \/ (Fine(g, T) /\ \E P : Grows(s, g, P))

\* assignProjectToOpenedScriptInfo.
LEMMA AssigningProject ==
    ASSUME WorldOK, NEW s, NEW T, Fine(s, T), NEW p \in s.openFiles, CanCreate(s)
    PROVE  Settles(s, assignProjectToOpenedScriptInfo(s, p), T)
<1> DEFINE r == IF HasConfigFile(p) THEN createOrReloadConfiguredProject(s) ELSE s
           q == updateContainingProjects(r, p)
           g == IF isOrphan(q, p) THEN assignOrphanScriptInfoToInferredProject(q, p) ELSE q
<1>0. s \in Service /\ Shown(s) /\ Grows(s, s, NoProject)
  BY GrowingIsReflexive DEF Fine
<1>1. Fine(r, T) /\ \E P : Grows(s, r, P)
  BY <1>0, CreatingOrReloading DEF HasConfigFile
<1>2. assignProjectToOpenedScriptInfo(s, p) = g
  BY DEF assignProjectToOpenedScriptInfo
<1> HIDE DEF r
<1>3. PICK P : Grows(s, r, P)
  BY <1>1
<1>4. /\ r \in Service /\ Shown(r) /\ p \in r.openFiles /\ p \in Path
  BY <1>0, <1>1, <1>3, ServiceFields DEF Fine, Grows
<1>5. Updates(r, q, T)
  BY <1>1, <1>4, UpdatingContainingProjects DEF Shown
<1> HIDE DEF q
<1>6. CASE Panicked(q)
  BY <1>2, <1>6, PanicIsAssigned DEF Settles
<1>7. CASE Fine(q, T) /\ Grows(r, q, NoProject)
  <2>1. q \in Service /\ p \in q.openFiles
    BY <1>4, <1>7 DEF Grows
  <2>2. Updates(q, g, T)
    <3>1. Updates(q, q, T)
      BY <1>7, <2>1, GrowingIsReflexive DEF Updates
    <3> QED
      BY <1>7, <2>1, <3>1, AssigningOrphans
  <2> HIDE DEF g
  <2>3. Updates(r, g, T)
    BY <1>4, <1>7, <2>2, UpdatesCompose
  <2>4. ASSUME Grows(r, g, NoProject)
        PROVE  Grows(s, g, P)
    <3>1. Grows(r, g, P)
      BY <1>4, <2>4, NoneLoses
    <3> QED
      BY <1>0, <1>3, <3>1, GrowingIsTransitive
  <2> QED
    BY <1>2, <2>3, <2>4 DEF Updates, Settles
<1> QED
  BY <1>5, <1>6, <1>7 DEF Updates

-----------------------------------------------------------------------------
(* One info changes.                                                       *)

\* Only the info of the file p and the set of open files change.
Changed(s, r, p) ==
    /\ r \in Service /\ r.panic = "none" /\ r.projects = s.projects
    /\ \A q \in Path : q # p => r.infos[q] = s.infos[q] /\ r.versions[q] = s.versions[q]
    /\ Shown(r)

\* A change of one info that keeps its projects, and brings a new version with a new text.
LEMMA ChangingInfo ==
    ASSUME NEW s, NEW T, Fine(s, T), NEW p \in Path, NEW r, Changed(s, r, p),
           NEW T2, T2 \subseteq T, T2 \subseteq Path,
           \A d \in Doc : Holds(s, p, d) => Holds(r, p, d),
           \A Q : Attached(s, Q, p) =>
                      /\ Attached(r, Q, p)
                      /\ ~s.infos[p].deferredDelete => ~r.infos[p].deferredDelete,
           p \in T2 => \A d : Current(s, p, d) => Current(r, p, d)
    PROVE  Fine(r, T2)
<1>1. s \in Service /\ T \subseteq Path
  BY ServiceFields DEF Fine
<1>0. /\ r \in Service /\ r.panic = "none" /\ r.projects = s.projects /\ Shown(r)
      /\ \A q \in Path : q # p => r.infos[q] = s.infos[q] /\ r.versions[q] = s.versions[q]
  BY DEF Changed
<1>2. ASSUME NEW P \in Project
      PROVE  Sound(r, P, T2)
  <2>1. /\ DocsHeld(s, P) /\ DocsAttached(s, P) /\ DirtyFile(s, P) /\ RootsAttached(s, P)
        /\ StaleMarked(s, P, T) /\ ReloadMarked(s, P)
    BY <1>2 DEF Fine, Sound
  <2>2. \A q \in Path : DocOf(r, P, q) = DocOf(s, P, q) /\ DocOf(s, P, q) \in Doc \cup {NoDoc}
    BY <1>0, <1>1, DocsAreTyped DEF DocOf
  <2>3. \A q \in Path : /\ Attached(s, P, q) => Attached(r, P, q)
                        /\ Listed(s, P, q) => Listed(r, P, q)
    BY <1>0 DEF Attached, Listed
  <2>4. DocsHeld(r, P)
    BY <1>0, <2>1, <2>2 DEF DocsHeld, Holds
  <2>5. DocsAttached(r, P)
    BY <1>0, <2>1, <2>2, <2>3 DEF DocsAttached, Marked
  <2>6. DirtyFile(r, P)
    <3>1. s.projects[P].dirtyFilePath \in Path \cup {NoPath}
      BY <1>1, ServiceFields, ProjectFields
    <3> QED
      BY <1>0, <2>1, <2>3, <3>1 DEF DirtyFile
  <2>7. ReloadMarked(r, P)
    BY <1>0, <2>1 DEF ReloadMarked, Marked
  <2>8. RootsAttached(r, P)
    <3>1. s.projects[P].rootFiles \subseteq Path
      BY <1>1, ServiceFields, ProjectFields
    <3> QED
      BY <1>0, <2>1, <2>3, <3>1 DEF RootsAttached
  <2>9. StaleMarked(r, P, T2)
    <3>1. ASSUME NEW q \in T2, DocOf(r, P, q) # NoDoc
          PROVE  \/ Current(r, q, DocOf(r, P, q))
                 \/ r.projects[P].dirty /\ r.projects[P].dirtyFilePath \in {NoPath, q}
      <4>1. q \in T /\ q \in Path /\ DocOf(r, P, q) = DocOf(s, P, q)
        BY <2>2, <3>1
      <4>2. \/ Current(s, q, DocOf(s, P, q))
            \/ s.projects[P].dirty /\ s.projects[P].dirtyFilePath \in {NoPath, q}
        BY <2>1, <3>1, <4>1 DEF StaleMarked
      <4>3. Current(s, q, DocOf(s, P, q)) => Current(r, q, DocOf(s, P, q))
        <5>1. CASE q = p
          BY <3>1, <5>1
        <5>2. CASE q # p
          BY <1>0, <4>1, <5>2 DEF Current
        <5> QED
          BY <5>1, <5>2
      <4> QED
        BY <1>0, <4>1, <4>2, <4>3
    <3> QED
      BY <3>1 DEF StaleMarked
  <2> QED
    BY <2>4, <2>5, <2>6, <2>7, <2>8, <2>9 DEF Sound
<1> QED
  BY <1>0, <1>2 DEF Fine

\* ... of an info that is there before and after.
LEMMA ChangingText ==
    ASSUME NEW s, NEW T, Fine(s, T), NEW p \in Path, s.infos[p] # NoInfo,
           NEW r, Changed(s, r, p), r.infos[p] # NoInfo,
           NEW T2, T2 \subseteq T, T2 \subseteq Path,
           r.infos[p].containingProjects = s.infos[p].containingProjects,
           ~s.infos[p].deferredDelete => ~r.infos[p].deferredDelete,
           \/ r.infos[p].version > s.infos[p].version /\ p \notin T2
           \/ /\ r.infos[p].version = s.infos[p].version /\ r.infos[p].text = s.infos[p].text
              /\ p \in T2 /\ Unread(r.infos[p], p) => Unread(s.infos[p], p)
    PROVE  Fine(r, T2)
<1>1. s.infos[p] \in Info /\ r.infos[p] \in Info
  BY ServiceFields DEF Fine, Changed
<1>2. s.infos[p].version \in Nat /\ r.infos[p].version \in Nat
  BY <1>1, InfoFields
<1>3. ASSUME NEW d \in Doc, Holds(s, p, d)
      PROVE  Holds(r, p, d)
  <2>1. d.version \in Nat
    BY DEF Doc
  <2>2. d.version <= s.infos[p].version
        /\ (d.version = s.infos[p].version => d.text = s.infos[p].text)
    BY <1>3 DEF Holds
  <2>3. /\ d.version <= r.infos[p].version
        /\ d.version = r.infos[p].version => d.text = r.infos[p].text
    BY <1>2, <2>1, <2>2
  <2> QED
    BY <2>3 DEF Holds
<1>4. \A Q : Attached(s, Q, p) => Attached(r, Q, p)
  BY DEF Attached, isAttached
<1>5. p \in T2 => \A d : Current(s, p, d) => Current(r, p, d)
  BY <1>2 DEF Current
<1> QED
  BY <1>3, <1>4, <1>5, ChangingInfo

-----------------------------------------------------------------------------
(* Infos that the editor writes.                                           *)

\* An info that is given its first text may have none yet.
AnyInfo ==
    [text : Text \cup {NoText}, version : Nat, isOpen : BOOLEAN,
     pendingReloadFromDisk : BOOLEAN, matchesDiskText : BOOLEAN, deferredDelete : BOOLEAN,
     containingProjects : {c \in Seq(Project) : IsInjective(c)}]

\* A file of the service may stand before OpenFile changes it.
LEMMA InfosAreAny ==
    Info \subseteq AnyInfo
BY DEF Info, AnyInfo

\* setText (scriptinfo.go:105) raises the version and changes nothing but text and version.
LEMMA SettingText ==
    ASSUME NEW i \in AnyInfo, NEW t \in Text
    PROVE  /\ setText(i, t) \in Info
           /\ setText(i, t).text = t /\ setText(i, t).version = i.version + 1
           /\ setText(i, t).isOpen = i.isOpen
           /\ setText(i, t).pendingReloadFromDisk = i.pendingReloadFromDisk
           /\ setText(i, t).matchesDiskText = i.matchesDiskText
           /\ setText(i, t).deferredDelete = i.deferredDelete
           /\ setText(i, t).containingProjects = i.containingProjects
<1> DEFINE v == i.version + 1
           lists == {c \in Seq(Project) : IsInjective(c)}
           j == [i EXCEPT !.text = t, !.version = v]
<1>1. v \in Nat
  BY DEF AnyInfo
<1>2. setText(i, t) = j
  BY DEF setText
<1> HIDE DEF v, lists
<1>3. /\ j \in [text : Text, version : Nat, isOpen : BOOLEAN, pendingReloadFromDisk : BOOLEAN,
                matchesDiskText : BOOLEAN, deferredDelete : BOOLEAN,
                containingProjects : lists]
      /\ j.text = t /\ j.version = v /\ j.isOpen = i.isOpen
      /\ j.pendingReloadFromDisk = i.pendingReloadFromDisk
      /\ j.matchesDiskText = i.matchesDiskText
      /\ j.deferredDelete = i.deferredDelete
      /\ j.containingProjects = i.containingProjects
  BY <1>1, Zenon DEF lists, AnyInfo
<1> QED
  BY <1>2, <1>3 DEF Info, v, lists

\* open: the info has the editor's text and is not to be reloaded.
LEMMA OpeningInfo ==
    ASSUME NEW i \in AnyInfo, NEW t \in Text
    PROVE  /\ open(i, t) \in Info
           /\ open(i, t).isOpen /\ ~open(i, t).pendingReloadFromDisk
           /\ open(i, t).text = t
           /\ open(i, t).deferredDelete = i.deferredDelete
           /\ open(i, t).containingProjects = i.containingProjects
           /\ \/ open(i, t).version = i.version /\ i.text = t
              \/ open(i, t).version = i.version + 1 /\ i.text # t
<1> DEFINE j == [i EXCEPT !.isOpen = TRUE, !.pendingReloadFromDisk = FALSE]
           k == setText(j, t)
           l == [k EXCEPT !.matchesDiskText = FALSE]
<1>1. /\ j \in AnyInfo /\ j.isOpen /\ ~j.pendingReloadFromDisk /\ j.text = i.text
      /\ j.version = i.version /\ j.deferredDelete = i.deferredDelete
      /\ j.containingProjects = i.containingProjects
  BY Zenon DEF AnyInfo
<1>2. open(i, t) = IF t = j.text THEN j ELSE l
  BY DEF open
<1>3. i.version \in Nat
  BY DEF AnyInfo
<1> HIDE DEF j
<1>4. CASE t = j.text
  <2>1. j \in Info
    BY <1>1, <1>4 DEF AnyInfo, Info
  <2> QED
    BY <1>1, <1>2, <1>4, <2>1
<1>5. CASE t # j.text
  <2>1. /\ k \in Info /\ k.text = t /\ k.version = j.version + 1 /\ k.isOpen = j.isOpen
        /\ k.pendingReloadFromDisk = j.pendingReloadFromDisk
        /\ k.deferredDelete = j.deferredDelete
        /\ k.containingProjects = j.containingProjects
    BY <1>1, SettingText
  <2> HIDE DEF k
  <2>2. /\ l \in Info /\ l.text = k.text /\ l.version = k.version /\ l.isOpen = k.isOpen
        /\ l.pendingReloadFromDisk = k.pendingReloadFromDisk
        /\ l.deferredDelete = k.deferredDelete
        /\ l.containingProjects = k.containingProjects
    BY <2>1, Zenon DEF Info
  <2> HIDE DEF l
  <2> QED
    BY <1>1, <1>2, <1>5, <2>1, <2>2
<1> QED
  BY <1>4, <1>5

\* A file that is no longer to be deleted differs in nothing else.
LEMMA Keeping ==
    ASSUME NEW i \in AnyInfo
    PROVE  /\ [i EXCEPT !.deferredDelete = FALSE] \in AnyInfo
           /\ ~[i EXCEPT !.deferredDelete = FALSE].deferredDelete
           /\ [i EXCEPT !.deferredDelete = FALSE].text = i.text
           /\ [i EXCEPT !.deferredDelete = FALSE].version = i.version
           /\ [i EXCEPT !.deferredDelete = FALSE].containingProjects = i.containingProjects
BY Zenon DEF AnyInfo

\* The info of a file before the editor opens it, and after.
Before(s, p) ==
    IF s.infos[p] = NoInfo THEN [NewScriptInfo EXCEPT !.version = FirstVersion(s, p, 0)]
    ELSE s.infos[p]

After(s, p, t) == open([Before(s, p) EXCEPT !.deferredDelete = FALSE], t)

\* What may be the info j of a file that had the info i.
IsOpened(s, p, t, i, j) ==
    /\ j \in Info /\ j.isOpen /\ ~j.pendingReloadFromDisk /\ ~j.deferredDelete
    /\ j.text = t
    /\ s.infos[p] = NoInfo =>
           /\ j.version # i.version
           /\ s.versions[p] # NoVersion => s.versions[p] < j.version
    /\ s.infos[p] # NoInfo =>
           /\ i = s.infos[p]
           /\ j.containingProjects = i.containingProjects
           /\ \/ j.version > i.version
              \/ j.version = i.version /\ j.text = i.text

\* What OpenFile (service.go:192) makes of a file: open, with the editor's text, not to be
\* read again or deleted; the version of a new file is one the path has not had.
LEMMA OpenedInfo ==
    ASSUME NEW s \in Service, NEW p \in Path, NEW t \in Text
    PROVE  IsOpened(s, p, t, Before(s, p), After(s, p, t))
<1> DEFINE i == Before(s, p)
           j == After(s, p, t)
           v == FirstVersion(s, p, 0)
           n == [NewScriptInfo EXCEPT !.version = v]
           k == [i EXCEPT !.deferredDelete = FALSE]
<1>1. v \in Nat /\ (s.versions[p] # NoVersion => s.versions[p] < v)
  BY FirstVersions
<1> HIDE DEF v
<1>2. /\ n \in AnyInfo /\ n.version = v /\ n.text = NoText
  <2>1. <<>> \in {c \in Seq(Project) : IsInjective(c)}
    BY DEF IsInjective
  <2>2. NewScriptInfo \in AnyInfo /\ NewScriptInfo.text = NoText
    BY <2>1 DEF NewScriptInfo, AnyInfo
  <2> QED
    BY <1>1, <2>2, Zenon DEF AnyInfo
<1>3. s.infos[p] # NoInfo => s.infos[p] \in Info
  BY ServiceFields
<1>4. Info \subseteq AnyInfo
  BY InfosAreAny
<1>5. i = IF s.infos[p] = NoInfo THEN n ELSE s.infos[p]
  BY DEF v, Before
<1> HIDE DEF n, i
<1>6. i \in AnyInfo
  BY <1>2, <1>3, <1>4, <1>5
<1>7. /\ k \in AnyInfo /\ ~k.deferredDelete /\ k.text = i.text /\ k.version = i.version
      /\ k.containingProjects = i.containingProjects
  BY <1>6, Keeping
<1> HIDE DEF k
<1>8. /\ j \in Info /\ j.isOpen /\ ~j.pendingReloadFromDisk /\ j.text = t
      /\ j.deferredDelete = k.deferredDelete /\ j.containingProjects = k.containingProjects
      /\ \/ j.version = k.version /\ k.text = t
         \/ j.version = k.version + 1 /\ k.text # t
  <2>1. j = open(k, t)
    BY DEF k, i, After
  <2> HIDE DEF j
  <2> QED
    BY <1>7, <2>1, OpeningInfo
<1> HIDE DEF j
<1>9. i.version \in Nat
  BY <1>6 DEF AnyInfo
<1>10. ASSUME s.infos[p] = NoInfo
       PROVE  j.version = v + 1
  <2>1. k.version = v /\ k.text = NoText
    BY <1>2, <1>5, <1>7, <1>10
  <2> QED
    BY <1>8, <2>1, InfoAssumption
<1>11. ASSUME s.infos[p] = NoInfo
       PROVE  /\ j.version # i.version
              /\ s.versions[p] # NoVersion => s.versions[p] < j.version
  <2>1. s.versions[p] \in Nat \cup {NoVersion}
    BY ServiceFields
  <2>2. j.version = v + 1 /\ i.version = v
    BY <1>2, <1>5, <1>10, <1>11
  <2> QED
    BY <1>1, <2>1, <2>2
<1> QED
  BY <1>5, <1>7, <1>8, <1>9, <1>11 DEF i, j, IsOpened

\* The state that the editor shows what it has in the open files.
Agrees(s, b) == \A p \in s.openFiles : s.infos[p].text = b[p]

\* Open files keep the texts of the buffers while a service grows.
LEMMA GrowingAgrees ==
    ASSUME NEW s, NEW r, NEW T, NEW P, NEW b, Fine(s, T), Grows(s, r, P), Agrees(s, b)
    PROVE  Agrees(r, b)
<1>1. s \in Service /\ Shown(s) /\ r.openFiles = s.openFiles
  BY DEF Fine, Grows
<1> QED
  BY <1>1, OpenFilesStay DEF Agrees

\* OpenFile, until the file gets a project.
Open(s, p, j) ==
    [s EXCEPT !.infos[p] = j, !.openFiles = @ \cup {p},
              !.versions[p] = IF s.infos[p] = NoInfo THEN NoVersion ELSE @]

Opened(s, T, b, p, t, j, r) ==
    /\ Fine(r, T \ {p})
    /\ j.version = Before(s, p).version => Fine(r, T)
    /\ r.openFiles = s.openFiles \cup {p}
    /\ r.infos[p] = j /\ j # NoInfo /\ ~j.deferredDelete
    /\ \A q \in Path : q # p => r.infos[q] = s.infos[q]
    /\ Agrees(r, [b EXCEPT ![p] = t])
    /\ r.projects = s.projects /\ r.configured = s.configured

\* OpenFile up to the choice of a project keeps the service fine and shows the buffers' texts.
LEMMA Opening ==
    ASSUME NEW s, NEW T, Fine(s, T), NEW p \in Path \ s.openFiles, NEW t \in Text,
           NEW j, j = After(s, p, t), NEW r, NEW b \in [Path -> Text \cup {NoText}],
           Agrees(s, b),
           r = Open(s, p, j)
    PROVE  Opened(s, T, b, p, t, j, r)
<1> DEFINE i == Before(s, p)
           infos == [s.infos EXCEPT ![p] = j]
           O == s.openFiles \cup {p}
           versions == [s.versions EXCEPT ![p] = IF s.infos[p] = NoInfo THEN NoVersion ELSE @]
           c == [s EXCEPT !.infos = infos, !.openFiles = O, !.versions = versions]
<1>0. /\ s \in Service /\ s.panic = "none" /\ Shown(s) /\ T \subseteq Path
      /\ s.openFiles \subseteq Path
  BY ServiceFields DEF Fine
<1>1. IsOpened(s, p, t, i, j) /\ p \in Path
  BY <1>0, OpenedInfo
<1>13. i = Before(s, p)
  OBVIOUS
<1> HIDE DEF i
<1>2. r = c
  BY Zenon DEF Open
<1>3. /\ infos \in [Path -> Info \cup {NoInfo}] /\ infos[p] = j
      /\ \A q \in Path : q # p => infos[q] = s.infos[q]
  BY <1>0, <1>1, ServiceFields DEF IsOpened
<1>4. /\ versions \in [Path -> Nat \cup {NoVersion}]
      /\ \A q \in Path : q # p => versions[q] = s.versions[q]
      /\ s.infos[p] # NoInfo => versions[p] = s.versions[p]
  BY <1>0, ServiceFields
<1>5. O \in SUBSET Path
  BY <1>0
<1> HIDE DEF infos, versions, O
<1>6. /\ c \in Service /\ c.infos = infos /\ c.openFiles = O /\ c.versions = versions
      /\ c.projects = s.projects /\ c.configured = s.configured /\ c.panic = s.panic
  BY <1>0, <1>3, <1>4, <1>5, Zenon DEF Service
<1> HIDE DEF c
<1>7. /\ r \in Service /\ r.infos = infos /\ r.openFiles = O /\ r.versions = versions
      /\ r.projects = s.projects /\ r.configured = s.configured /\ r.panic = "none"
  BY <1>0, <1>2, <1>6
<1>8. j # NoInfo
  BY <1>1, InfoFields DEF IsOpened
<1>9. Shown(r)
  BY <1>0, <1>1, <1>3, <1>7, <1>8 DEF Shown, O, IsOpened
<1>11. ASSUME NEW V, V \subseteq T, p \notin V \/ j.version = i.version
       PROVE  Fine(r, V)
  <2>0. Changed(s, r, p) /\ V \subseteq Path
    BY <1>0, <1>3, <1>4, <1>7, <1>9, <1>11 DEF Changed
  <2>1. CASE s.infos[p] # NoInfo
    <3>1. s.infos[p] \in Info /\ s.infos[p].version \in Nat /\ j.version \in Nat
      BY <1>0, <1>1, <2>1, ServiceFields, InfoFields DEF IsOpened
    <3>2. ~Unread(r.infos[p], p)
      BY <1>1, <1>3, <1>7 DEF IsOpened, Unread
    <3>3. \/ r.infos[p].version > s.infos[p].version /\ p \notin V
          \/ /\ r.infos[p].version = s.infos[p].version
             /\ r.infos[p].text = s.infos[p].text
             /\ p \in V /\ Unread(r.infos[p], p) => Unread(s.infos[p], p)
      BY <1>1, <1>3, <1>7, <1>11, <2>1, <3>1, <3>2 DEF IsOpened
    <3>4. r.infos[p].containingProjects = s.infos[p].containingProjects
      BY <1>1, <1>3, <1>7, <2>1 DEF IsOpened
    <3>5. r.infos[p] # NoInfo /\ ~r.infos[p].deferredDelete
      BY <1>1, <1>3, <1>7, <1>8 DEF IsOpened
    <3> QED
      BY <1>1, <1>11, <2>0, <2>1, <3>3, <3>4, <3>5, ChangingText
  <2>2. CASE s.infos[p] = NoInfo
    <3>1. \A Q : ~Attached(s, Q, p)
      BY <2>2 DEF Attached
    <3>2. p \notin V
      BY <1>1, <1>11, <2>2 DEF IsOpened
    <3>3. ASSUME NEW d \in Doc, Holds(s, p, d)
          PROVE  Holds(r, p, d)
      <4>1. d.version \in Nat /\ j.version \in Nat /\ s.versions[p] \in Nat \cup {NoVersion}
        BY <1>0, <1>1, InfoFields, ServiceFields DEF Doc, IsOpened
      <4>2. s.versions[p] # NoVersion /\ d.version <= s.versions[p]
        BY <2>2, <3>3 DEF Holds
      <4>3. d.version <= j.version /\ d.version # j.version
        BY <1>1, <2>2, <4>1, <4>2 DEF IsOpened
      <4> QED
        BY <1>3, <1>7, <1>8, <4>3 DEF Holds
    <3> QED
      BY <1>1, <1>11, <2>0, <3>1, <3>2, <3>3, ChangingInfo
  <2> QED
    BY <2>1, <2>2
<1>14. Fine(r, T \ {p}) /\ (j.version = i.version => Fine(r, T))
  BY <1>11
<1>12. Agrees(r, [b EXCEPT ![p] = t])
  BY <1>0, <1>1, <1>3, <1>7 DEF Agrees, O, IsOpened
<1> QED
  BY <1>1, <1>3, <1>7, <1>8, <1>12, <1>13, <1>14 DEF O, IsOpened, Opened

\* ChangeFile, until the projects of the file are marked.
Edit(s, p, t) == [s EXCEPT !.infos[p] = setText(@, t)]

Edited(s, T, b, p, t, r) ==
    /\ Fine(r, T \ {p})
    /\ r.openFiles = s.openFiles
    /\ r.infos[p] # NoInfo /\ ~r.infos[p].deferredDelete
    /\ \A q \in Path : q # p => r.infos[q] = s.infos[q]
    /\ Agrees(r, [b EXCEPT ![p] = t])

\* ChangeFile (service.go:205) up to the marks of the projects.
LEMMA Editing ==
    ASSUME NEW s, NEW T, Fine(s, T), NEW p \in s.openFiles, NEW t \in Text, NEW r,
           NEW b \in [Path -> Text \cup {NoText}], Agrees(s, b),
           r = Edit(s, p, t)
    PROVE  Edited(s, T, b, p, t, r)
<1> DEFINE j == setText(s.infos[p], t)
<1>0. /\ s \in Service /\ s.panic = "none" /\ Shown(s) /\ T \subseteq Path
      /\ s.openFiles \subseteq Path /\ p \in Path
  BY ServiceFields DEF Fine
<1>1. /\ s.infos[p] \in Info /\ s.infos[p] # NoInfo /\ s.infos[p].isOpen
      /\ ~s.infos[p].pendingReloadFromDisk /\ ~s.infos[p].deferredDelete
  BY <1>0, ServiceFields DEF Shown
<1>2. s.infos[p].version \in Nat
  BY <1>1, InfoFields
<1>3. /\ j \in Info /\ j.text = t /\ j.version = s.infos[p].version + 1 /\ j.isOpen
      /\ ~j.pendingReloadFromDisk /\ ~j.deferredDelete
      /\ j.containingProjects = s.infos[p].containingProjects
  BY <1>1, SettingText, InfosAreAny
<1> HIDE DEF j
<1>4. r = [s EXCEPT !.infos[p] = j]
  BY DEF j, Edit
<1>5. /\ r \in Service /\ r.infos[p] = j /\ r.versions = s.versions
      /\ r.openFiles = s.openFiles /\ r.panic = s.panic /\ r.projects = s.projects
      /\ \A q \in Path : q # p => r.infos[q] = s.infos[q]
  <2> DEFINE u == [s EXCEPT !.infos[p] = j]
  <2>1. /\ u \in Service /\ u.infos[p] = j /\ u.versions = s.versions
        /\ u.openFiles = s.openFiles /\ u.panic = s.panic /\ u.projects = s.projects
        /\ \A q \in Path : q # p => u.infos[q] = s.infos[q]
    BY <1>0, <1>3, InfoReplaced
  <2>2. r = u
    BY <1>4, Zenon
  <2> HIDE DEF u
  <2> QED
    BY <2>1, <2>2
<1>6. j # NoInfo
  BY <1>3, InfoFields
<1>7. Shown(r)
  BY <1>0, <1>3, <1>5, <1>6 DEF Shown
<1>8. r.infos[p].version > s.infos[p].version /\ p \notin T \ {p}
  BY <1>2, <1>3, <1>5
<1>9. Fine(r, T \ {p})
  <2>1. T \ {p} \subseteq T /\ T \ {p} \subseteq Path
    BY <1>0, <1>5
  <2>2. Changed(s, r, p)
    BY <1>0, <1>5, <1>7 DEF Changed
  <2>3. r.infos[p].containingProjects = s.infos[p].containingProjects /\ r.infos[p] # NoInfo
    BY <1>3, <1>5, <1>6
  <2>4. ~r.infos[p].deferredDelete
    BY <1>3, <1>5
  <2> QED
    BY <1>0, <1>1, <1>8, <2>1, <2>2, <2>3, <2>4, ChangingText
<1>10. Agrees(r, [b EXCEPT ![p] = t])
  BY <1>0, <1>3, <1>5 DEF Agrees
<1> QED
  BY <1>3, <1>5, <1>6, <1>9, <1>10 DEF Edited

-----------------------------------------------------------------------------
(* Closing a file.                                                         *)

\* close: the text stays, to be reloaded perhaps.
LEMMA ClosingInfo ==
    ASSUME NEW i \in Info, NEW p
    PROVE  /\ close(i, p) \in Info /\ ~close(i, p).isOpen
           /\ close(i, p).text = i.text /\ close(i, p).version = i.version
           /\ close(i, p).deferredDelete = i.deferredDelete
           /\ close(i, p).matchesDiskText = i.matchesDiskText
           /\ close(i, p).pendingReloadFromDisk
                <=> i.pendingReloadFromDisk \/ NeedsReload(i, p)
           /\ close(i, p).containingProjects = i.containingProjects
<1> DEFINE pending == i.pendingReloadFromDisk \/ NeedsReload(i, p)
           j == [i EXCEPT !.isOpen = FALSE, !.pendingReloadFromDisk = pending]
<1>1. close(i, p) = j
  BY DEF close
<1>2. pending \in BOOLEAN
  OBVIOUS
<1> HIDE DEF pending
<1>3. /\ j \in Info /\ ~j.isOpen /\ j.text = i.text /\ j.version = i.version
      /\ j.deferredDelete = i.deferredDelete /\ j.matchesDiskText = i.matchesDiskText
      /\ j.pendingReloadFromDisk = pending
      /\ j.containingProjects = i.containingProjects
  BY <1>2, Zenon DEF Info
<1> HIDE DEF j
<1> QED
  BY <1>1, <1>3 DEF pending

\* CloseFile, until the projects of the file are marked.
Close(s, p) == [s EXCEPT !.infos[p] = close(@, p), !.openFiles = @ \ {p}]

\* close (scriptinfo.go:97) keeps the service fine; the other open files keep their texts.
LEMMA Closing ==
    ASSUME NEW s, NEW T, Fine(s, T), NEW p \in s.openFiles, NEW r, NEW b, Agrees(s, b),
           r = Close(s, p)
    PROVE  /\ Fine(r, T \ {p})
           /\ ~NeedsReload(s.infos[p], p) => Fine(r, T)
           /\ r.openFiles = s.openFiles \ {p}
           /\ r.infos[p] = close(s.infos[p], p)
           /\ r.infos[p] # NoInfo /\ ~r.infos[p].deferredDelete
           /\ \A q \in Path : q # p => r.infos[q] = s.infos[q]
           /\ \A q \in r.openFiles : r.infos[q].text = b[q]
<1> DEFINE j == close(s.infos[p], p)
           infos == [s.infos EXCEPT ![p] = j]
           O == s.openFiles \ {p}
           c == [s EXCEPT !.infos = infos, !.openFiles = O]
<1>0. /\ s \in Service /\ s.panic = "none" /\ Shown(s) /\ T \subseteq Path
      /\ s.openFiles \subseteq Path /\ p \in Path
  BY ServiceFields DEF Fine
<1>1. /\ s.infos[p] \in Info /\ s.infos[p] # NoInfo /\ ~s.infos[p].deferredDelete
      /\ ~s.infos[p].pendingReloadFromDisk
  BY <1>0, ServiceFields DEF Shown
<1>2. /\ j \in Info /\ ~j.isOpen /\ j.text = s.infos[p].text
      /\ j.version = s.infos[p].version /\ j.deferredDelete = s.infos[p].deferredDelete
      /\ j.containingProjects = s.infos[p].containingProjects /\ j # NoInfo
      /\ j.pendingReloadFromDisk => NeedsReload(s.infos[p], p)
  BY <1>1, ClosingInfo, InfoFields
<1>3. r = c
  BY Zenon DEF Close
<1> HIDE DEF j
<1>4. /\ infos \in [Path -> Info \cup {NoInfo}] /\ infos[p] = j
      /\ \A q \in Path : q # p => infos[q] = s.infos[q]
  BY <1>0, <1>2, ServiceFields
<1>5. O \in SUBSET Path
  BY <1>0
<1> HIDE DEF infos, O
<1>6. /\ c \in Service /\ c.infos = infos /\ c.openFiles = O /\ c.versions = s.versions
      /\ c.projects = s.projects /\ c.panic = s.panic
  BY <1>0, <1>4, <1>5, Zenon DEF Service
<1> HIDE DEF c
<1>7. /\ r \in Service /\ r.infos = infos /\ r.openFiles = O /\ r.versions = s.versions
      /\ r.projects = s.projects /\ r.panic = "none"
  BY <1>0, <1>3, <1>6
<1>8. Shown(r)
  BY <1>0, <1>2, <1>4, <1>7 DEF Shown, O
<1>9. Changed(s, r, p)
  BY <1>4, <1>7, <1>8 DEF Changed
<1>10. r.infos[p] # NoInfo /\ ~r.infos[p].deferredDelete
       /\ r.infos[p].containingProjects = s.infos[p].containingProjects
       /\ r.infos[p].version = s.infos[p].version /\ r.infos[p].text = s.infos[p].text
  BY <1>1, <1>2, <1>4, <1>7
<1>11. ASSUME NEW V, V \subseteq T, p \notin V \/ ~NeedsReload(s.infos[p], p)
       PROVE  Fine(r, V)
  <2>1. p \in V => ~Unread(r.infos[p], p)
    BY <1>2, <1>4, <1>7, <1>11 DEF Unread
  <2>2. V \subseteq Path
    BY <1>0, <1>11
  <2> QED
    BY <1>0, <1>1, <1>9, <1>10, <1>11, <2>1, <2>2, ChangingText
<1>12. Fine(r, T \ {p}) /\ (~NeedsReload(s.infos[p], p) => Fine(r, T))
  BY <1>11
<1>13. \A q \in r.openFiles : r.infos[q].text = b[q]
  BY <1>0, <1>4, <1>7 DEF Agrees, O
<1>14. r.infos[p] = close(s.infos[p], p) /\ \A q \in Path : q # p => r.infos[q] = s.infos[q]
  BY <1>4, <1>7 DEF j
<1> QED
  BY <1>7, <1>10, <1>12, <1>13, <1>14 DEF O

\* The file is removed from the inferred project.
LEMMA RemovingRoot ==
    ASSUME NEW s, NEW T, Fine(s, T), NEW p \in Path, s.infos[p] # NoInfo, NEW d,
           d = [s EXCEPT !.projects[Inferred] = RemoveFile(@, Inferred, p),
                         !.infos[p] = detachFromProject(@, Inferred)]
    PROVE  Fine(d, T) /\ Grows(s, d, Inferred)
<1> DEFINE x == RemoveFile(s.projects[Inferred], Inferred, p)
           i == detachFromProject(s.infos[p], Inferred)
           a == [s EXCEPT !.projects[Inferred] = x]
           e == [a EXCEPT !.infos[p] = i]
           t == [s.projects EXCEPT ![Inferred] = x]
           u == [s.infos EXCEPT ![p] = i]
           c == [s EXCEPT !.projects = t, !.infos = u]
<1>0. /\ s \in Service /\ s.panic = "none" /\ Shown(s) /\ T \subseteq Path
      /\ Sound(s, Inferred, T) /\ Inferred \in Project
  BY ProjectAssumption DEF Fine
<1>1. s.projects[Inferred] \in ProjectState /\ s.infos[p] \in Info
  BY <1>0, ServiceFields
<1>2. s.projects[Inferred].pendingReload = "none"
  BY <1>0 DEF Sound, ReloadMarked
<1>3. /\ Remarks(Inferred, s.projects[Inferred], x) /\ x.dirty /\ x.dirtyFilePath = NoPath
      /\ p \notin x.rootFiles /\ x \in ProjectState
  <2>1. Remarks(Inferred, s.projects[Inferred], x)
    BY <1>1, <1>2, RemovingFile
  <2>2. x.dirty /\ x.dirtyFilePath = NoPath /\ p \notin x.rootFiles
    BY <1>1, <1>2, RemovingFile
  <2> HIDE DEF x
  <2> QED
    BY <2>1, <2>2 DEF Remarks
<1> HIDE DEF x
<1>4. Fine(a, T) /\ Grows(s, a, NoProject) /\ Grows(s, a, Inferred)
  <2>1. Fine(a, T) /\ Grows(s, a, NoProject)
    BY <1>0, <1>3, RemarkedOne
  <2> HIDE DEF a
  <2> QED
    BY <1>0, <2>1, NoneLoses
<1>5. a.projects[Inferred] = x /\ a.infos = s.infos /\ a.versions = s.versions
      /\ a.openFiles = s.openFiles /\ a.panic = "none"
  <2>1. s \in Service /\ x \in ProjectState /\ Inferred \in Project /\ s.panic = "none"
    BY <1>0, <1>3
  <2>2. a.projects[Inferred] = x /\ a.infos = s.infos /\ a.versions = s.versions
    BY <2>1, ProjectReplaced
  <2>3. a.openFiles = s.openFiles /\ a.panic = s.panic
    BY <2>1, ProjectReplaced
  <2> HIDE DEF a
  <2> QED
    BY <2>1, <2>2, <2>3
<1>6. /\ i \in Info /\ Follows(s.infos[p], i, p)
      /\ \A Q : isAttached(s.infos[p], Q) /\ Q # Inferred => isAttached(i, Q)
  BY <1>0, <1>1, Detaching
<1> HIDE DEF i
<1>7. /\ t \in [Project -> ProjectState] /\ u \in [Path -> Info \cup {NoInfo}]
      /\ \A q \in Path : q # p => u[q] = s.infos[q]
  BY <1>0, <1>3, <1>6, ServiceFields
<1>8. d = c /\ a = [s EXCEPT !.projects = t]
  BY Zenon DEF x, i
<1>9. e = [a EXCEPT !.infos = [a.infos EXCEPT ![p] = i]]
  BY Zenon
<1> HIDE DEF t, a
<1>10. a.projects = t
  BY <1>0, <1>7, <1>8, ProjectsReplaced
<1>11. u = [a.infos EXCEPT ![p] = i]
  BY <1>5
<1> HIDE DEF u
<1>12. a \in Service
  BY <1>4 DEF Fine
<1>13. e.infos = u
  BY <1>7, <1>9, <1>11, <1>12, Zenon DEF Service
<1>14. Grows(a, e, Inferred) /\ e.versions = a.versions /\ e.openFiles = a.openFiles
  BY <1>5, <1>6, <1>12, InfoFollows, InfoReplaced
<1> HIDE DEF e
<1>15. /\ c \in Service /\ c.infos = u /\ c.versions = s.versions
       /\ c.openFiles = s.openFiles /\ c.panic = s.panic /\ c.projects = t
  BY <1>0, <1>7, Zenon DEF Service
<1> HIDE DEF c
<1>16. /\ d \in Service /\ d.infos = u /\ d.versions = a.versions
       /\ d.openFiles = a.openFiles /\ d.panic = "none" /\ d.projects = a.projects
  BY <1>0, <1>5, <1>8, <1>10, <1>15
<1>17. Grows(a, d, Inferred)
  BY <1>12, <1>13, <1>14, <1>16, ReplacingProjectsGrows
<1>18. /\ Shown(a) /\ T \subseteq Path /\ Sound(a, Inferred, T)
  BY <1>0, <1>4 DEF Fine
<1>19. Shown(d)
  BY <1>12, <1>17, <1>18, GrowingIsShown
<1>20. Sound(d, Inferred, T)
  <2>1. DocsHeld(d, Inferred)
    BY <1>0, <1>12, <1>16, <1>17, <1>18, GrowingHoldsDocs DEF Sound
  <2>2. Marked(d, Inferred)
    BY <1>3, <1>5, <1>16 DEF Marked
  <2>3. d.projects[Inferred].pendingReload = "none"
    BY <1>16, <1>18 DEF Sound, ReloadMarked
  <2>4. RootsAttached(d, Inferred)
    <3>1. ASSUME NEW q \in x.rootFiles
          PROVE  Attached(d, Inferred, q)
      <4>1. q \in Path /\ q # p /\ Attached(a, Inferred, q)
        BY <1>3, <1>5, <1>18, ProjectFields DEF Sound, RootsAttached
      <4> QED
        BY <1>5, <1>7, <1>16, <4>1 DEF Attached
    <3> QED
      BY <1>5, <1>16, <3>1 DEF RootsAttached
  <2> QED
    BY <2>1, <2>2, <2>3, <2>4, MarkedIsSound
<1>21. \A Q \in Project : Q # Inferred => Sound(d, Q, T)
  BY <1>4, <1>16, <1>17, GrowingIsSound
<1>22. Fine(d, T)
  BY <1>16, <1>18, <1>19, <1>20, <1>21 DEF Fine
<1>23. Grows(s, d, Inferred)
  BY <1>0, <1>4, <1>17, GrowingIsTransitive
<1> QED
  BY <1>22, <1>23

-----------------------------------------------------------------------------
(* The end of an info.                                                     *)

\* An info that ends, or is detached from all its projects, once these are marked.
LEMMA DroppingInfo ==
    ASSUME NEW s, NEW T, Fine(s, T), NEW p \in Path \ s.openFiles, NEW r, Changed(s, r, p),
           r.openFiles = s.openFiles,
           \A d \in Doc : Holds(s, p, d) => Holds(r, p, d),
           \A P \in Project : Attached(s, P, p) =>
               Marked(s, P) /\ (P = Inferred => p \notin s.projects[P].rootFiles)
    PROVE  Fine(r, T \cup {p})
<1>1. s \in Service /\ T \cup {p} \subseteq Path /\ p \in Path /\ p # NoPath
  BY ServiceFields, ProjectAssumption DEF Fine
<1>0. /\ r \in Service /\ r.panic = "none" /\ r.projects = s.projects /\ Shown(r)
      /\ \A q \in Path : q # p => r.infos[q] = s.infos[q] /\ r.versions[q] = s.versions[q]
  BY DEF Changed
<1>2. ASSUME NEW P \in Project
      PROVE  Sound(r, P, T \cup {p})
  <2>1. /\ DocsHeld(s, P) /\ DocsAttached(s, P) /\ DirtyFile(s, P) /\ RootsAttached(s, P)
        /\ StaleMarked(s, P, T) /\ ReloadMarked(s, P)
    BY <1>2 DEF Fine, Sound
  <2>2. \A q \in Path : DocOf(r, P, q) = DocOf(s, P, q) /\ DocOf(s, P, q) \in Doc \cup {NoDoc}
    BY <1>0, <1>1, DocsAreTyped DEF DocOf
  <2>3. \A q \in Path \ {p} : /\ Attached(s, P, q) => Attached(r, P, q)
                              /\ Listed(s, P, q) => Listed(r, P, q)
    BY <1>0 DEF Attached, Listed
  <2>4. DocsHeld(r, P)
    BY <1>0, <2>1, <2>2 DEF DocsHeld, Holds
  <2>5. DocsAttached(r, P)
    <3>1. Listed(s, P, p) => Marked(s, P)
      BY DEF Listed
    <3> QED
      BY <1>0, <2>1, <2>2, <2>3, <3>1 DEF DocsAttached, Marked
  <2>6. DirtyFile(r, P)
    <3>1. s.projects[P].dirtyFilePath \in Path \cup {NoPath}
      BY <1>1, ServiceFields, ProjectFields
    <3>2. s.projects[P].dirtyFilePath # p
      BY <1>1, <2>1 DEF DirtyFile, Listed, Marked
    <3> QED
      BY <1>0, <2>1, <2>3, <3>1, <3>2 DEF DirtyFile
  <2>7. ReloadMarked(r, P)
    BY <1>0, <2>1 DEF ReloadMarked, Marked
  <2>8. RootsAttached(r, P)
    <3>1. s.projects[P].rootFiles \subseteq Path
      BY <1>1, ServiceFields, ProjectFields
    <3>2. P = Inferred => p \notin s.projects[P].rootFiles
      BY <2>1 DEF RootsAttached
    <3> QED
      BY <1>0, <2>1, <2>3, <3>1, <3>2 DEF RootsAttached
  <2>9. StaleMarked(r, P, T \cup {p})
    <3>1. ASSUME NEW q \in T \cup {p}, DocOf(r, P, q) # NoDoc
          PROVE  \/ Current(r, q, DocOf(r, P, q))
                 \/ r.projects[P].dirty /\ r.projects[P].dirtyFilePath \in {NoPath, q}
      <4>1. q \in Path /\ DocOf(r, P, q) = DocOf(s, P, q)
        BY <1>1, <2>2, <3>1
      <4>2. CASE q = p
        BY <1>0, <2>1, <3>1, <4>1, <4>2 DEF DocsAttached, Listed, Marked
      <4>3. CASE q # p
        BY <1>0, <2>1, <3>1, <4>1, <4>3 DEF StaleMarked, Current
      <4> QED
        BY <4>2, <4>3
    <3> QED
      BY <3>1 DEF StaleMarked
  <2> QED
    BY <2>4, <2>5, <2>6, <2>7, <2>8, <2>9 DEF Sound
<1> QED
  BY <1>0, <1>1, <1>2 DEF Fine

\* The projects of a file that is deleted list their files again.
Unlisted(s, p) ==
    [s EXCEPT !.projects = Override([P \in Range(s.infos[p].containingProjects) |->
                                         RemoveFile(s.projects[P], P, p)], @)]

\* handleDeletedFile (service.go:383) marks every project in the file's list and takes the
\* file from the inferred project's roots.
LEMMA RemovingEverywhere ==
    ASSUME NEW s, NEW T, Fine(s, T), NEW p \in Path, s.infos[p] # NoInfo, NEW r,
           r = Unlisted(s, p)
    PROVE  /\ Fine(r, T)
           /\ r.infos = s.infos /\ r.versions = s.versions /\ r.openFiles = s.openFiles
           /\ r.configured = s.configured
           /\ \A P \in Project : Attached(r, P, p) =>
                  Marked(r, P) /\ (P = Inferred => p \notin r.projects[P].rootFiles)
<1> DEFINE c == s.infos[p].containingProjects
           table == Override([P \in Range(c) |-> RemoveFile(s.projects[P], P, p)], s.projects)
           u == [s EXCEPT !.projects = table]
<1>0. s \in Service
  BY DEF Fine
<1>1. r = u
  BY Zenon DEF Unlisted
<1>2. s.infos[p] \in Info /\ s.projects \in [Project -> ProjectState]
  BY <1>0, ServiceFields
<1>3. table = [P \in Project |-> IF P \in Range(c) THEN RemoveFile(s.projects[P], P, p)
                                 ELSE s.projects[P]]
  BY <1>2, Overriding
<1>4. \A P : P \in Range(c) <=> isAttached(s.infos[p], P)
  BY <1>2, RangeIsAttached
<1> HIDE DEF c, table
<1>5. ASSUME NEW P \in Project
      PROVE  /\ Remarks(P, s.projects[P], RemoveFile(s.projects[P], P, p))
             /\ RemoveFile(s.projects[P], P, p) \in ProjectState
             /\ RemoveFile(s.projects[P], P, p).dirty
             /\ RemoveFile(s.projects[P], P, p).dirtyFilePath = NoPath
             /\ P = Inferred => p \notin RemoveFile(s.projects[P], P, p).rootFiles
  <2>1. P = Inferred => s.projects[P].pendingReload = "none"
    BY <1>5 DEF Fine, Sound, ReloadMarked
  <2>2. s.projects[P] \in ProjectState
    BY <1>2, <1>5
  <2>3. /\ Remarks(P, s.projects[P], RemoveFile(s.projects[P], P, p))
        /\ RemoveFile(s.projects[P], P, p).dirty
        /\ RemoveFile(s.projects[P], P, p).dirtyFilePath = NoPath
        /\ P = Inferred => p \notin RemoveFile(s.projects[P], P, p).rootFiles
    BY <2>1, <2>2, RemovingFile
  <2> QED
    BY <2>3 DEF Remarks
<1>6. table \in [Project -> ProjectState]
  BY <1>2, <1>3, <1>5
<1>7. /\ u \in Service /\ u.infos = s.infos /\ u.versions = s.versions
      /\ u.openFiles = s.openFiles /\ u.configured = s.configured /\ u.panic = s.panic
      /\ u.projects = table
  BY <1>0, <1>6, ProjectsReplaced
<1> HIDE DEF u
<1>8. \A P \in Project : Remarks(P, s.projects[P], u.projects[P])
  <2>1. ASSUME NEW P \in Project
        PROVE  Remarks(P, s.projects[P], s.projects[P])
    BY <1>2, <2>1 DEF Remarks
  <2> QED
    BY <1>3, <1>5, <1>7, <2>1
<1>9. Fine(u, T)
  BY <1>7, <1>8, RemarkedIsFine
<1>10. ASSUME NEW P \in Project, Attached(u, P, p)
       PROVE  Marked(u, P) /\ (P = Inferred => p \notin u.projects[P].rootFiles)
  <2>1. isAttached(s.infos[p], P)
    BY <1>7, <1>10 DEF Attached
  <2>2. u.projects[P] = RemoveFile(s.projects[P], P, p)
    BY <1>3, <1>4, <1>7, <1>10, <2>1
  <2> QED
    BY <1>5, <1>10, <2>2 DEF Marked
<1> QED
  BY <1>1, <1>7, <1>9, <1>10

\* An info that keeps its version and its text, but loses its projects, and is flagged.
LEMMA EmptiedInfo ==
    ASSUME NEW i \in Info, NEW j, j = [i EXCEPT !.containingProjects = <<>>]
    PROVE  j \in Info /\ j.isOpen = i.isOpen /\ j.version = i.version /\ j.text = i.text
<1> DEFINE lists == {c \in Seq(Project) : IsInjective(c)}
           empty == <<>>
<1>1. empty \in lists
  BY DEF IsInjective
<1> HIDE DEF empty, lists
<1>2. j = [i EXCEPT !.containingProjects = empty]
  BY DEF empty
<1> QED
  BY <1>1, <1>2, Zenon DEF Info, lists

\* A file that is to be read again and to be deleted differs in nothing else.
LEMMA FlaggedInfo ==
    ASSUME NEW i \in Info, NEW j,
           j = [i EXCEPT !.pendingReloadFromDisk = TRUE, !.deferredDelete = TRUE]
    PROVE  /\ j \in Info /\ j.isOpen = i.isOpen /\ j.version = i.version /\ j.text = i.text
           /\ j.pendingReloadFromDisk
BY Zenon DEF Info

\* handleDeletedFile.
LEMMA DeletingFile ==
    ASSUME NEW s, NEW T, Fine(s, T), NEW p \in Path \ s.openFiles, s.infos[p] # NoInfo,
           NEW deferred \in BOOLEAN
    PROVE  /\ Fine(handleDeletedFile(s, p, deferred), T \cup {p})
           /\ handleDeletedFile(s, p, deferred).openFiles = s.openFiles
           /\ \A q \in Path : q # p =>
                  handleDeletedFile(s, p, deferred).infos[q] = s.infos[q]
           /\ \/ handleDeletedFile(s, p, deferred).infos[p] = NoInfo
              \/ handleDeletedFile(s, p, deferred).infos[p].pendingReloadFromDisk
<1> DEFINE i == [s.infos[p] EXCEPT !.containingProjects = <<>>]
           j == [i EXCEPT !.pendingReloadFromDisk = TRUE, !.deferredDelete = TRUE]
           r == Unlisted(s, p)
           a == [r EXCEPT !.infos[p] = j]
           infos == [r.infos EXCEPT ![p] = NoInfo]
           versions == [r.versions EXCEPT ![p] = i.version]
           b == [r EXCEPT !.infos = infos, !.versions = versions]
           g == handleDeletedFile(s, p, deferred)
<1>0. s \in Service /\ Shown(s) /\ p \in Path
  BY DEF Fine
<1>1. s.infos[p] \in Info /\ ~s.infos[p].isOpen /\ s.infos[p].version \in Nat
  BY <1>0, ServiceFields, InfoFields DEF Shown
<1>2. i \in Info /\ ~i.isOpen /\ i.version = s.infos[p].version /\ i.text = s.infos[p].text
  BY <1>1, EmptiedInfo
<1>3. /\ Fine(r, T) /\ r.infos = s.infos /\ r.versions = s.versions
      /\ r.openFiles = s.openFiles
      /\ \A P \in Project : Attached(r, P, p) =>
             Marked(r, P) /\ (P = Inferred => p \notin r.projects[P].rootFiles)
  BY <1>0, RemovingEverywhere
<1>4. g = IF deferred THEN a ELSE [r EXCEPT !.infos[p] = NoInfo, !.versions[p] = i.version]
  BY <1>2, Zenon DEF handleDeletedFile, Unlisted
<1> HIDE DEF r, g
<1>5. [r EXCEPT !.infos[p] = NoInfo, !.versions[p] = i.version] = b
  BY Zenon
<1>6. /\ j \in Info /\ ~j.isOpen /\ j.version = s.infos[p].version
      /\ j.text = s.infos[p].text /\ j.pendingReloadFromDisk
  <2>1. /\ j \in Info /\ j.isOpen = i.isOpen /\ j.version = i.version /\ j.text = i.text
        /\ j.pendingReloadFromDisk
    <3>1. i \in Info
      BY <1>2
    <3> HIDE DEF i
    <3> QED
      BY <3>1, FlaggedInfo
  <2> HIDE DEF i, j
  <2> QED
    BY <1>2, <2>1
<1> HIDE DEF i, j
<1>7. r \in Service /\ r.panic = "none" /\ Shown(r)
  BY <1>3 DEF Fine
<1>8. CASE deferred
  <2>1. /\ a \in Service /\ a.infos[p] = j /\ a.versions = r.versions
        /\ a.openFiles = r.openFiles /\ a.panic = r.panic /\ a.projects = r.projects
        /\ \A q \in Path : q # p => a.infos[q] = r.infos[q]
    BY <1>6, <1>7, InfoReplaced
  <2> HIDE DEF a
  <2>2. Shown(a)
    BY <1>3, <1>6, <1>7, <2>1 DEF Shown
  <2>3. Changed(r, a, p)
    BY <1>7, <2>1, <2>2 DEF Changed
  <2>4. \A d \in Doc : Holds(r, p, d) => Holds(a, p, d)
    BY <1>3, <1>6, <2>1, InfoFields DEF Holds
  <2>5. Fine(a, T \cup {p})
    BY <1>3, <2>1, <2>3, <2>4, DroppingInfo
  <2> QED
    BY <1>3, <1>4, <1>6, <1>8, <2>1, <2>5 DEF g
<1>9. CASE ~deferred
  <2>1. /\ infos \in [Path -> Info \cup {NoInfo}] /\ infos[p] = NoInfo
        /\ \A q \in Path : q # p => infos[q] = s.infos[q]
    BY <1>3, <1>7, ServiceFields
  <2>2. /\ versions \in [Path -> Nat \cup {NoVersion}] /\ versions[p] = s.infos[p].version
        /\ \A q \in Path : q # p => versions[q] = s.versions[q]
    BY <1>1, <1>2, <1>3, <1>7, ServiceFields
  <2> HIDE DEF infos, versions
  <2>3. /\ b \in Service /\ b.infos = infos /\ b.versions = versions
        /\ b.openFiles = r.openFiles /\ b.panic = r.panic /\ b.projects = r.projects
    BY <1>7, <2>1, <2>2, Zenon DEF Service
  <2> HIDE DEF b
  <2>4. Shown(b)
    BY <1>3, <1>7, <2>1, <2>3 DEF Shown
  <2>5. Changed(r, b, p)
    BY <1>3, <1>7, <2>1, <2>2, <2>3, <2>4 DEF Changed
  <2>6. \A d \in Doc : Holds(r, p, d) => Holds(b, p, d)
    BY <1>1, <1>3, <2>1, <2>2, <2>3, InfoAssumption, InfoFields DEF Holds
  <2>7. Fine(b, T \cup {p})
    BY <1>3, <2>3, <2>5, <2>6, DroppingInfo
  <2> QED
    BY <1>3, <1>4, <1>5, <1>9, <2>1, <2>3, <2>7 DEF g
<1> QED
  BY <1>8, <1>9

-----------------------------------------------------------------------------
(* Closed files and the disk.                                              *)

\* What the server has of a file that is not open is to be read again where it may differ
\* from the disk.  The world w is what the disk has, and the paths with changes of which
\* the server is untold: not yet reported, or not watched.
Guarded(i, p, w) ==
    /\ i.deferredDelete => i.pendingReloadFromDisk
    /\ \/ i.pendingReloadFromDisk
       \/ i.matchesDiskText
       \/ i.text = w.disk[p]
       \/ w.disk[p] = NoText
       \/ p \in w.untold

Rereads(s, w) ==
    \A p \in Path \ s.openFiles : s.infos[p] # NoInfo => Guarded(s.infos[p], p, w)

\* The worlds w and v differ at the path p at most.
DifferAt(w, v, p) ==
    \A q \in Path : q # p => /\ v.disk[q] = w.disk[q]
                             /\ q \in w.untold => q \in v.untold

\* What the server does to an info by itself neither forgets a reload nor changes a text
\* that is not to be reloaded.
LEMMA FollowingIsGuarded ==
    ASSUME NEW i \in Info, NEW j \in Info, NEW p, Follows(i, j, p), NEW w, Guarded(i, p, w)
    PROVE  Guarded(j, p, w)
BY InfoFields DEF Follows, Unread, Guarded

\* Closed files go on being read again while a service grows.
LEMMA GrowingRereads ==
    ASSUME NEW s \in Service, NEW r, NEW P, Grows(s, r, P), NEW w, Rereads(s, w)
    PROVE  Rereads(r, w)
<1>1. r \in Service /\ r.openFiles = s.openFiles /\ \A p \in Path : Advances(s, r, p, P)
  BY DEF Grows
<1>2. ASSUME NEW p \in Path \ s.openFiles, r.infos[p] # NoInfo
      PROVE  Guarded(r.infos[p], p, w)
  <2>1. r.infos[p] \in Info /\ s.infos[p] \in Info \cup {NoInfo} /\ Advances(s, r, p, P)
    BY <1>1, <1>2, ServiceFields
  <2>2. CASE s.infos[p] # NoInfo
    <3>1. s.infos[p] \in Info /\ Follows(s.infos[p], r.infos[p], p) /\ Guarded(s.infos[p], p, w)
      BY <2>1, <2>2 DEF Advances, Rereads
    <3> QED
      BY <2>1, <3>1, FollowingIsGuarded
  <2>3. CASE s.infos[p] = NoInfo
    BY <1>2, <2>1, <2>3 DEF Advances, Guarded
  <2> QED
    BY <2>2, <2>3
<1> QED
  BY <1>1, <1>2 DEF Rereads

\* A handler, or the disk, that touches one file has to see to that file only.
LEMMA OthersAreReread ==
    ASSUME NEW s, NEW w, Rereads(s, w), NEW p, NEW v, DifferAt(w, v, p), NEW g,
           \A q \in Path : q # p => g.infos[q] = s.infos[q],
           \A q \in Path : q # p /\ q \in s.openFiles => q \in g.openFiles,
           p \in Path \ g.openFiles /\ g.infos[p] # NoInfo => Guarded(g.infos[p], p, v)
    PROVE  Rereads(g, v)
<1>1. ASSUME NEW q \in Path \ g.openFiles, g.infos[q] # NoInfo, q # p
      PROVE  Guarded(g.infos[q], q, v)
  <2>1. g.infos[q] = s.infos[q] /\ q \in Path \ s.openFiles
    BY <1>1
  <2>2. Guarded(s.infos[q], q, w)
    BY <1>1, <2>1 DEF Rereads
  <2>3. v.disk[q] = w.disk[q] /\ (q \in w.untold => q \in v.untold)
    BY <1>1 DEF DifferAt
  <2> QED
    BY <2>1, <2>2, <2>3 DEF Guarded
<1> QED
  BY <1>1 DEF Rereads

\* A file that is closed is read again, unless there is nothing to read or its text was
\* flagged as that of the disk (close, scriptinfo.go:97).
LEMMA ClosedIsGuarded ==
    ASSUME NEW i \in Info, NEW p, NEW w, w.disk = disk, ~i.deferredDelete
    PROVE  Guarded(close(i, p), p, w)
<1> DEFINE j == close(i, p)
<1>1. /\ ~j.deferredDelete /\ (i.matchesDiskText => j.matchesDiskText)
      /\ i.pendingReloadFromDisk \/ NeedsReload(i, p) => j.pendingReloadFromDisk
  BY ClosingInfo
<1>2. NeedsReload(i, p) \/ w.disk[p] = NoText \/ i.pendingReloadFromDisk \/ i.matchesDiskText
  BY DEF NeedsReload, Exists
<1> HIDE DEF j
<1>3. Guarded(j, p, w)
  BY <1>1, <1>2 DEF Guarded
<1> QED
  BY <1>3 DEF j

\* The state between two actions, as long as the server runs.
Sane(s, T, b, w) ==
    /\ Fine(s, T)
    /\ Agrees(s, b)
    /\ IsFiniteSet(s.openFiles)
    /\ Rereads(s, w)

Ends(g, O, T, b, w) == Panicked(g) \/ (Sane(g, T, b, w) /\ g.openFiles = O)

\* What is fine about some files is fine about fewer of them.
LEMMA FineForFewer ==
    ASSUME NEW s, NEW T, Fine(s, T), NEW U, U \subseteq T
    PROVE  Fine(s, U)
<1>1. \A P \in Project : StaleMarked(s, P, U)
  BY DEF Fine, Sound, StaleMarked
<1> QED
  BY <1>1 DEF Fine, Sound

\* The projects that have a file the service does not know, or is to delete, are marked.
LEMMA FineForTheDead ==
    ASSUME NEW s, NEW T, Fine(s, T), NEW p \in Path, ~Live(s, p)
    PROVE  Fine(s, T \cup {p})
<1>1. ASSUME NEW P \in Project
      PROVE  StaleMarked(s, P, T \cup {p})
  <2>1. StaleMarked(s, P, T) /\ DocsAttached(s, P)
    BY <1>1 DEF Fine, Sound
  <2>2. ~Listed(s, P, p)
    BY DEF Listed, Attached, Live
  <2> QED
    BY <2>1, <2>2 DEF StaleMarked, DocsAttached, Marked
<1>2. T \cup {p} \subseteq Path
  BY DEF Fine
<1> QED
  BY <1>1, <1>2 DEF Fine, Sound

\* The state as a handler leaves it that touches the closed file p only.
LEMMA ClosedFilesDoNotMatter ==
    ASSUME NEW s, NEW T, NEW w, NEW b, Sane(s, T, b, w), NEW p \in Path \ s.openFiles,
           NEW g, NEW U, Fine(g, U), g.openFiles = s.openFiles, NEW v, DifferAt(w, v, p),
           \A q \in Path : q # p => g.infos[q] = s.infos[q],
           g.infos[p] = NoInfo \/ g.infos[p].pendingReloadFromDisk
    PROVE  Sane(g, U, b, v)
<1>1. s.openFiles \subseteq Path /\ Rereads(s, w)
  BY ServiceFields DEF Sane, Fine
<1>2. g.infos[p] # NoInfo => Guarded(g.infos[p], p, v)
  BY DEF Guarded
<1>3. Rereads(g, v)
  BY <1>1, <1>2, OthersAreReread
<1> QED
  BY <1>1, <1>3 DEF Sane, Agrees

\* A world in which nothing but an open file, or one with a change of which the server is
\* untold, or one that is to be read again, is different.
LEMMA WorldChanges ==
    ASSUME NEW s, NEW T, NEW w, NEW b, Sane(s, T, b, w), NEW p, NEW v, DifferAt(w, v, p),
           \/ p \notin Path \ s.openFiles
           \/ s.infos[p] = NoInfo
           \/ s.infos[p].deferredDelete
           \/ p \in v.untold
    PROVE  Sane(s, T, b, v)
<1>1. Rereads(s, w)
  BY DEF Sane
<1>2. ASSUME p \in Path \ s.openFiles, s.infos[p] # NoInfo
      PROVE  Guarded(s.infos[p], p, v)
  <2>1. Guarded(s.infos[p], p, w)
    BY <1>1, <1>2 DEF Rereads
  <2> QED
    BY <1>2, <2>1 DEF Guarded
<1>3. Rereads(s, v)
  BY <1>1, <1>2, OthersAreReread
<1> QED
  BY <1>3 DEF Sane

\* handleDeletedFile and delayReload of a closed file.
LEMMA Delaying ==
    ASSUME NEW s, NEW T, NEW w, NEW b, Sane(s, T, b, w), NEW p \in Path \ s.openFiles,
           Live(s, p), NEW v, DifferAt(w, v, p)
    PROVE  Ends(delayReload(s, p), s.openFiles, T \cup {p}, b, v)
<1> DEFINE j == [s.infos[p] EXCEPT !.deferredDelete = FALSE, !.pendingReloadFromDisk = TRUE]
           r == [s EXCEPT !.infos[p] = j]
           g == markContainingProjectsAsDirty(r, p)
<1>0. /\ Fine(s, T) /\ s \in Service /\ s.panic = "none" /\ Shown(s) /\ T \subseteq Path
      /\ p \in Path /\ s.infos[p] # NoInfo /\ ~s.infos[p].deferredDelete
  BY DEF Sane, Fine, Live
<1>1. s.infos[p] \in Info /\ ~s.infos[p].isOpen
  BY <1>0, ServiceFields DEF Shown
<1>2. /\ j \in Info /\ ~j.isOpen /\ ~j.deferredDelete /\ j.version = s.infos[p].version
      /\ j.text = s.infos[p].text /\ j.containingProjects = s.infos[p].containingProjects
      /\ j.pendingReloadFromDisk
  BY <1>1, Zenon DEF Info
<1>3. delayReload(s, p) = g
  BY Zenon DEF delayReload
<1> HIDE DEF j
<1>4. j # NoInfo
  BY <1>2, InfoFields
<1>5. /\ r \in Service /\ r.infos[p] = j /\ r.versions = s.versions
      /\ r.openFiles = s.openFiles /\ r.panic = s.panic /\ r.projects = s.projects
      /\ \A q \in Path : q # p => r.infos[q] = s.infos[q]
  BY <1>0, <1>2, InfoReplaced
<1> HIDE DEF r
<1>6. Shown(r)
  BY <1>0, <1>2, <1>5 DEF Shown
<1>7. Changed(s, r, p)
  BY <1>0, <1>5, <1>6 DEF Changed
<1>8. /\ T \ {p} \subseteq T /\ T \ {p} \subseteq Path /\ T \cup {p} \subseteq Path
      /\ p \notin T \ {p}
  BY <1>0, <1>5
<1>9. /\ r.infos[p].version = s.infos[p].version /\ r.infos[p].text = s.infos[p].text
      /\ r.infos[p].containingProjects = s.infos[p].containingProjects
      /\ r.infos[p] # NoInfo /\ ~r.infos[p].deferredDelete
  BY <1>2, <1>4, <1>5
<1>10. Fine(r, T \ {p})
  BY <1>0, <1>7, <1>8, <1>9, ChangingText
<1>11. Fine(g, T \cup {p})
  <2>1. (T \cup {p}) \ {p} = T \ {p}
    OBVIOUS
  <2> QED
    BY <1>0, <1>8, <1>9, <1>10, <2>1, MarkingIsFine
<1>12. g.openFiles = s.openFiles /\ g.infos = r.infos
  BY <1>0, <1>5, <1>9, MarkingContaining
<1> HIDE DEF g
<1> QED
  BY <1>2, <1>3, <1>5, <1>11, <1>12, ClosedFilesDoNotMatter DEF Ends

\* handleDeletedFile (service.go:383) keeps what the invariant says of a running service.
LEMMA Deleting ==
    ASSUME NEW s, NEW T, NEW w, NEW b, Sane(s, T, b, w), NEW p \in Path \ s.openFiles,
           s.infos[p] # NoInfo, NEW deferred \in BOOLEAN, NEW v, DifferAt(w, v, p)
    PROVE  /\ Sane(handleDeletedFile(s, p, deferred), T \cup {p}, b, v)
           /\ handleDeletedFile(s, p, deferred).openFiles = s.openFiles
<1>1. Fine(s, T)
  BY DEF Sane
<1>2. /\ Fine(handleDeletedFile(s, p, deferred), T \cup {p})
      /\ handleDeletedFile(s, p, deferred).openFiles = s.openFiles
      /\ \A q \in Path : q # p => handleDeletedFile(s, p, deferred).infos[q] = s.infos[q]
      /\ \/ handleDeletedFile(s, p, deferred).infos[p] = NoInfo
         \/ handleDeletedFile(s, p, deferred).infos[p].pendingReloadFromDisk
  BY <1>1, DeletingFile
<1> QED
  BY <1>2, ClosedFilesDoNotMatter

\* What CloseFile does to the service, step by step.
AskedAgain(s, p, r) ==
    IF NeedsReload(s.infos[p], p) THEN markContainingProjectsAsDirty(r, p) ELSE r

Unrooted(q, p, root) ==
    IF root THEN [q EXCEPT !.projects[Inferred] = RemoveFile(@, Inferred, p),
                           !.infos[p] = detachFromProject(@, Inferred)]
    ELSE q

Forgotten(d, p, panics) ==
    IF panics THEN Panic(d, "nil project in CloseFile")
    ELSE IF Exists(p) THEN d ELSE handleDeletedFile(d, p, FALSE)

\* The steps of CloseFile (service.go:231), one after the other, end in a panic or in a
\* service with what the invariant says of it.
LEMMA ClosingFile ==
    ASSUME NEW s, NEW T, NEW w, NEW b \in [Path -> Text \cup {NoText}], Sane(s, T, b, w),
           NEW p \in s.openFiles, NEW r, NEW q, NEW root \in BOOLEAN, NEW d, NEW g,
           NEW panics \in BOOLEAN, w.disk = disk,
           r = Close(s, p), q = AskedAgain(s, p, r), d = Unrooted(q, p, root),
           g = Forgotten(d, p, panics)
    PROVE  Ends(g, s.openFiles \ {p}, T, [b EXCEPT ![p] = NoText], w)
<1> DEFINE a == [b EXCEPT ![p] = NoText]
<1>0. /\ Fine(s, T) /\ Agrees(s, b) /\ IsFiniteSet(s.openFiles) /\ s.openFiles \subseteq Path
      /\ p \in Path /\ T \subseteq Path
  BY ServiceFields DEF Sane, Fine
<1>1. /\ Fine(r, T \ {p}) /\ r.openFiles = s.openFiles \ {p}
      /\ ~NeedsReload(s.infos[p], p) => Fine(r, T)
      /\ r.infos[p] # NoInfo /\ ~r.infos[p].deferredDelete
      /\ r.infos[p] = close(s.infos[p], p)
      /\ \A x \in Path : x # p => r.infos[x] = s.infos[x]
      /\ \A x \in r.openFiles : r.infos[x].text = b[x]
  <2> HIDE DEF a
  <2> QED
    BY <1>0, Closing
<1>2. /\ Agrees(r, a) /\ p \notin r.openFiles /\ IsFiniteSet(r.openFiles)
      /\ Rereads(r, w)
  <2>1. IsFiniteSet(s.openFiles \ {p})
    BY <1>0, FS_RemoveElement
  <2>2. s.infos[p] \in Info /\ ~s.infos[p].deferredDelete
    BY <1>0, ServiceFields DEF Fine, Shown
  <2>3. Guarded(r.infos[p], p, w)
    BY <1>1, <2>2, ClosedIsGuarded
  <2>4. Rereads(r, w)
    <3>1. Rereads(s, w) /\ DifferAt(w, w, p)
      BY DEF Sane, DifferAt
    <3>2. \A x \in Path : x # p /\ x \in s.openFiles => x \in r.openFiles
      BY <1>1
    <3> QED
      BY <1>1, <2>3, <3>1, <3>2, OthersAreReread
  <2> QED
    BY <1>0, <1>1, <2>1, <2>4 DEF Agrees
<1> HIDE DEF a
<1>4. /\ Fine(q, T) /\ q.openFiles = r.openFiles /\ q.infos = r.infos
  <2>1. CASE NeedsReload(s.infos[p], p)
    <3>1. q = markContainingProjectsAsDirty(r, p)
      BY <2>1 DEF AskedAgain
    <3>2. Fine(q, T)
      BY <1>0, <1>1, <3>1, MarkingIsFine
    <3>3. r \in Service
      BY <1>1 DEF Fine
    <3> QED
      BY <1>0, <1>1, <3>1, <3>2, <3>3, MarkingContaining
  <2>2. CASE ~NeedsReload(s.infos[p], p)
    BY <1>1, <2>2 DEF AskedAgain
  <2> QED
    BY <2>1, <2>2
<1>5. Agrees(q, a) /\ Rereads(q, w)
  BY <1>2, <1>4 DEF Agrees, Rereads
<1>6. /\ Fine(d, T) /\ d.openFiles = r.openFiles /\ d.infos[p] # NoInfo /\ Agrees(d, a)
      /\ Rereads(d, w)
  <2>1. CASE root
    <3>1. q.infos[p] # NoInfo
      BY <1>1, <1>4
    <3>2. Fine(d, T) /\ Grows(q, d, Inferred)
      BY <1>0, <1>4, <2>1, <3>1, RemovingRoot DEF Unrooted
    <3>3. Agrees(d, a)
      BY <1>4, <1>5, <3>2, GrowingAgrees
    <3>4. d.infos[p] # NoInfo /\ d.openFiles = q.openFiles
      BY <1>0, <3>1, <3>2 DEF Grows, Advances
    <3>5. Rereads(d, w)
      BY <1>4, <1>5, <3>2, GrowingRereads DEF Fine
    <3> QED
      BY <1>4, <3>2, <3>3, <3>4, <3>5
  <2>2. CASE ~root
    BY <1>1, <1>4, <1>5, <2>2 DEF Unrooted
  <2> QED
    BY <2>1, <2>2
<1>7. Sane(d, T, a, w) /\ p \in Path \ d.openFiles
  BY <1>0, <1>2, <1>6 DEF Sane
<1>8. Panicked(Panic(d, "nil project in CloseFile"))
  <2>1. d \in Service /\ d.panic = "none"
    BY <1>6 DEF Fine
  <2>2. "nil project in CloseFile" \in Panics
    BY DEF Panics
  <2> QED
    BY <2>1, <2>2, Panicking
<1>9. /\ Sane(handleDeletedFile(d, p, FALSE), T, a, w)
      /\ handleDeletedFile(d, p, FALSE).openFiles = d.openFiles
  <2>1. DifferAt(w, w, p)
    BY DEF DifferAt
  <2> DEFINE h == handleDeletedFile(d, p, FALSE)
  <2>2. Sane(h, T \cup {p}, a, w) /\ h.openFiles = d.openFiles
    <3>1. ASSUME NEW deferred \in BOOLEAN
          PROVE  /\ Sane(handleDeletedFile(d, p, deferred), T \cup {p}, a, w)
                 /\ handleDeletedFile(d, p, deferred).openFiles = d.openFiles
      BY <1>6, <1>7, <2>1, Deleting
    <3> QED
      BY <3>1
  <2> HIDE DEF h
  <2>3. Fine(h, T)
    <3>1. Fine(h, T \cup {p}) /\ T \subseteq T \cup {p}
      BY <2>2 DEF Sane
    <3> QED
      BY <3>1, FineForFewer
  <2> QED
    BY <2>2, <2>3 DEF Sane, h
<1> QED
  BY <1>1, <1>6, <1>7, <1>8, <1>9 DEF Ends, Forgotten, a

\* A service that grows and is fine keeps what the invariant says of it.
LEMMA GrowingIsSane ==
    ASSUME NEW s, NEW T, NEW w, NEW b, Sane(s, T, b, w), NEW r, NEW P, Fine(r, T),
           Grows(s, r, P)
    PROVE  Sane(r, T, b, w)
<1>1. Fine(s, T) /\ Agrees(s, b) /\ IsFiniteSet(s.openFiles) /\ r.openFiles = s.openFiles
  BY DEF Sane, Grows
<1>2. Agrees(r, b)
  BY <1>1, GrowingAgrees
<1>3. Rereads(r, w)
  BY GrowingRereads DEF Sane, Fine
<1> QED
  BY <1>1, <1>2, <1>3 DEF Sane

\* onConfigFileChanged.
LEMMA ChangingConfig ==
    ASSUME NEW s, NEW T, NEW w, NEW b, Sane(s, T, b, w), s.configured # NoProject, NEW kind
    PROVE  Ends(onConfigFileChanged(s, s.configured, kind), s.openFiles, T, b, w)
<1> DEFINE P == s.configured
           x == s.projects[P]
           y == [x EXCEPT !.deferredClose = FALSE]
           z == [x EXCEPT !.deferredClose = TRUE]
           r == IF kind = "created" THEN [s EXCEPT !.projects[P] = y]
                ELSE IF kind = "deleted" THEN [s EXCEPT !.projects[P] = z]
                ELSE s
           v == markAsDirty([r.projects[P] EXCEPT !.pendingReload = "full"])
<1>0. s \in Service /\ P \in Configured /\ x \in ProjectState
  BY ServiceFields DEF Sane, Fine, Configured
<1>1. P \in Project /\ P # Inferred
  BY <1>0 DEF Configured
<1>2. onConfigFileChanged(s, P, kind) = IF r.projects[P].deferredClose THEN r
                                        ELSE [r EXCEPT !.projects[P] = v]
  BY Zenon DEF onConfigFileChanged
<1> HIDE DEF v, P
<1>3. /\ y \in ProjectState /\ y.program = x.program /\ y.dirty = x.dirty
      /\ y.dirtyFilePath = x.dirtyFilePath /\ y.pendingReload = x.pendingReload
      /\ y.rootFiles = x.rootFiles
  BY <1>0, Zenon DEF ProjectState
<1>4. /\ z \in ProjectState /\ z.program = x.program /\ z.dirty = x.dirty
      /\ z.dirtyFilePath = x.dirtyFilePath /\ z.pendingReload = x.pendingReload
      /\ z.rootFiles = x.rootFiles
  BY <1>0, Zenon DEF ProjectState
<1>5. Remarks(P, x, y) /\ Remarks(P, x, z)
  <2> HIDE DEF x, y, z
  <2> QED
    BY <1>3, <1>4 DEF Remarks
<1> HIDE DEF y, z
<1>6. /\ Fine([s EXCEPT !.projects[P] = y], T) /\ Grows(s, [s EXCEPT !.projects[P] = y], NoProject)
      /\ Fine([s EXCEPT !.projects[P] = z], T) /\ Grows(s, [s EXCEPT !.projects[P] = z], NoProject)
  BY <1>1, <1>5, RemarkedOne DEF Sane
<1>7. Fine(s, T) /\ Grows(s, s, NoProject)
  BY <1>0, GrowingIsReflexive DEF Sane
<1>8. Fine(r, T) /\ Grows(s, r, NoProject)
  BY <1>6, <1>7
<1> HIDE DEF r, x
<1>9. r.projects[P] \in ProjectState
  BY <1>1, <1>8, ServiceFields DEF Fine
<1>10. Remarks(P, r.projects[P], v)
  BY <1>1, <1>9, AskingForReload DEF v
<1>11. Sane(r, T, b, w) /\ r.openFiles = s.openFiles
  BY <1>8, GrowingIsSane DEF Grows
<1>12. Fine([r EXCEPT !.projects[P] = v], T) /\ Grows(r, [r EXCEPT !.projects[P] = v], NoProject)
  BY <1>1, <1>8, <1>10, RemarkedOne
<1>13. /\ Sane([r EXCEPT !.projects[P] = v], T, b, w)
       /\ [r EXCEPT !.projects[P] = v].openFiles = r.openFiles
  BY <1>11, <1>12, GrowingIsSane DEF Grows
<1> QED
  BY <1>2, <1>11, <1>13 DEF P, Ends

\* A watch event of a file the service does not know.
LEMMA WatchingNil ==
    ASSUME NEW s, NEW T, NEW w, NEW b, Sane(s, T, b, w), NEW p, NEW r,
           r = [s EXCEPT !.projects = Override([P \in Range(Projects(s)) |->
                    onWatchEventForNilScriptInfo(s.projects[P], P, p)], @)]
    PROVE  Ends(r, s.openFiles, T, b, w)
<1> DEFINE R == Range(Projects(s))
           table == Override([P \in R |->
                        onWatchEventForNilScriptInfo(s.projects[P], P, p)], s.projects)
           u == [s EXCEPT !.projects = table]
<1>0. s \in Service /\ Fine(s, T)
  BY DEF Sane, Fine
<1>1. r = u
  BY Zenon
<1>2. s.projects \in [Project -> ProjectState]
  BY <1>0, ServiceFields
<1> HIDE DEF R
<1>3. table = [P \in Project |->
                  IF P \in R THEN onWatchEventForNilScriptInfo(s.projects[P], P, p)
                  ELSE s.projects[P]]
  BY <1>2, Overriding
<1> HIDE DEF table
<1>4. ASSUME NEW P \in Project
      PROVE  Remarks(P, s.projects[P], table[P])
  <2>1. P = Inferred => s.projects[P].pendingReload = "none"
    BY <1>0, <1>4 DEF Fine, Sound, ReloadMarked
  <2>2. s.projects[P] \in ProjectState
    BY <1>2, <1>4
  <2>3. Remarks(P, s.projects[P], onWatchEventForNilScriptInfo(s.projects[P], P, p))
    BY <2>1, <2>2, WatchingNilInfo
  <2>4. Remarks(P, s.projects[P], s.projects[P])
    BY <2>2 DEF Remarks
  <2> QED
    BY <1>3, <1>4, <2>3, <2>4
<1>5. table \in [Project -> ProjectState]
  BY <1>3, <1>4 DEF Remarks
<1>6. /\ u \in Service /\ u.infos = s.infos /\ u.versions = s.versions
      /\ u.openFiles = s.openFiles /\ u.configured = s.configured /\ u.panic = s.panic
      /\ u.projects = table
  BY <1>0, <1>5, ProjectsReplaced
<1> HIDE DEF u
<1>7. Fine(u, T) /\ Grows(s, u, NoProject)
  BY <1>0, <1>4, <1>6, RemarkedIsFine
<1> QED
  BY <1>1, <1>6, <1>7, GrowingIsSane DEF Ends

\* MarkFileSaved finds the text it is given.
LEMMA Saving ==
    ASSUME NEW s, NEW T, NEW w, NEW b, Sane(s, T, b, w), NEW p \in s.openFiles
    PROVE  [s EXCEPT !.infos[p] = SetTextFromDisk(@, b[p])] = s
<1> DEFINE i == s.infos[p]
<1>0. s \in Service /\ s.infos \in [Path -> Info \cup {NoInfo}]
  BY ServiceFields DEF Sane, Fine
<1>1. SetTextFromDisk(i, b[p]) = i
  BY DEF Sane, Agrees, SetTextFromDisk
<1> HIDE DEF i
<1>2. [s.infos EXCEPT ![p] = i] = s.infos
  BY <1>0 DEF i
<1>3. [s EXCEPT !.infos = s.infos] = s
  BY <1>0 DEF Service
<1>4. [s EXCEPT !.infos[p] = SetTextFromDisk(@, b[p])]
        = [s EXCEPT !.infos = [s.infos EXCEPT ![p] = i]]
  <2> DEFINE j == SetTextFromDisk(s.infos[p], b[p])
  <2>1. [s EXCEPT !.infos[p] = SetTextFromDisk(@, b[p])]
          = [s EXCEPT !.infos = [s.infos EXCEPT ![p] = j]]
    BY Zenon
  <2>2. j = i
    BY <1>1 DEF i
  <2> HIDE DEF j
  <2> QED
    BY <2>1, <2>2
<1> QED
  BY <1>2, <1>3, <1>4

\* ChangeFile.
LEMMA ChangingFile ==
    ASSUME NEW s, NEW T, NEW w, NEW b \in [Path -> Text \cup {NoText}], Sane(s, T, b, w),
           NEW p \in s.openFiles, NEW t \in Text, NEW r,
           r = Edit(s, p, t)
    PROVE  Ends(markContainingProjectsAsDirty(r, p), s.openFiles, T \cup {p},
                [b EXCEPT ![p] = t], w)
<1> DEFINE g == markContainingProjectsAsDirty(r, p)
           U == T \cup {p}
<1>0. /\ Fine(s, T) /\ Agrees(s, b) /\ IsFiniteSet(s.openFiles)
      /\ p \in Path /\ U \subseteq Path
  BY ServiceFields DEF Sane, Fine
<1>1. /\ Fine(r, T \ {p}) /\ r.openFiles = s.openFiles
      /\ r.infos[p] # NoInfo /\ ~r.infos[p].deferredDelete
      /\ Agrees(r, [b EXCEPT ![p] = t])
      /\ \A x \in Path : x # p => r.infos[x] = s.infos[x]
  <2>1. Fine(s, T) /\ Agrees(s, b)
    BY <1>0
  <2>2. Edited(s, T, b, p, t, r)
    BY <2>1, Editing
  <2> QED
    BY <2>2 DEF Edited
<1>2. U \ {p} = T \ {p}
  OBVIOUS
<1> HIDE DEF U
<1>3. Fine(g, U)
  BY <1>0, <1>1, <1>2, MarkingIsFine
<1>4. g.infos = r.infos /\ g.openFiles = r.openFiles
  BY <1>0, <1>1, MarkingContaining DEF Fine
<1> HIDE DEF g
<1>5. Rereads(g, w)
  <2>1. Rereads(s, w) /\ DifferAt(w, w, p)
    BY DEF Sane, DifferAt
  <2> QED
    BY <1>1, <1>4, <2>1, OthersAreReread
<1> QED
  BY <1>0, <1>1, <1>3, <1>4, <1>5 DEF Ends, Sane, Agrees, g, U

\* OpenFile.
OpenedState(r, p, changed) == IF changed THEN markContainingProjectsAsDirty(r, p) ELSE r

\* The steps of OpenFile (service.go:192), one after the other, end in a panic or in a
\* service with what the invariant says of it.
LEMMA OpeningFile ==
    ASSUME WorldOK, NEW s, NEW T, NEW w, NEW b \in [Path -> Text \cup {NoText}],
           Sane(s, T, b, w), CanCreate(s), NEW p \in Path \ s.openFiles, NEW t \in Text,
           NEW j, j = After(s, p, t), NEW r, r = Open(s, p, j), NEW changed \in BOOLEAN,
           changed \/ j.version = Before(s, p).version,
           NEW q, q = OpenedState(r, p, changed), NEW U,
           U = IF changed THEN T \cup {p} ELSE T
    PROVE  Ends(assignProjectToOpenedScriptInfo(q, p), s.openFiles \cup {p}, U,
                [b EXCEPT ![p] = t], w)
<1> DEFINE a == [b EXCEPT ![p] = t]
           g == assignProjectToOpenedScriptInfo(q, p)
<1>0. /\ Fine(s, T) /\ Agrees(s, b) /\ IsFiniteSet(s.openFiles) /\ p \in Path
      /\ T \subseteq Path /\ s \in Service
  BY DEF Sane, Fine
<1>1. Opened(s, T, b, p, t, j, r)
  BY <1>0, Opening
<1>2. /\ Fine(r, T \ {p}) /\ (~changed => Fine(r, T)) /\ r.openFiles = s.openFiles \cup {p}
      /\ r.infos[p] = j /\ j # NoInfo /\ ~j.deferredDelete
      /\ Agrees(r, a)
      /\ r.projects = s.projects /\ r.configured = s.configured
      /\ \A x \in Path : x # p => r.infos[x] = s.infos[x]
  BY <1>1 DEF Opened
<1> HIDE DEF a
<1>3. r \in Service /\ U \subseteq Path /\ IsFiniteSet(r.openFiles)
  <2>1. IsFiniteSet(s.openFiles \cup {p})
    BY <1>0, FS_AddElement
  <2>2. r \in Service
    BY <1>2 DEF Fine
  <2> QED
    BY <1>0, <1>2, <2>1, <2>2
<1>4. ASSUME changed
      PROVE  Fine(q, U) /\ q.openFiles = r.openFiles /\ q.infos = r.infos /\ CanCreate(q)
  <2>1. q = markContainingProjectsAsDirty(r, p) /\ U \ {p} = T \ {p}
    BY <1>3, <1>4 DEF OpenedState
  <2>2. Fine(q, U)
    BY <1>0, <1>2, <1>3, <2>1, MarkingIsFine
  <2>3. /\ q.infos = r.infos /\ q.openFiles = r.openFiles /\ q.configured = r.configured
        /\ \A P \in Project : q.projects[P]
               = IF isAttached(r.infos[p], P) THEN MarkFileAsDirty(r.projects[P], p)
                 ELSE r.projects[P]
    BY <1>0, <1>2, <1>3, <2>1, MarkingContaining
  <2>4. \A P \in Project : /\ q.projects[P].exists = s.projects[P].exists
                           /\ q.projects[P].deferredClose = s.projects[P].deferredClose
    <3>1. ASSUME NEW P \in Project
          PROVE  /\ MarkFileAsDirty(s.projects[P], p).exists = s.projects[P].exists
                 /\ MarkFileAsDirty(s.projects[P], p).deferredClose
                      = s.projects[P].deferredClose
      BY <1>0, <3>1, MarkingFile, ServiceFields
    <3> QED
      BY <1>2, <2>3, <3>1
  <2>5. CanCreate(q)
    <3>1. s.configured \in Configured \cup {NoProject} /\ q.configured = s.configured
      BY <1>0, <1>2, <2>3, ServiceFields
    <3> QED
      BY <2>4, <3>1 DEF CanCreate, Usable, Configured
  <2> QED
    BY <2>2, <2>3, <2>5
<1>5. ASSUME ~changed
      PROVE  Fine(q, U) /\ q.openFiles = r.openFiles /\ q.infos = r.infos /\ CanCreate(q)
  <2>1. q = r /\ U = T
    BY <1>5 DEF OpenedState
  <2>2. CanCreate(q)
    BY <1>2, <2>1 DEF CanCreate, Usable
  <2> QED
    BY <1>2, <1>5, <2>1, <2>2
<1>6. Fine(q, U) /\ q.openFiles = r.openFiles /\ q.infos = r.infos /\ CanCreate(q)
  BY <1>4, <1>5
<1>7. Sane(q, U, a, w) /\ p \in q.openFiles
  <2>1. Rereads(s, w) /\ DifferAt(w, w, p)
    BY DEF Sane, DifferAt
  <2>2. Rereads(q, w)
    BY <1>2, <1>6, <2>1, OthersAreReread
  <2> QED
    BY <1>2, <1>3, <1>6, <2>2 DEF Sane, Agrees
<1>8. Settles(q, g, U)
  BY <1>6, <1>7, AssigningProject
<1> HIDE DEF g
<1>9. Ends(g, s.openFiles \cup {p}, U, a, w)
  <2>1. ASSUME Fine(g, U), NEW P, Grows(q, g, P)
        PROVE  Sane(g, U, a, w) /\ g.openFiles = q.openFiles
    BY <1>7, <2>1, GrowingIsSane DEF Grows
  <2> QED
    BY <1>2, <1>6, <1>8, <2>1 DEF Settles, Ends
<1> QED
  BY <1>9 DEF g, a

\* A request: the project that answers it is up to date.
Answered(r, O, P, T, b, w) ==
    /\ P = NoProject => Panicked(Panic(r, "no default project"))
    /\ P # NoProject => \/ Panicked(updateGraph(r, P))
                        \/ /\ Sane(updateGraph(r, P), T, b, w)
                           /\ P \in Project /\ updateGraph(r, P).openFiles = O
                           /\ ~updateGraph(r, P).projects[P].dirty

\* EnsureDefaultProjectForFile (service.go:258), with or without an update of all projects,
\* panics or answers with a project that is clean and fine.
LEMMA Ensuring ==
    ASSUME WorldOK, NEW s, NEW T, NEW w, NEW b, Sane(s, T, b, w), NEW p \in s.openFiles,
           NEW files \in SetToSeqs(s.openFiles),
           NEW direct, direct \in {NoProject, getDefaultProjectForScript(s, p)},
           NEW r, r = IF direct # NoProject THEN s ELSE ensureProjectStructureUpToDate(s, files),
           NEW P, P = IF direct # NoProject THEN direct ELSE getDefaultProjectForScript(r, p)
    PROVE  Answered(r, s.openFiles, P, T, b, w)
<1> DEFINE g == updateGraph(r, P)
<1>0. /\ Fine(s, T) /\ IsFiniteSet(s.openFiles) /\ s \in Service /\ p \in Path
      /\ s.infos[p] # NoInfo
  BY ServiceFields DEF Sane, Fine, Shown
<1>1. Updates(s, r, T)
  <2>1. Updates(s, s, T)
    BY <1>0, GrowingIsReflexive DEF Updates
  <2>2. Updates(s, ensureProjectStructureUpToDate(s, files), T)
    BY <1>0, EnsuringStructure
  <2> QED
    BY <2>1, <2>2
<1>2. CASE Panicked(r)
  BY <1>2, PanicStays DEF Answered
<1>3. CASE ~Panicked(r)
  <2>1. Fine(r, T) /\ Grows(s, r, NoProject)
    BY <1>1, <1>3 DEF Updates
  <2>2. r \in Service /\ r.panic = "none" /\ Shown(r) /\ r.openFiles = s.openFiles
    BY <2>1 DEF Fine, Grows
  <2>3. r.infos[p] # NoInfo
    BY <1>0, <2>2 DEF Shown
  <2>4. P \in Project \cup {NoProject}
    BY <1>0, <2>2, <2>3, DefaultIsProject
  <2>5. Panicked(Panic(r, "no default project"))
    <3>1. "no default project" \in Panics
      BY DEF Panics
    <3> QED
      BY <2>2, <3>1, Panicking
  <2>6. Sane(r, T, b, w)
    BY <2>1, GrowingIsSane
  <2>7. ASSUME P # NoProject, ~Panicked(g)
        PROVE  /\ Sane(g, T, b, w) /\ P \in Project /\ g.openFiles = s.openFiles
               /\ ~g.projects[P].dirty
    <3>1. P \in Project
      BY <2>4, <2>7
    <3>2. Updates(r, g, T) /\ (Panicked(g) \/ ~g.projects[P].dirty)
      BY <2>1, <3>1, UpdatingGraphs
    <3> HIDE DEF g
    <3>3. Fine(g, T) /\ Grows(r, g, NoProject)
      BY <2>7, <3>2 DEF Updates
    <3>4. g.openFiles = s.openFiles
      BY <2>2, <3>3 DEF Grows
    <3> QED
      BY <2>6, <2>7, <3>1, <3>2, <3>3, <3>4, GrowingIsSane
  <2> QED
    BY <2>5, <2>7 DEF Answered
<1> QED
  BY <1>2, <1>3

-----------------------------------------------------------------------------
(* The invariant.                                                          *)

Reports == Seq([path : Path \cup {Config}, kind : {"created", "changed", "deleted"}])

EnvironmentInv ==
    /\ WorldOK
    /\ buffer \in [Path -> Text \cup {NoText}]
    /\ reports \in Reports
    /\ unwatched \subseteq Path \cup {Config}
    /\ changes \in Nat

\* The disk, and the paths that changed and of which no report has arrived.
World == [disk |-> disk, untold |-> Untold]

\* The files of which the server has the text that there is to have: the editor gave it,
\* or every change on disk has been reported.
Followed == {p \in Path \ hurried : p \in service.openFiles \/ p \notin Untold}

\* The project that answered the last request is up to date until something happens.
AnswerInv ==
    answer # NoAnswer =>
        /\ answer \in [path : Path, project : Project]
        /\ answer.path \in service.openFiles
        /\ ~service.projects[answer.project].dirty

IInv ==
    /\ EnvironmentInv
    /\ hurried \subseteq Path
    /\ Running => Sane(service, Followed, buffer, World) /\ AnswerInv
    /\ ~Running => Panicked(service)

\* The invariant contains the types.
LEMMA InvariantTypes ==
    IInv => TypeOK
<1> SUFFICES ASSUME IInv PROVE TypeOK
  OBVIOUS
<1>1. Running => service \in Service
  BY DEF IInv, Sane, Fine
<1>2. Running => answer \in [path : Path, project : Project] \cup {NoAnswer}
  BY DEF IInv, AnswerInv
<1> QED
  BY <1>1, <1>2 DEF IInv, TypeOK, EnvironmentInv, WorldOK, DiskOK, Reports

\* What the invariant says of the service between two actions.
LEMMA RunningIsSane ==
    ASSUME IInv, Running
    PROVE  /\ Sane(service, Followed, buffer, World) /\ WorldOK
           /\ buffer \in [Path -> Text \cup {NoText}]
           /\ service.openFiles \subseteq Path /\ service \in Service
           /\ World.disk = disk
BY ServiceFields DEF World, IInv, EnvironmentInv, Sane, Fine

\* A change on disk of files of which nothing is pending makes no program stale.
LEMMA DiskChanges ==
    ASSUME NEW T, Fine(service', T), Followed' \subseteq T,
           \A p \in Followed' : disk'[p] = disk[p] \/ p \in service'.openFiles
    PROVE  Fine(service, Followed)'
<1>1. \A p \in Followed' : /\ p \in T /\ p \in Path
                           /\ \A d : Current(service', p, d) => Current(service, p, d)'
  <2>1. ASSUME NEW p \in Followed', NEW d, Current(service', p, d)
        PROVE  Current(service, p, d)'
    <3>1. CASE disk'[p] = disk[p]
      BY <2>1, <3>1 DEF Current, Unread, Exists
    <3>2. CASE p \in service'.openFiles
      <4>1. ~service'.infos[p].pendingReloadFromDisk
        BY <3>2 DEF Fine, Shown
      <4> QED
        BY <2>1, <4>1 DEF Current, Unread
    <3> QED
      BY <2>1, <3>1, <3>2
  <2> QED
    BY <2>1 DEF Fine
<1>2. ASSUME NEW P \in Project
      PROVE  Sound(service, P, Followed)'
  <2>1. Sound(service', P, T)
    BY <1>2 DEF Fine
  <2>2. StaleMarked(service, P, Followed)'
    BY <1>1, <2>1 DEF Sound, StaleMarked
  <2> QED
    BY <2>1, <2>2 DEF Sound
<1>3. Followed' \subseteq Path
  BY <1>1
<1> QED
  BY <1>2, <1>3 DEF Fine

\* What a handler leaves is what the invariant asks for.
LEMMA StayingSane ==
    ASSUME NEW T, Sane(service', T, buffer', World'), Followed' \subseteq T,
           \A p \in Followed' : disk'[p] = disk[p] \/ p \in service'.openFiles
    PROVE  Sane(service, Followed, buffer, World)' /\ Running'
<1>1. Fine(service, Followed)'
  BY DiskChanges DEF Sane
<1>2. Running'
  BY DEF Sane, Fine, Running
<1> QED
  BY <1>1, <1>2 DEF Sane

\* A handler that ends and gives no answer keeps the invariant.
LEMMA Ending ==
    ASSUME EnvironmentInv', disk' = disk, hurried' \subseteq Path, answer' = NoAnswer,
           NEW O, NEW T, Ends(service', O, T, buffer', World'),
           service'.openFiles = O => Followed' \subseteq T
    PROVE  IInv'
<1>1. AnswerInv'
  BY DEF AnswerInv, NoAnswer
<1>2. CASE Panicked(service')
  <2>1. ~Running'
    BY <1>2 DEF Panicked, Panics, Running
  <2> QED
    BY <1>2, <2>1 DEF IInv
<1>3. CASE Sane(service', T, buffer', World') /\ service'.openFiles = O
  <2>1. Sane(service, Followed, buffer, World)' /\ Running'
    BY <1>3, StayingSane
  <2> QED
    BY <1>1, <2>1 DEF IInv
<1> QED
  BY <1>2, <1>3 DEF Ends

\* The invariant holds when the service starts.
LEMMA Initially ==
    Init => IInv
<1> SUFFICES ASSUME Init PROVE IInv
  OBVIOUS
<1>1. NewProject \in ProjectState /\ NewProject.program = NoProgram
      /\ NewProject.dirtyFilePath = NoPath /\ NewProject.pendingReload = "none"
      /\ NewProject.rootFiles = {}
  BY DEF NewProject, ProjectState
<1>2. /\ service.infos = [p \in Path |-> NoInfo]
      /\ service.versions = [p \in Path |-> NoVersion]
      /\ service.projects = [P \in Project |-> NewProject]
      /\ service.configured = NoProject /\ service.openFiles = {} /\ service.panic = "none"
  BY DEF Init
<1>3. service \in Service
  <2> DEFINE a == [p \in Path |-> NoInfo]
             v == [p \in Path |-> NoVersion]
             u == [P \in Project |-> NewProject]
             A == [Path -> Info \cup {NoInfo}]
             V == [Path -> Nat \cup {NoVersion}]
             U == [Project -> ProjectState]
             C == Configured \cup {NoProject}
             O == SUBSET Path
             S == Failures \cup {"none"}
             none == "none"
  <2>1. none \in S
    OBVIOUS
  <2>2. a \in A /\ v \in V /\ u \in U /\ NoProject \in C /\ {} \in O
    BY <1>1
  <2>3. service = [infos |-> a, versions |-> v, projects |-> u, configured |-> NoProject,
                   openFiles |-> {}, panic |-> none]
    BY DEF Init
  <2>4. Service = [infos : A, versions : V, projects : U, configured : C, openFiles : O,
                   panic : S]
    BY DEF Service
  <2> HIDE DEF a, v, u, A, V, U, C, O, S, none
  <2> QED
    BY <2>1, <2>2, <2>3, <2>4
<1>4. Shown(service)
  BY <1>2 DEF Shown
<1>5. ASSUME NEW P \in Project
      PROVE  Sound(service, P, Followed)
  <2>1. service.projects[P] = NewProject
    BY <1>2, <1>5
  <2>2. \A p : DocOf(service, P, p) = NoDoc
    BY <1>1, <2>1 DEF DocOf
  <2> QED
    BY <1>1, <2>1, <2>2 DEF Sound, DocsHeld, DocsAttached, DirtyFile, ReloadMarked,
                            RootsAttached, StaleMarked
<1>6. Fine(service, Followed)
  BY <1>2, <1>3, <1>4, <1>5 DEF Fine, Followed
<1>7. Sane(service, Followed, buffer, World)
  BY <1>2, <1>6, FS_EmptySet DEF Sane, Agrees, Rereads
<1>8. EnvironmentInv
  BY DEF Init, EnvironmentInv, WorldOK, DiskOK, Reports
<1> QED
  BY <1>2, <1>7, <1>8 DEF IInv, AnswerInv, Init, Running

-----------------------------------------------------------------------------
(* The editor.                                                             *)

\* The editor's notifications leave disk, config file and reports alone.
LEMMA Changing ==
    ASSUME IInv, Change, UNCHANGED <<disk, config, reports, unwatched>>,
           buffer' \in [Path -> Text \cup {NoText}]
    PROVE  EnvironmentInv' /\ World' = World /\ disk' = disk /\ Untold' = Untold
BY DEF IInv, EnvironmentInv, Change, WorldOK, DiskOK, World, Untold

\* The notification that a file was opened (service.go:192) keeps the invariant.
LEMMA OpenFileStep ==
    ASSUME IInv, NEW p \in Path, NEW t \in Text, OpenFile(p, t)
    PROVE  IInv'
<1> DEFINE i == Before(service, p)
           j == After(service, p, t)
           r == Open(service, p, j)
           changed == j.version # i.version
           q == OpenedState(r, p, changed)
           U == IF changed THEN Followed \cup {p} ELSE Followed
<1>1. Running /\ p \in Path \ service.openFiles /\ CanCreate(service) /\ answer' = NoAnswer
  BY DEF OpenFile, Change, MayCreate, CanCreate
<1>2. service' = assignProjectToOpenedScriptInfo(q, p)
  BY DEF OpenFile, Before, After, Open, OpenedState
<1>3. hurried' = IF changed THEN hurried \ {p}
                 ELSE IF p \in Untold THEN hurried \cup {p} ELSE hurried
  BY DEF OpenFile, Before, After
<1>4. buffer' = [buffer EXCEPT ![p] = t]
  BY DEF OpenFile
<1>5. /\ Sane(service, Followed, buffer, World) /\ WorldOK
      /\ buffer \in [Path -> Text \cup {NoText}]
  BY <1>1, RunningIsSane
<1>6. changed \in BOOLEAN /\ (changed \/ j.version = i.version)
  OBVIOUS
<1>7. EnvironmentInv' /\ World' = World /\ disk' = disk /\ Untold' = Untold
  BY <1>4, <1>5, Changing DEF OpenFile, diskVars, reportVars
<1> HIDE DEF changed, j
<1>8. Ends(service', service.openFiles \cup {p}, U, buffer', World')
  <2> DEFINE a == assignProjectToOpenedScriptInfo(q, p)
  <2>1. Ends(a, service.openFiles \cup {p}, U, [buffer EXCEPT ![p] = t], World)
    <3>1. j = After(service, p, t)
      BY DEF j
    <3> QED
      BY <1>1, <1>5, <1>6, <3>1, OpeningFile
  <2> HIDE DEF a, U
  <2>2. service' = a
    BY <1>2 DEF a
  <2> QED
    BY <1>4, <1>7, <2>1, <2>2
<1>9. hurried' \subseteq Path
  BY <1>3 DEF IInv
<1>10. service'.openFiles = service.openFiles \cup {p} => Followed' \subseteq U
  BY <1>3, <1>7 DEF Followed
<1> QED
  BY <1>1, <1>7, <1>8, <1>9, <1>10, Ending

\* The notification that a file was edited (service.go:205) keeps the invariant.
LEMMA ChangeFileStep ==
    ASSUME IInv, NEW p \in Path, NEW t \in Text, ChangeFile(p, t)
    PROVE  IInv'
<1> DEFINE r == Edit(service, p, t)
           g == markContainingProjectsAsDirty(r, p)
<1>1. Running /\ p \in service.openFiles /\ answer' = NoAnswer
  BY DEF ChangeFile, Change
<1>2. service' = g
  BY DEF ChangeFile, Edit
<1>3. hurried' = hurried \ {p} /\ buffer' = [buffer EXCEPT ![p] = t]
  BY DEF ChangeFile
<1>4. /\ Sane(service, Followed, buffer, World) /\ WorldOK
      /\ buffer \in [Path -> Text \cup {NoText}]
  BY <1>1, RunningIsSane
<1>5. Ends(g, service.openFiles, Followed \cup {p}, [buffer EXCEPT ![p] = t], World)
  BY <1>1, <1>4, ChangingFile
<1> HIDE DEF g
<1>6. EnvironmentInv' /\ World' = World /\ disk' = disk /\ Untold' = Untold
  BY <1>3, <1>4, Changing DEF ChangeFile, diskVars, reportVars
<1>7. Ends(service', service.openFiles, Followed \cup {p}, buffer', World')
  BY <1>2, <1>3, <1>5, <1>6
<1>8. hurried' \subseteq Path
  BY <1>3 DEF IInv
<1>9. service'.openFiles = service.openFiles => Followed' \subseteq Followed \cup {p}
  BY <1>3, <1>6 DEF Followed
<1> QED
  BY <1>1, <1>6, <1>7, <1>8, <1>9, Ending

\* The notification that a file was closed (service.go:231) keeps the invariant.
LEMMA CloseFileStep ==
    ASSUME IInv, NEW p \in Path, CloseFile(p)
    PROVE  IInv'
<1> DEFINE containing == service.infos[p].containingProjects
           root == /\ Contains(containing, Inferred)
                   /\ p \in service.projects[Inferred].rootFiles
           panics == root /\ Last(containing) # Inferred
           r == Close(service, p)
           q == AskedAgain(service, p, r)
           d == Unrooted(q, p, root)
           g == Forgotten(d, p, panics)
<1>1. Running /\ p \in service.openFiles /\ answer' = NoAnswer
  BY DEF CloseFile, Change
<1>2. service' = g
  BY DEF CloseFile, Close, AskedAgain, Unrooted, Forgotten
<1>3. hurried' = hurried /\ buffer' = [buffer EXCEPT ![p] = NoText]
  BY DEF CloseFile
<1>4. /\ Sane(service, Followed, buffer, World) /\ WorldOK /\ World.disk = disk
      /\ buffer \in [Path -> Text \cup {NoText}]
  BY <1>1, RunningIsSane
<1>5. root \in BOOLEAN /\ panics \in BOOLEAN
  BY DEF Contains
<1> HIDE DEF root, panics
<1>6. Ends(g, service.openFiles \ {p}, Followed, [buffer EXCEPT ![p] = NoText], World)
  BY <1>1, <1>4, <1>5, ClosingFile
<1> HIDE DEF g
<1>7. EnvironmentInv' /\ World' = World /\ disk' = disk /\ Untold' = Untold
  BY <1>3, <1>4, Changing DEF CloseFile, diskVars, reportVars
<1>8. Ends(service', service.openFiles \ {p}, Followed, buffer', World')
  BY <1>2, <1>3, <1>6, <1>7
<1>9. hurried' \subseteq Path
  BY <1>3 DEF IInv
<1>10. service'.openFiles = service.openFiles \ {p} => Followed' \subseteq Followed
  BY <1>3, <1>7 DEF Followed
<1> QED
  BY <1>1, <1>7, <1>8, <1>9, <1>10, Ending

-----------------------------------------------------------------------------
(* Changes on disk and their reports.                                      *)

\* A change that leaves the service alone.
LEMMA ServiceStays ==
    ASSUME IInv, EnvironmentInv', service' = service, hurried' = hurried, buffer' = buffer,
           answer' \in {answer, NoAnswer},
           Running => Sane(service, Followed, buffer, World'),
           Followed' \subseteq Followed,
           \A p \in Followed' : disk'[p] = disk[p] \/ p \in service.openFiles
    PROVE  IInv'
<1>1. answer' = NoAnswer => AnswerInv'
  BY DEF AnswerInv
<1>2. answer' = answer => (AnswerInv => AnswerInv')
  BY DEF AnswerInv
<1>3. Running' <=> Running
  BY DEF Running
<1>4. hurried' \subseteq Path /\ (~Running => Panicked(service'))
  BY DEF IInv
<1>5. Running => Sane(service, Followed, buffer, World)'
  <2>1. ASSUME Running
        PROVE  Sane(service', Followed, buffer', World')
    BY <2>1
  <2> QED
    BY <2>1, StayingSane
<1>6. Running => AnswerInv
  BY DEF IInv
<1> QED
  BY <1>1, <1>2, <1>3, <1>4, <1>5, <1>6 DEF IInv

\* What the client's watchers report, or are not asked to report, has its type.
LEMMA Reporting ==
    ASSUME IInv, NEW x \in Path \cup {Config}, NEW kind \in {"created", "changed", "deleted"},
           Report(x, kind)
    PROVE  /\ reports' \in Reports /\ unwatched' \subseteq Path \cup {Config}
           /\ x \in Untold' /\ Untold \subseteq Untold'
           /\ Followed' \subseteq {p \in Path \ hurried' :
                                  p \in service'.openFiles \/ p \notin Untold}
<1>1. [path |-> x, kind |-> kind]
        \in [path : Path \cup {Config}, kind : {"created", "changed", "deleted"}]
  OBVIOUS
<1>2. reports \in Reports /\ unwatched \subseteq Path \cup {Config}
  BY DEF IInv, EnvironmentInv
<1>3. Append(reports, [path |-> x, kind |-> kind]) \in Reports
  BY <1>1, <1>2, AppendProperties DEF Reports
<1>4. ASSUME Watched(x, kind)
      PROVE  x \in Untold' /\ Untold \subseteq Untold'
  <2> DEFINE e == [path |-> x, kind |-> kind]
  <2>1. reports' = Append(reports, e) /\ unwatched' = unwatched /\ e.path = x
    BY <1>4 DEF Report
  <2> HIDE DEF e
  <2>2. /\ DOMAIN reports' = 1 .. Len(reports) + 1 /\ reports'[Len(reports) + 1] = e
        /\ DOMAIN reports = 1 .. Len(reports) /\ Len(reports) \in Nat
        /\ \A k \in 1 .. Len(reports) : reports'[k] = reports[k]
    BY <1>2, <2>1, AppendProperties DEF Reports
  <2>3. x \in {reports'[k].path : k \in DOMAIN reports'}
    BY <2>1, <2>2
  <2>4. {reports[k].path : k \in DOMAIN reports}
          \subseteq {reports'[k].path : k \in DOMAIN reports'}
    BY <2>2
  <2> QED
    BY <1>2, <2>1, <2>3, <2>4 DEF Report, Untold
<1>5. ASSUME ~Watched(x, kind)
      PROVE  x \in Untold' /\ Untold \subseteq Untold'
  BY <1>5 DEF Report, Untold
<1>6. reports' \in Reports /\ unwatched' \subseteq Path \cup {Config}
  BY <1>2, <1>3 DEF Report
<1>7. x \in Untold' /\ Untold \subseteq Untold'
  BY <1>4, <1>5
<1> QED
  BY <1>6, <1>7 DEF Followed

\* A file that changes on disk keeps the invariant: the service does not see it yet.
LEMMA WriteFileStep ==
    ASSUME IInv, NEW p \in Path, NEW t \in Text \cup {NoText}, WriteFile(p, t)
    PROVE  IInv'
<1> DEFINE kind == IF t = NoText THEN "deleted" ELSE IF Exists(p) THEN "changed" ELSE "created"
<1>1. kind \in {"created", "changed", "deleted"}
  OBVIOUS
<1>2. Report(p, kind)
  BY DEF WriteFile
<1> HIDE DEF kind
<1>3. /\ reports' \in Reports /\ unwatched' \subseteq Path \cup {Config}
      /\ p \in Untold' /\ Untold \subseteq Untold'
      /\ Followed' \subseteq {x \in Path \ hurried' :
                             x \in service'.openFiles \/ x \notin Untold}
  BY <1>1, <1>2, Reporting
<1>4. disk' \in [Path -> Text \cup {NoText}]
  BY DEF IInv, EnvironmentInv, WorldOK, DiskOK, WriteFile
<1>5. EnvironmentInv'
  BY <1>3, <1>4 DEF IInv, EnvironmentInv, WorldOK, DiskOK, WriteFile, Change
<1>6. /\ service' = service /\ hurried' = hurried /\ buffer' = buffer /\ answer' = NoAnswer
  BY DEF WriteFile, Change
<1>7. DifferAt(World, World', p)
  <2>1. /\ World'.disk = [disk EXCEPT ![p] = t] /\ World.disk = disk
        /\ disk \in [Path -> Text \cup {NoText}]
    BY DEF WriteFile, World, IInv, EnvironmentInv, WorldOK, DiskOK
  <2> QED
    BY <1>3, <2>1 DEF DifferAt, World
<1>8. Running => Sane(service, Followed, buffer, World')
  <2>1. p \in World'.untold
    BY <1>3 DEF World
  <2> QED
    BY <1>7, <2>1, RunningIsSane, WorldChanges
<1>9. Followed' \subseteq Followed
  BY <1>3, <1>6 DEF Followed
<1>10. \A x \in Followed' : disk'[x] = disk[x] \/ x \in service.openFiles
  <2>1. \A x \in Path : x # p => disk'[x] = disk[x]
    BY DEF WriteFile, IInv, EnvironmentInv, WorldOK, DiskOK
  <2> QED
    BY <1>3, <1>6, <2>1 DEF Followed
<1> QED
  BY <1>5, <1>6, <1>8, <1>9, <1>10, ServiceStays

\* The notification that a file was saved (service.go:247) keeps the invariant.
LEMMA SaveFileStep ==
    ASSUME IInv, NEW p \in Path, SaveFile(p)
    PROVE  IInv'
<1> DEFINE kind == IF Exists(p) THEN "changed" ELSE "created"
<1>1. Running /\ p \in service.openFiles
  BY DEF SaveFile, Change
<1>2. Report(p, kind)
  BY DEF SaveFile
<1>3. /\ reports' \in Reports /\ unwatched' \subseteq Path \cup {Config}
      /\ Untold \subseteq Untold'
      /\ Followed' \subseteq {x \in Path \ hurried' :
                             x \in service'.openFiles \/ x \notin Untold}
  BY <1>2, Reporting
<1>4. Sane(service, Followed, buffer, World) /\ buffer \in [Path -> Text \cup {NoText}]
  BY <1>1, RunningIsSane
<1>5. disk' \in [Path -> Text \cup {NoText}]
  BY <1>4 DEF IInv, EnvironmentInv, WorldOK, DiskOK, SaveFile
<1>6. EnvironmentInv'
  BY <1>3, <1>5 DEF IInv, EnvironmentInv, WorldOK, DiskOK, SaveFile, Change
<1>7. service' = service
  <2>1. service' = [service EXCEPT !.infos[p] = SetTextFromDisk(@, buffer[p])]
    BY DEF SaveFile
  <2>2. [service EXCEPT !.infos[p] = SetTextFromDisk(@, buffer[p])] = service
    BY <1>1, <1>4, Saving
  <2> QED
    BY <2>1, <2>2, Zenon
<1>8. /\ hurried' = hurried /\ buffer' = buffer /\ answer' = NoAnswer
  BY DEF SaveFile, Change
<1>9. DifferAt(World, World', p)
  <2>1. /\ World'.disk = [disk EXCEPT ![p] = buffer[p]] /\ World.disk = disk
        /\ disk \in [Path -> Text \cup {NoText}]
    BY DEF SaveFile, World, IInv, EnvironmentInv, WorldOK, DiskOK
  <2> QED
    BY <1>3, <2>1 DEF DifferAt, World
<1>10. Sane(service, Followed, buffer, World')
  BY <1>1, <1>4, <1>9, WorldChanges
<1>11. Followed' \subseteq Followed
  BY <1>3, <1>7, <1>8 DEF Followed
<1>12. \A x \in Followed' : disk'[x] = disk[x] \/ x \in service.openFiles
  <2>1. \A x \in Path : x # p => disk'[x] = disk[x]
    BY DEF SaveFile, IInv, EnvironmentInv, WorldOK, DiskOK
  <2> QED
    BY <1>1, <2>1 DEF Followed
<1> QED
  BY <1>6, <1>7, <1>8, <1>10, <1>11, <1>12, ServiceStays

\* A config file that changes on disk keeps the invariant.
LEMMA WriteConfigStep ==
    ASSUME IInv, NEW files \in (SUBSET Inside) \cup {NoConfig}, WriteConfig(files)
    PROVE  IInv'
<1> DEFINE kind == IF files = NoConfig THEN "deleted"
                   ELSE IF config = NoConfig THEN "created" ELSE "changed"
<1>1. kind \in {"created", "changed", "deleted"}
  OBVIOUS
<1>2. Report(Config, kind)
  BY DEF WriteConfig
<1> HIDE DEF kind
<1>3. /\ reports' \in Reports /\ unwatched' \subseteq Path \cup {Config}
      /\ Untold \subseteq Untold'
      /\ Followed' \subseteq {x \in Path \ hurried' :
                             x \in service'.openFiles \/ x \notin Untold}
  BY <1>1, <1>2, Reporting
<1>4. EnvironmentInv'
  BY <1>3 DEF IInv, EnvironmentInv, WorldOK, DiskOK, WriteConfig, Change
<1>5. /\ service' = service /\ hurried' = hurried /\ buffer' = buffer /\ answer' = NoAnswer
  BY DEF WriteConfig, Change
<1>6. DifferAt(World, World', Config)
  <2>1. World'.disk = World.disk
    BY DEF WriteConfig, World
  <2> QED
    BY <1>3, <2>1 DEF DifferAt, World
<1>7. Running => Sane(service, Followed, buffer, World')
  BY <1>6, RunningIsSane, WorldChanges, ServiceAssumption
<1>8. Followed' \subseteq Followed /\ disk' = disk
  BY <1>3, <1>5 DEF Followed, WriteConfig
<1> QED
  BY <1>4, <1>5, <1>7, <1>8, ServiceStays

\* A report that is received leaves the environment and the editor's texts alone.
LEMMA Receiving ==
    ASSUME IInv, NEW x, Reported(x)
    PROVE  /\ EnvironmentInv' /\ Running /\ answer' = NoAnswer
           /\ hurried' = hurried /\ buffer' = buffer
           /\ DifferAt(World, World', x) /\ disk' = disk /\ Untold \subseteq Untold' \cup {x}
<1>1. /\ reports \in Reports /\ reports # <<>> /\ reports' = Tail(reports)
      /\ Head(reports).path = x
  BY DEF IInv, EnvironmentInv, Reported
<1>2. reports' \in Reports
  BY <1>1 DEF Reports
<1>3. /\ DOMAIN reports = 1 .. Len(reports) /\ DOMAIN reports' = 1 .. Len(reports) - 1
      /\ Len(reports) \in Nat /\ reports[1].path = x
      /\ \A k \in 1 .. Len(reports) - 1 : reports'[k] = reports[k + 1]
  BY <1>1, HeadTailProperties DEF Reports
<1>4. ASSUME NEW k \in DOMAIN reports, reports[k].path # x
      PROVE  reports[k].path \in {reports'[l].path : l \in DOMAIN reports'}
  <2>1. k # 1 /\ k \in Nat /\ k - 1 \in 1 .. Len(reports) - 1 /\ (k - 1) + 1 = k
    BY <1>3, <1>4
  <2> QED
    BY <1>3, <2>1
<1>5. World'.disk = World.disk /\ unwatched' = unwatched
  BY DEF Reported, World, diskVars
<1>6. DifferAt(World, World', x)
  <2>1. ASSUME NEW q \in Path, q # x, q \in World.untold
        PROVE  q \in World'.untold
    BY <1>4, <1>5, <2>1 DEF World, Untold
  <2> QED
    BY <1>5, <2>1 DEF DifferAt
<1>7. Untold \subseteq Untold' \cup {x}
  BY <1>4, <1>5 DEF Untold
<1> QED
  BY <1>2, <1>6, <1>7 DEF IInv, EnvironmentInv, WorldOK, DiskOK, Reported, diskVars

\* onConfigFileChanged (service.go:323) keeps the invariant.
LEMMA ConfigFileChangedStep ==
    ASSUME IInv, ConfigFileChanged
    PROVE  IInv'
<1>1. /\ EnvironmentInv' /\ Running /\ answer' = NoAnswer
      /\ hurried' = hurried /\ buffer' = buffer /\ DifferAt(World, World', Config)
      /\ disk' = disk /\ Untold \subseteq Untold' \cup {Config}
  BY Receiving DEF ConfigFileChanged
<1>5. service'.openFiles = service.openFiles => Followed' \subseteq Followed
  BY <1>1, ServiceAssumption DEF Followed
<1>2. Sane(service, Followed, buffer, World')
  BY <1>1, RunningIsSane, WorldChanges, ServiceAssumption
<1>3. CASE service.configured = NoProject
  <2>1. service' = service
    BY <1>3 DEF ConfigFileChanged
  <2> QED
    BY <1>1, <1>2, <1>5, <2>1, ServiceStays
<1>4. CASE service.configured # NoProject
  <2> DEFINE g == onConfigFileChanged(service, service.configured, Head(reports).kind)
  <2>1. service' = g
    BY <1>4 DEF ConfigFileChanged
  <2>2. Ends(g, service.openFiles, Followed, buffer, World')
    BY <1>2, <1>4, ChangingConfig
  <2> HIDE DEF g
  <2>3. Ends(service', service.openFiles, Followed, buffer', World')
    BY <1>1, <2>1, <2>2
  <2>4. hurried' \subseteq Path
    BY <1>1 DEF IInv
  <2> QED
    BY <1>1, <1>5, <2>3, <2>4, Ending
<1> QED
  BY <1>3, <1>4

\* OnWatchedFilesChanged (service.go:283) keeps the invariant for a file that is not the
\* config file.
LEMMA WatchedFileChangedStep ==
    ASSUME IInv, NEW p \in Path, WatchedFileChanged(p)
    PROVE  IInv'
<1>1. /\ EnvironmentInv' /\ Running /\ answer' = NoAnswer
      /\ hurried' = hurried /\ buffer' = buffer /\ DifferAt(World, World', p)
      /\ disk' = disk /\ Untold \subseteq Untold' \cup {p}
  BY Receiving DEF WatchedFileChanged
<1>2. Sane(service, Followed, buffer, World)
  BY <1>1, RunningIsSane
<1>3. service'.openFiles = service.openFiles => Followed' \subseteq Followed \cup {p}
  BY <1>1 DEF Followed
<1>4. ASSUME Ends(service', service.openFiles, Followed \cup {p}, buffer, World')
      PROVE  IInv'
  <2>1. hurried' \subseteq Path
    BY <1>1 DEF IInv
  <2> QED
    BY <1>1, <1>3, <1>4, <2>1, Ending
<1>5. CASE p \in service.openFiles
  <2>1. service' = service
    BY <1>5 DEF WatchedFileChanged
  <2>2. Sane(service, Followed, buffer, World')
    BY <1>1, <1>2, <1>5, WorldChanges
  <2>3. Followed' \subseteq Followed
    BY <1>1, <1>5, <2>1 DEF Followed
  <2> QED
    BY <1>1, <2>1, <2>2, <2>3, ServiceStays
<1>6. CASE p \notin service.openFiles /\ ~Live(service, p)
  <2> DEFINE g == [service EXCEPT !.projects = Override([P \in Range(Projects(service)) |->
                      onWatchEventForNilScriptInfo(service.projects[P], P, p)], @)]
  <2>1. service' = g
    BY <1>6, Zenon DEF WatchedFileChanged
  <2>2. Ends(g, service.openFiles, Followed \cup {p}, buffer, World')
    <3> DEFINE r == g
    <3>1. r = g
      OBVIOUS
    <3> HIDE DEF r
    <3>2. Sane(service, Followed, buffer, World')
      BY <1>1, <1>2, <1>6, WorldChanges DEF Live
    <3>3. Sane(service, Followed \cup {p}, buffer, World')
      BY <1>6, <3>2, FineForTheDead DEF Sane
    <3>4. Ends(r, service.openFiles, Followed \cup {p}, buffer, World')
      BY <3>1, <3>3, WatchingNil, Zenon
    <3> QED
      BY <3>1, <3>4, Zenon
  <2> HIDE DEF g
  <2> QED
    BY <1>4, <2>1, <2>2
<1>7. CASE p \notin service.openFiles /\ Live(service, p) /\ Head(reports).kind = "deleted"
  <2> DEFINE g == handleDeletedFile(service, p, TRUE)
  <2>1. service' = g
    BY <1>7 DEF WatchedFileChanged
  <2>2. p \in Path \ service.openFiles /\ service.infos[p] # NoInfo
    BY <1>7 DEF Live
  <2>3. Sane(g, Followed \cup {p}, buffer, World') /\ g.openFiles = service.openFiles
    <3>1. ASSUME NEW deferred \in BOOLEAN
          PROVE  /\ Sane(handleDeletedFile(service, p, deferred), Followed \cup {p}, buffer,
                         World')
                 /\ handleDeletedFile(service, p, deferred).openFiles = service.openFiles
      BY <1>1, <1>2, <2>2, Deleting
    <3> QED
      BY <3>1
  <2> HIDE DEF g
  <2> QED
    BY <1>4, <2>1, <2>3 DEF Ends
<1>8. CASE p \notin service.openFiles /\ Live(service, p) /\ Head(reports).kind # "deleted"
  <2> DEFINE g == delayReload(service, p)
  <2>1. service' = g
    BY <1>8 DEF WatchedFileChanged
  <2>2. p \in Path \ service.openFiles
    BY <1>8
  <2>3. Ends(g, service.openFiles, Followed \cup {p}, buffer, World')
    BY <1>1, <1>2, <1>8, <2>2, Delaying
  <2> HIDE DEF g
  <2> QED
    BY <1>4, <2>1, <2>3
<1> QED
  BY <1>5, <1>6, <1>7, <1>8

-----------------------------------------------------------------------------
(* Requests.                                                               *)

\* A request that needs a program (service.go:258) keeps the invariant; its answer is current.
LEMMA EnsureStep ==
    ASSUME IInv, NEW p \in Path, EnsureDefaultProjectForFile(p)
    PROVE  IInv'
<1>1. /\ Running /\ p \in service.openFiles /\ hurried' = hurried /\ buffer' = buffer
      /\ EnvironmentInv' /\ World' = World /\ disk' = disk /\ Untold' = Untold
  BY DEF EnsureDefaultProjectForFile, IInv, EnvironmentInv, WorldOK, DiskOK, diskVars,
         reportVars, World, Untold
<1>2. Sane(service, Followed, buffer, World) /\ WorldOK
  BY <1>1, RunningIsSane
<1>3. PICK files \in SetToSeqs(service.openFiles) :
        LET s == service
            direct == IF isOrphan(s, p) THEN NoProject ELSE getDefaultProjectForScript(s, p)
            r == IF direct # NoProject THEN s ELSE ensureProjectStructureUpToDate(s, files)
            P == IF direct # NoProject THEN direct ELSE getDefaultProjectForScript(r, p)
        IN  IF P = NoProject
            THEN /\ service' = Panic(r, "no default project")
                 /\ answer' = NoAnswer
            ELSE /\ service' = updateGraph(r, P)
                 /\ answer' = [path |-> p, project |-> P]
  BY DEF EnsureDefaultProjectForFile
<1> DEFINE direct == IF isOrphan(service, p) THEN NoProject
                     ELSE getDefaultProjectForScript(service, p)
           r == IF direct # NoProject THEN service
                ELSE ensureProjectStructureUpToDate(service, files)
           P == IF direct # NoProject THEN direct ELSE getDefaultProjectForScript(r, p)
           none == Panic(r, "no default project")
           g == updateGraph(r, P)
<1>4. direct \in {NoProject, getDefaultProjectForScript(service, p)}
  OBVIOUS
<1>5. /\ P = NoProject => service' = none /\ answer' = NoAnswer
      /\ P # NoProject => service' = g /\ answer' = [path |-> p, project |-> P]
  BY <1>3
<1>6. /\ P = NoProject => Panicked(none)
      /\ P # NoProject => \/ Panicked(g)
                          \/ /\ Sane(g, Followed, buffer, World)
                             /\ P \in Project /\ g.openFiles = service.openFiles
                             /\ ~g.projects[P].dirty
  <2> HIDE DEF direct
  <2>1. r = IF direct # NoProject THEN service
            ELSE ensureProjectStructureUpToDate(service, files)
    OBVIOUS
  <2> HIDE DEF r
  <2>2. P = IF direct # NoProject THEN direct ELSE getDefaultProjectForScript(r, p)
    OBVIOUS
  <2> HIDE DEF P
  <2>3. Answered(r, service.openFiles, P, Followed, buffer, World)
    BY <1>1, <1>2, <1>4, <2>1, <2>2, Ensuring
  <2> QED
    BY <2>3 DEF Answered
<1> HIDE DEF direct, r, P, none, g
<1>7. hurried' \subseteq Path
  BY <1>1 DEF IInv
<1>8. CASE P = NoProject
  <2>1. Panicked(service') /\ answer' = NoAnswer /\ ~Running'
    BY <1>5, <1>6, <1>8 DEF Running, Panicked, Panics
  <2> QED
    BY <1>1, <1>7, <2>1 DEF IInv
<1>9. CASE P # NoProject /\ Panicked(g)
  <2>1. ~Running'
    BY <1>5, <1>9 DEF Running, Panicked, Panics
  <2> QED
    BY <1>1, <1>5, <1>7, <1>9, <2>1 DEF IInv
<1>10. CASE /\ P # NoProject /\ Sane(g, Followed, buffer, World) /\ P \in Project
             /\ g.openFiles = service.openFiles /\ ~g.projects[P].dirty
  <2>1. Followed' \subseteq Followed
    BY <1>1, <1>5, <1>10 DEF Followed
  <2>2. Sane(service', Followed, buffer', World')
    BY <1>1, <1>5, <1>10
  <2>3. Sane(service, Followed, buffer, World)' /\ Running'
    BY <1>1, <2>1, <2>2, StayingSane
  <2>4. AnswerInv'
    BY <1>1, <1>5, <1>10 DEF AnswerInv
  <2> QED
    BY <1>1, <1>7, <2>3, <2>4 DEF IInv
<1> QED
  BY <1>6, <1>8, <1>9, <1>10

-----------------------------------------------------------------------------
(* The theorems.                                                           *)

\* Every step keeps the invariant.
LEMMA Stepping ==
    IInv /\ [Next]_vars => IInv'
<1> SUFFICES ASSUME IInv, [Next]_vars PROVE IInv'
  OBVIOUS
<1>1. CASE Next
  <2>1. ASSUME NEW p \in Path, NEW t \in Text, OpenFile(p, t) \/ ChangeFile(p, t)
        PROVE  IInv'
    BY <2>1, OpenFileStep, ChangeFileStep
  <2>2. ASSUME NEW p \in Path, NEW t \in Text \cup {NoText}, WriteFile(p, t)
        PROVE  IInv'
    BY <2>2, WriteFileStep
  <2>3. ASSUME NEW p \in Path, CloseFile(p)
        PROVE  IInv'
    BY <2>3, CloseFileStep
  <2>4. ASSUME NEW p \in Path, SaveFile(p)
        PROVE  IInv'
    BY <2>4, SaveFileStep
  <2>5. ASSUME NEW p \in Path, WatchedFileChanged(p)
        PROVE  IInv'
    BY <2>5, WatchedFileChangedStep
  <2>6. ASSUME NEW p \in Path, EnsureDefaultProjectForFile(p)
        PROVE  IInv'
    BY <2>6, EnsureStep
  <2>7. ASSUME ConfigFileChanged
        PROVE  IInv'
    BY <2>7, ConfigFileChangedStep
  <2>8. ASSUME NEW files \in (SUBSET Inside) \cup {NoConfig}, WriteConfig(files)
        PROVE  IInv'
    BY <2>8, WriteConfigStep
  <2> QED
    BY <1>1, <2>1, <2>2, <2>3, <2>4, <2>5, <2>6, <2>7, <2>8 DEF Next
<1>2. CASE UNCHANGED vars
  <2>1. /\ service' = service /\ hurried' = hurried /\ buffer' = buffer /\ answer' = answer
        /\ EnvironmentInv' /\ World' = World /\ disk' = disk /\ Followed' = Followed
    BY <1>2 DEF vars, IInv, EnvironmentInv, WorldOK, DiskOK, World, Untold, Followed
  <2> QED
    BY <2>1, RunningIsSane, ServiceStays
<1> QED
  BY <1>1, <1>2

\* The invariant holds in every reachable state.
LEMMA ServiceInvariance == Spec => []IInv
<1> QED
  BY Initially, Stepping, PTL DEF Spec

\* The state has its type as long as the server runs.
THEOREM ServiceTypes == Spec => []TypeOK
<1> QED
  BY ServiceInvariance, InvariantTypes, PTL

\* Whatever the editor, the disk, the config file, the watch events and the requests do,
\* in any order, an open file has the text the editor shows (open, close, setText and
\* reloadIfNeeded of script infos).
THEOREM OpenFilesShowTheEditor == Spec => []EditorTextPrevails
<1>1. IInv => EditorTextPrevails
  <2>1. ASSUME IInv, NEW p \in service.openFiles, Running
        PROVE  /\ Live(service, p) /\ service.infos[p].isOpen
               /\ service.infos[p].text = buffer[p]
    <3>1. Sane(service, Followed, buffer, World) /\ p \in Path
      BY <2>1, RunningIsSane
    <3> QED
      BY <2>1, <3>1 DEF Sane, Fine, Shown, Agrees, Live
  <2> QED
    BY <2>1 DEF EditorTextPrevails
<1> QED
  BY <1>1, ServiceInvariance, PTL

\* A version number of a file never stands for two texts, across the end and the
\* recreation of its info, so that comparing versions is enough for the document
\* registry (getOrCreateScriptInfo, AcquireDocument).
THEOREM VersionsDetermineTexts == Spec => []VersionDeterminesText
<1>1. IInv => VersionDeterminesText
  <2>1. ASSUME IInv, NEW P \in Project, NEW p \in Path, Running, FileOf(P, p) # NoDoc,
               service.infos[p] # NoInfo, FileOf(P, p).version = service.infos[p].version
        PROVE  FileOf(P, p).text = service.infos[p].text
    <3>1. DocsHeld(service, P)
      BY <2>1, RunningIsSane DEF Sane, Fine, Sound
    <3>2. DocOf(service, P, p) = FileOf(P, p)
      BY DEF DocOf, FileOf
    <3>3. Holds(service, p, FileOf(P, p))
      BY <2>1, <3>1, <3>2 DEF DocsHeld
    <3> QED
      BY <2>1, <3>3 DEF Holds
  <2> QED
    BY <2>1 DEF VersionDeterminesText
<1> QED
  BY <1>1, ServiceInvariance, PTL

\* No sequence of notifications, watch events and requests reaches one of five failed
\* assertions or nil dereferences of service.go, project.go and program.go.
THEOREM AssertionsHold == Spec => []InternalAssertionsHold
<1>1. IInv => InternalAssertionsHold
  <2>1. ASSUME IInv
        PROVE  service.panic \in Panics \cup {"none"}
    BY <2>1 DEF IInv, Running, Panicked
  <2> QED
    BY <2>1 DEF InternalAssertionsHold, Panics
<1> QED
  BY <1>1, ServiceInvariance, PTL

\* A file of a program that is not marked dirty has the version and the text of its info,
\* and no reload is to change them, if its info follows the disk or the editor.
LEMMA FollowedIsCurrent ==
    ASSUME IInv, Running, NEW P \in Project, NEW p \in Followed,
           ~service.projects[P].dirty, FileOf(P, p) # NoDoc
    PROVE  /\ service.infos[p] # NoInfo /\ ~Unread(service.infos[p], p)
           /\ FileOf(P, p).text = service.infos[p].text
<1>1. Sane(service, Followed, buffer, World) /\ p \in Path
  BY RunningIsSane DEF Followed
<1>2. DocsHeld(service, P) /\ StaleMarked(service, P, Followed)
  BY <1>1 DEF Sane, Fine, Sound
<1>3. DocOf(service, P, p) = FileOf(P, p)
  BY DEF DocOf, FileOf
<1>4. Current(service, p, FileOf(P, p))
  BY <1>2, <1>3 DEF StaleMarked
<1>5. Holds(service, p, FileOf(P, p))
  BY <1>1, <1>2, <1>3 DEF DocsHeld
<1> QED
  BY <1>4, <1>5 DEF Current, Holds

\* A request about an open file is answered from the text the editor shows, unless the
\* file was opened with a text that the server had and the disk no longer: updateGraph
\* has replaced every stale version of the file in the program of the project that
\* answers.
THEOREM AnswersShowTheEditor == Spec => []AnswersAreCurrent
<1>1. IInv => AnswersAreCurrent
  <2> SUFFICES ASSUME IInv, answer # NoAnswer, answer.path \notin hurried, Running,
                      FileOf(answer.project, answer.path) # NoDoc
               PROVE  FileOf(answer.project, answer.path).text = buffer[answer.path]
    BY DEF AnswersAreCurrent
  <2> DEFINE P == answer.project
             p == answer.path
  <2>1. /\ P \in Project /\ ~service.projects[P].dirty
        /\ p \in Path \ hurried /\ p \in service.openFiles
    BY DEF IInv, AnswerInv
  <2>2. FileOf(P, p) # NoDoc
    OBVIOUS
  <2> HIDE DEF P, p
  <2>3. FileOf(P, p).text = service.infos[p].text
    BY <2>1, <2>2, FollowedIsCurrent DEF Followed
  <2>4. service.infos[p].text = buffer[p]
    BY <2>1, RunningIsSane DEF Sane, Agrees
  <2> QED
    BY <2>3, <2>4 DEF P, p
<1> QED
  BY <1>1, ServiceInvariance, PTL

\* Once the client has reported what changed, a program that is not marked dirty has in
\* each of its files the text that the server has, or would read now: no order of edits,
\* watch events, closings, requests and updates of other projects loses a mark that
\* markContainingProjectsAsDirty has set.
THEOREM ProgramsStayCurrent == Spec => []ProgramsAreCurrent
<1>1. IInv => ProgramsAreCurrent
  <2> SUFFICES ASSUME IInv, NEW P \in Project, NEW p \in Path \ hurried, Settled(P),
                      FileOf(P, p) # NoDoc
               PROVE  FileOf(P, p).text = CurrentText(service, p)
    BY DEF ProgramsAreCurrent
  <2>1. /\ Running /\ ~service.projects[P].dirty /\ p \in Followed
    BY DEF Settled, NothingUnseen, Untold, Followed
  <2>2. /\ service.infos[p] # NoInfo /\ ~Unread(service.infos[p], p)
        /\ FileOf(P, p).text = service.infos[p].text
    BY <2>1, FollowedIsCurrent
  <2>3. service.infos[p] \in Info
    BY <2>1, <2>2, RunningIsSane, ServiceFields DEF Sane, Fine
  <2> DEFINE i == service.infos[p]
             j == [i EXCEPT !.deferredDelete = FALSE]
  <2>4. getOrCreateScriptInfo(service, p) \in {i, j}
    BY <2>2 DEF getOrCreateScriptInfo
  <2>5. /\ j.text = i.text /\ j.pendingReloadFromDisk = i.pendingReloadFromDisk
    BY <2>3 DEF Info
  <2> HIDE DEF i, j
  <2>6. ASSUME NEW k, k.text = i.text, k.pendingReloadFromDisk = i.pendingReloadFromDisk
        PROVE  reloadIfNeeded(k, p).text = i.text
    BY <2>2, <2>6 DEF i, Unread, reloadIfNeeded, SetTextFromDisk
  <2>7. CurrentText(service, p) = i.text
    BY <2>4, <2>5, <2>6 DEF CurrentText
  <2> QED
    BY <2>2, <2>7 DEF i
<1> QED
  BY <1>1, ServiceInvariance, PTL

\* Once the client has reported what changed on disk, a closed file with another text
\* than the disk's is to be read again, or is flagged as having the disk's text: neither
\* close nor a watch event, nor a reload by one of several projects, loses that.
THEOREM ClosedFilesAreReadAgain == Spec => []ClosedFilesAreReread
<1>1. IInv => ClosedFilesAreReread
  <2> SUFFICES ASSUME IInv, NEW p \in Path \ service.openFiles, Running, NothingUnseen,
                      Live(service, p), Exists(p), service.infos[p].text # disk[p]
               PROVE  \/ service.infos[p].pendingReloadFromDisk
                      \/ service.infos[p].matchesDiskText
    BY DEF ClosedFilesAreReread
  <2>1. Guarded(service.infos[p], p, World)
    BY RunningIsSane DEF Sane, Rereads, Live
  <2>2. World.disk = disk /\ World.untold = {}
    BY DEF NothingUnseen, World, Untold
  <2> QED
    BY <2>1, <2>2 DEF Guarded, Exists
<1> QED
  BY <1>1, ServiceInvariance, PTL

-----------------------------------------------------------------------------
(* The requests about one project.                                         *)

Requests == INSTANCE ProjectRequests

\* The next update, or the one that runs, is going to acquire the file.
Stale(f) ==
    IF mu = Nobody THEN dirty /\ dirtyFilePath \in {NoFile, f} ELSE f \in unread

\* The registry has the file as it is in its script info.
Fresh(f) == document[f] = [version |-> version[f], text |-> text[f]]

\* A text is ahead of its version only between the two assignments of setText.
VersionInv ==
    \A f \in File :
        text[f] = IF edited = f /\ step = "version" THEN version[f] + 1 ELSE version[f]

\* The holder of the lock is the one that updates, and only files of its update are read.
LockInv ==
    /\ \A r \in Request : stage[r] \in {"load", "reload", "clean"} <=> mu = r
    /\ mu = Nobody => unread = {}
    /\ \A r \in Request : stage[r] = "clean" => unread = {}
    /\ \A f \in File : f \notin unread => seen[f] = None

\* A file may have been parsed with a text newer than its version, and a program is no newer
\* than the registry.
DocumentInv ==
    \A f \in File :
        /\ document[f].version <= document[f].text
        /\ document[f].text <= text[f]
        /\ program[f].text <= document[f].text

\* The registry is ahead of the program only during an update.
ProgramInv ==
    (\A r \in Request : stage[r] \notin {"load", "reload"}) => program = document

\* The version that was read of a file is its version unless the file is edited since.
SeenInv ==
    \A f \in File : seen[f] # None =>
        /\ seen[f] <= version[f]
        /\ edited # f => seen[f] = version[f]

\* A change is in the registry, or announced, or being made.
FreshInv == \A f \in File : Stale(f) \/ edited = f \/ Fresh(f)

\* What a request has to see is in the registry, or going to be acquired.
SentInv ==
    \A r \in Request, f \in File :
        /\ sent[r][f] <= version[f]
        /\ Stale(f) \/ document[f].text >= sent[r][f]
        /\ seen[f] # None => seen[f] >= sent[r][f]

\* ... and in the program of a project that the request has found up to date.
TakeInv ==
    \A r \in Request : stage[r] = "take" => \A f \in File : program[f].text >= sent[r][f]

RequestsInv ==
    /\ Requests!TypeOK /\ VersionInv /\ LockInv /\ DocumentInv /\ ProgramInv /\ SeenInv
    /\ FreshInv /\ SentInv /\ TakeInv /\ SeesEarlierChanges

USE RequestsAssumption DEF RequestsAssumption, None, Free, Requests!None, Requests!Free,
    Requests!scriptVars, Requests!dispatchVars, Requests!dirtyVars, Requests!updateVars,
    Requests!requestVars

-----------------------------------------------------------------------------
(* The first state, and one lemma for each action.                         *)

\* Every file is loaded in its first version, and no request is under way.
LEMMA RequestsInitially == Requests!Init => RequestsInv
<1> SUFFICES ASSUME Requests!Init PROVE RequestsInv
  OBVIOUS
<1> USE DEF Requests!Init
<1>1. Requests!TypeOK
  BY DEF Requests!TypeOK, Requests!Program, Requests!Stages
<1>2. VersionInv /\ SeenInv /\ FreshInv
  BY DEF VersionInv, SeenInv, FreshInv, Fresh
<1>3. LockInv /\ ProgramInv
  BY DEF LockInv, ProgramInv
<1>4. DocumentInv /\ SentInv
  BY DEF DocumentInv, SentInv
<1>5. TakeInv /\ SeesEarlierChanges
  BY DEF TakeInv, SeesEarlierChanges
<1> QED BY <1>1, <1>2, <1>3, <1>4, <1>5 DEF RequestsInv

\* A partial change may compute the line map, which no part of the invariant mentions.
LEMMA AfterChangeFile ==
  ASSUME RequestsInv, NEW g \in File, Requests!ChangeFile(g)
  PROVE  RequestsInv'
<1> USE DEF Requests!ChangeFile
<1>1. Requests!TypeOK'
  BY DEF RequestsInv, Requests!TypeOK, Requests!Program, Requests!Stages
<1>2. /\ LockInv' /\ DocumentInv' /\ ProgramInv' /\ SentInv' /\ TakeInv'
      /\ SeesEarlierChanges'
  BY DEF RequestsInv, LockInv, DocumentInv, Requests!Program, ProgramInv, SentInv, Stale,
     TakeInv, SeesEarlierChanges
<1>3. VersionInv'
  BY DEF RequestsInv, Requests!TypeOK, VersionInv
<1>4. SeenInv'
  BY DEF RequestsInv, Requests!TypeOK, SeenInv
<1>5. FreshInv'
  BY DEF RequestsInv, Requests!TypeOK, FreshInv, Stale, Fresh
<1> QED BY <1>1, <1>2, <1>3, <1>4, <1>5 DEF RequestsInv

\* The text runs ahead of its version: the file counts as being edited.
LEMMA AfterSetText ==
  ASSUME RequestsInv, Requests!SetText
  PROVE  RequestsInv'
<1> USE DEF Requests!SetText
<1>1. Requests!TypeOK'
  BY DEF RequestsInv, Requests!TypeOK, Requests!Program, Requests!Stages
<1>2. /\ LockInv' /\ ProgramInv' /\ SeenInv' /\ SentInv' /\ TakeInv'
      /\ SeesEarlierChanges'
  BY DEF RequestsInv, LockInv, ProgramInv, SeenInv, SentInv, Stale, TakeInv,
     SeesEarlierChanges
<1>3. VersionInv'
  BY DEF RequestsInv, Requests!TypeOK, VersionInv
<1>4. DocumentInv'
  BY DEF RequestsInv, Requests!TypeOK, DocumentInv, Requests!Program
<1>5. FreshInv'
  BY DEF RequestsInv, Requests!TypeOK, FreshInv, Stale, Fresh
<1> QED BY <1>1, <1>2, <1>3, <1>4, <1>5 DEF RequestsInv

\* A version that was read of the file before is one too old, and the file is being edited.
LEMMA AfterSetVersion ==
  ASSUME RequestsInv, Requests!SetVersion
  PROVE  RequestsInv'
<1> USE DEF Requests!SetVersion
<1>1. Requests!TypeOK'
  BY DEF RequestsInv, Requests!TypeOK, Requests!Program, Requests!Stages
<1>2. LockInv' /\ DocumentInv' /\ ProgramInv' /\ TakeInv' /\ SeesEarlierChanges'
  BY DEF RequestsInv, LockInv, DocumentInv, Requests!Program, ProgramInv, TakeInv,
     SeesEarlierChanges
<1>3. VersionInv'
  BY DEF RequestsInv, Requests!TypeOK, VersionInv
<1>4. SeenInv'
  BY DEF RequestsInv, Requests!TypeOK, SeenInv
<1>5. FreshInv'
  BY DEF RequestsInv, Requests!TypeOK, FreshInv, Stale, Fresh
<1>6. SentInv'
  BY DEF RequestsInv, Requests!TypeOK, SentInv, Stale
<1> QED BY <1>1, <1>2, <1>3, <1>4, <1>5, <1>6 DEF RequestsInv

\* The line map is no part of the invariant.
LEMMA AfterDropLineMap ==
  ASSUME RequestsInv, Requests!DropLineMap
  PROVE  RequestsInv'
<1> USE DEF Requests!DropLineMap
<1>1. Requests!TypeOK'
  BY DEF RequestsInv, Requests!TypeOK, Requests!Program, Requests!Stages
<1>2. /\ LockInv' /\ DocumentInv' /\ ProgramInv' /\ SeenInv' /\ FreshInv'
      /\ SentInv' /\ TakeInv' /\ SeesEarlierChanges'
  BY DEF RequestsInv, LockInv, DocumentInv, Requests!Program, ProgramInv, SeenInv,
     FreshInv, Stale, Fresh, SentInv, TakeInv, SeesEarlierChanges
<1>3. VersionInv'
  BY DEF RequestsInv, Requests!TypeOK, VersionInv
<1> QED BY <1>1, <1>2, <1>3 DEF RequestsInv

\* The file that was edited is stale from here on, and no update is running.
LEMMA AfterMarkFileAsDirty ==
  ASSUME RequestsInv, Requests!MarkFileAsDirty
  PROVE  RequestsInv'
<1> USE DEF Requests!MarkFileAsDirty, Requests!DirtyFile
<1>1. Requests!TypeOK'
  BY DEF RequestsInv, Requests!TypeOK, Requests!Program, Requests!Stages
<1>2. LockInv' /\ DocumentInv' /\ ProgramInv' /\ TakeInv' /\ SeesEarlierChanges'
  BY DEF RequestsInv, LockInv, DocumentInv, Requests!Program, ProgramInv, TakeInv,
     SeesEarlierChanges
<1>3. VersionInv'
  BY DEF RequestsInv, Requests!TypeOK, VersionInv
<1>4. SeenInv'
  BY DEF RequestsInv, Requests!TypeOK, SeenInv, LockInv
<1>5. FreshInv'
  BY DEF RequestsInv, Requests!TypeOK, FreshInv, Stale, Fresh
<1>6. SentInv'
  BY DEF RequestsInv, Requests!TypeOK, SentInv, Stale
<1> QED BY <1>1, <1>2, <1>3, <1>4, <1>5, <1>6 DEF RequestsInv

\* No file is being edited: each is stale, or as it is in the registry.
LEMMA AfterDispatch ==
  ASSUME RequestsInv, NEW q \in Request, NEW g \in File, Requests!Dispatch(q, g)
  PROVE  RequestsInv'
<1> USE DEF Requests!Dispatch
<1>1. Requests!TypeOK'
  BY DEF RequestsInv, Requests!TypeOK, Requests!Program, Requests!Stages
<1>2. VersionInv' /\ DocumentInv' /\ SeenInv' /\ FreshInv'
  BY DEF RequestsInv, VersionInv, DocumentInv, Requests!Program, SeenInv, FreshInv, Stale,
     Fresh
<1>3. LockInv'
  BY DEF RequestsInv, Requests!TypeOK, LockInv
<1>4. ProgramInv'
  BY DEF RequestsInv, Requests!TypeOK, ProgramInv
<1>5. SentInv'
  <2> SUFFICES ASSUME NEW r \in Request, NEW f \in File
               PROVE  /\ sent'[r][f] <= version[f]
                      /\ Stale(f) \/ document[f].text >= sent'[r][f]
                      /\ seen[f] # None => seen[f] >= sent'[r][f]
    BY DEF SentInv, Stale
  <2>1. CASE r # q
    BY <2>1 DEF RequestsInv, Requests!TypeOK, SentInv
  <2>2. CASE r = q
    <3>1. edited = NoFile /\ sent'[r][f] = text[f] /\ text[f] = version[f] /\ version[f] \in Nat
      BY <2>2 DEF RequestsInv, Requests!TypeOK, VersionInv
    <3>2. Stale(f) \/ document[f].text = text[f]
      <4>1. Stale(f) \/ Fresh(f)
        BY <3>1 DEF RequestsInv, FreshInv
      <4> QED BY <4>1 DEF Fresh
    <3>3. seen[f] # None => seen[f] = version[f]
      BY <3>1 DEF RequestsInv, SeenInv
    <3> QED BY <3>1, <3>2, <3>3
  <2> QED BY <2>1, <2>2
<1>6. TakeInv'
  BY DEF RequestsInv, Requests!TypeOK, TakeInv
<1>7. SeesEarlierChanges'
  BY DEF RequestsInv, Requests!TypeOK, SeesEarlierChanges
<1> QED BY <1>1, <1>2, <1>3, <1>4, <1>5, <1>6, <1>7 DEF RequestsInv

\* Nothing is stale, and the program is what the registry holds.
LEMMA AfterUpToDate ==
  ASSUME RequestsInv, NEW q \in Request, Requests!UpToDate(q)
  PROVE  RequestsInv'
<1> USE DEF Requests!UpToDate, Requests!Advance
<1>1. Requests!TypeOK'
  BY DEF RequestsInv, Requests!TypeOK, Requests!Program, Requests!Stages
<1>2. VersionInv' /\ DocumentInv' /\ SeenInv' /\ FreshInv' /\ SentInv'
  BY DEF RequestsInv, VersionInv, DocumentInv, Requests!Program, SeenInv, FreshInv, Stale,
     Fresh, SentInv
<1>3. LockInv'
  BY DEF RequestsInv, Requests!TypeOK, LockInv
<1>4. ProgramInv'
  BY DEF RequestsInv, Requests!TypeOK, ProgramInv
<1>5. TakeInv'
  BY DEF RequestsInv, Requests!TypeOK, TakeInv, LockInv, ProgramInv,
     SentInv, Stale
<1>6. SeesEarlierChanges'
  BY DEF RequestsInv, Requests!TypeOK, SeesEarlierChanges
<1> QED BY <1>1, <1>2, <1>3, <1>4, <1>5, <1>6 DEF RequestsInv

\* The files that were stale by the marks are those to be acquired.
LEMMA AfterBeginUpdate ==
  ASSUME RequestsInv, NEW q \in Request, Requests!BeginUpdate(q)
  PROVE  RequestsInv'
<1> USE DEF Requests!BeginUpdate, Requests!Advance, Requests!Changed
<1>1. Requests!TypeOK'
  BY DEF RequestsInv, Requests!TypeOK, Requests!Program, Requests!Stages
<1>2. VersionInv' /\ DocumentInv' /\ SeenInv'
  BY DEF RequestsInv, VersionInv, DocumentInv, Requests!Program, SeenInv
<1>3. LockInv'
  BY DEF RequestsInv, Requests!TypeOK, LockInv
<1>4. ProgramInv'
  BY DEF RequestsInv, Requests!TypeOK, ProgramInv
<1>5. FreshInv'
  BY DEF RequestsInv, Requests!TypeOK, FreshInv, Stale, Fresh
<1>6. SentInv'
  BY DEF RequestsInv, Requests!TypeOK, SentInv, Stale
<1>7. TakeInv'
  BY DEF RequestsInv, Requests!TypeOK, TakeInv
<1>8. SeesEarlierChanges'
  BY DEF RequestsInv, Requests!TypeOK, SeesEarlierChanges
<1> QED BY <1>1, <1>2, <1>3, <1>4, <1>5, <1>6, <1>7, <1>8 DEF RequestsInv

\* The version that is read is that of the script info.
LEMMA AfterReadVersion ==
  ASSUME RequestsInv, NEW g \in File, Requests!ReadVersion(g)
  PROVE  RequestsInv'
<1> USE DEF Requests!ReadVersion
<1>1. Requests!TypeOK'
  BY DEF RequestsInv, Requests!TypeOK, Requests!Program, Requests!Stages
<1>2. /\ VersionInv' /\ DocumentInv' /\ ProgramInv' /\ FreshInv' /\ TakeInv'
      /\ SeesEarlierChanges'
  BY DEF RequestsInv, VersionInv, DocumentInv, Requests!Program, ProgramInv, FreshInv,
     Stale, Fresh, TakeInv, SeesEarlierChanges
<1>3. LockInv'
  BY DEF RequestsInv, Requests!TypeOK, LockInv
<1>4. SeenInv'
  BY DEF RequestsInv, Requests!TypeOK, SeenInv
<1>5. SentInv'
  BY DEF RequestsInv, Requests!TypeOK, SentInv, Stale
<1> QED BY <1>1, <1>2, <1>3, <1>4, <1>5 DEF RequestsInv

\* A file whose version was read is parsed anew unless the registry has that version.
LEMMA AfterReadText ==
  ASSUME RequestsInv, NEW g \in File, Requests!ReadText(g)
  PROVE  RequestsInv'
<1> USE DEF Requests!ReadText, Requests!Parsed
<1>1. Requests!TypeOK'
  BY DEF RequestsInv, Requests!TypeOK, Requests!Program, Requests!Stages
<1>2. VersionInv' /\ TakeInv' /\ SeesEarlierChanges'
  BY DEF RequestsInv, VersionInv, TakeInv, SeesEarlierChanges
<1>3. LockInv'
  BY DEF RequestsInv, Requests!TypeOK, LockInv
<1>4. DocumentInv'
  BY DEF RequestsInv, Requests!TypeOK, DocumentInv, Requests!Program, SeenInv,
     VersionInv
<1>5. ProgramInv'
  BY DEF RequestsInv, Requests!TypeOK, ProgramInv, LockInv
<1>6. SeenInv'
  BY DEF RequestsInv, Requests!TypeOK, SeenInv
<1>7. FreshInv'
  <2> SUFFICES ASSUME NEW f \in File, ~ Stale(f)', edited # f
               PROVE  Fresh(f)'
    BY DEF FreshInv
  <2>1. mu # Nobody
    BY DEF RequestsInv, LockInv
  <2>2. CASE f # g
    BY <2>1, <2>2 DEF RequestsInv, Requests!TypeOK, FreshInv, Stale, Fresh
  <2>3. CASE f = g
    <3>1. seen[g] = version[g] /\ text[g] = version[g]
      BY <2>3 DEF RequestsInv, SeenInv, VersionInv
    <3>2. document[g] = [version |-> document[g].version, text |-> document[g].text]
      BY DEF RequestsInv, Requests!TypeOK, Requests!Program
    <3>3. document[g].version = seen[g] => document[g].text = text[g]
      <4>1. /\ document[g].version <= document[g].text
            /\ document[g].text <= text[g]
        BY DEF RequestsInv, DocumentInv
      <4>2. /\ document[g].version \in Nat /\ document[g].text \in Nat
            /\ text[g] \in Nat
        BY DEF RequestsInv, Requests!TypeOK, Requests!Program
      <4> QED BY <3>1, <4>1, <4>2
    <3>4. document'[g] = [version |-> version[g], text |-> text[g]]
      BY <3>1, <3>2, <3>3 DEF RequestsInv, Requests!TypeOK, Requests!Program
    <3> QED BY <2>3, <3>4 DEF Fresh
  <2> QED BY <2>2, <2>3
<1>8. SentInv'
  BY DEF RequestsInv, Requests!TypeOK, SentInv, Stale, LockInv, SeenInv,
     DocumentInv, Requests!Program, VersionInv
<1> QED BY <1>1, <1>2, <1>3, <1>4, <1>5, <1>6, <1>7, <1>8 DEF RequestsInv

\* All files are stale again.
LEMMA AfterCannotReplaceFile ==
  ASSUME RequestsInv, NEW q \in Request, Requests!CannotReplaceFile(q)
  PROVE  RequestsInv'
<1> USE DEF Requests!CannotReplaceFile
<1>1. Requests!TypeOK'
  BY DEF RequestsInv, Requests!TypeOK, Requests!Program, Requests!Stages
<1>2. VersionInv' /\ DocumentInv' /\ SeenInv'
  BY DEF RequestsInv, VersionInv, DocumentInv, Requests!Program, SeenInv
<1>3. LockInv'
  BY DEF RequestsInv, Requests!TypeOK, LockInv
<1>4. ProgramInv'
  BY DEF RequestsInv, Requests!TypeOK, ProgramInv
<1>5. FreshInv'
  BY DEF RequestsInv, Requests!TypeOK, FreshInv, Stale, Fresh
<1>6. SentInv'
  BY DEF RequestsInv, Requests!TypeOK, SentInv, Stale
<1>7. TakeInv'
  BY DEF RequestsInv, Requests!TypeOK, TakeInv
<1>8. SeesEarlierChanges'
  BY DEF RequestsInv, Requests!TypeOK, SeesEarlierChanges
<1> QED BY <1>1, <1>2, <1>3, <1>4, <1>5, <1>6, <1>7, <1>8 DEF RequestsInv

\* The program becomes what the registry holds.
LEMMA AfterInstallProgram ==
  ASSUME RequestsInv, NEW q \in Request, Requests!InstallProgram(q)
  PROVE  RequestsInv'
<1> USE DEF Requests!InstallProgram
<1>1. Requests!TypeOK'
  BY DEF RequestsInv, Requests!TypeOK, Requests!Program, Requests!Stages
<1>2. VersionInv' /\ SeenInv' /\ FreshInv' /\ SentInv'
  BY DEF RequestsInv, VersionInv, SeenInv, FreshInv, Stale, Fresh, SentInv
<1>3. LockInv'
  BY DEF RequestsInv, Requests!TypeOK, LockInv
<1>4. DocumentInv'
  BY DEF RequestsInv, Requests!TypeOK, DocumentInv, Requests!Program
<1>5. ProgramInv'
  BY DEF RequestsInv, Requests!TypeOK, ProgramInv
<1>6. TakeInv'
  BY DEF RequestsInv, Requests!TypeOK, TakeInv, DocumentInv, Requests!Program, SentInv,
     Stale
<1>7. SeesEarlierChanges'
  BY DEF RequestsInv, Requests!TypeOK, SeesEarlierChanges
<1> QED BY <1>1, <1>2, <1>3, <1>4, <1>5, <1>6, <1>7 DEF RequestsInv

\* Nothing was left to be acquired, so that nothing is stale.
LEMMA AfterFinishUpdate ==
  ASSUME RequestsInv, NEW q \in Request, Requests!FinishUpdate(q)
  PROVE  RequestsInv'
<1> USE DEF Requests!FinishUpdate, Requests!Advance
<1>1. Requests!TypeOK'
  BY DEF RequestsInv, Requests!TypeOK, Requests!Program, Requests!Stages
<1>2. VersionInv' /\ DocumentInv' /\ SeenInv'
  BY DEF RequestsInv, VersionInv, DocumentInv, Requests!Program, SeenInv
<1>3. LockInv'
  BY DEF RequestsInv, Requests!TypeOK, LockInv
<1>4. ProgramInv'
  BY DEF RequestsInv, Requests!TypeOK, ProgramInv
<1>5. FreshInv'
  BY DEF RequestsInv, Requests!TypeOK, FreshInv, Stale, Fresh, LockInv
<1>6. SentInv'
  BY DEF RequestsInv, Requests!TypeOK, SentInv, Stale, LockInv
<1>7. TakeInv'
  BY DEF RequestsInv, Requests!TypeOK, TakeInv, LockInv, ProgramInv,
     SentInv, Stale
<1>8. SeesEarlierChanges'
  BY DEF RequestsInv, Requests!TypeOK, SeesEarlierChanges
<1> QED BY <1>1, <1>2, <1>3, <1>4, <1>5, <1>6, <1>7, <1>8 DEF RequestsInv

\* The program has become no older since the request took it for up to date.
LEMMA AfterGetProgram ==
  ASSUME RequestsInv, NEW q \in Request, Requests!GetProgram(q)
  PROVE  RequestsInv'
<1> USE DEF Requests!GetProgram, Requests!Advance
<1>1. Requests!TypeOK'
  BY DEF RequestsInv, Requests!TypeOK, Requests!Program, Requests!Stages
<1>2. VersionInv' /\ DocumentInv' /\ SeenInv' /\ FreshInv' /\ SentInv'
  BY DEF RequestsInv, VersionInv, DocumentInv, Requests!Program, SeenInv, FreshInv, Stale,
     Fresh, SentInv
<1>3. LockInv'
  BY DEF RequestsInv, Requests!TypeOK, LockInv
<1>4. ProgramInv'
  BY DEF RequestsInv, Requests!TypeOK, ProgramInv
<1>5. TakeInv'
  BY DEF RequestsInv, Requests!TypeOK, TakeInv
<1>6. SeesEarlierChanges'
  BY DEF RequestsInv, Requests!TypeOK, SeesEarlierChanges, TakeInv
<1> QED BY <1>1, <1>2, <1>3, <1>4, <1>5, <1>6 DEF RequestsInv

\* Converting positions does no more than to compute line maps.
LEMMA AfterConvert ==
  ASSUME RequestsInv, NEW q \in Request,
         \/ Requests!GetLineMap(q) \/ Requests!Look(q) \/ Requests!ComputeLineStarts(q)
         \/ Requests!StoreLineMap(q) \/ Requests!Answer(q)
  PROVE  RequestsInv'
<1> DEFINE Converting == {"compare", "look", "compute", "store", "answer"}
<1>1. UNCHANGED <<text, version, Requests!dispatchVars, mu, Requests!dirtyVars,
                  Requests!updateVars, about, snapshot, sent>>
  BY DEF Requests!GetLineMap, Requests!Look, Requests!ComputeLineStarts,
     Requests!StoreLineMap, Requests!Answer
<1>2. PICK s \in Converting \cup {"new"} :
         stage[q] \in Converting /\ stage' = [stage EXCEPT ![q] = s]
  BY DEF Requests!GetLineMap, Requests!Look, Requests!ComputeLineStarts,
     Requests!StoreLineMap, Requests!Answer, Requests!Advance
<1>3. Requests!TypeOK'
  <2>1. lineMap' \in [File -> Nat] /\ lines' \in [Request -> Nat]
    <3>1. CASE Requests!GetLineMap(q) \/ Requests!Look(q) \/ Requests!Answer(q)
      BY <3>1 DEF Requests!GetLineMap, Requests!Look, Requests!Answer, RequestsInv,
         Requests!TypeOK
    <3>2. CASE Requests!ComputeLineStarts(q)
      BY <3>2 DEF Requests!ComputeLineStarts, RequestsInv, Requests!TypeOK
    <3>3. CASE Requests!StoreLineMap(q)
      BY <3>3 DEF Requests!StoreLineMap, RequestsInv, Requests!TypeOK
    <3> QED BY <3>1, <3>2, <3>3
  <2> QED BY <1>1, <1>2, <2>1 DEF RequestsInv, Requests!TypeOK, Requests!Stages
<1>4. VersionInv' /\ DocumentInv' /\ SeenInv' /\ FreshInv' /\ SentInv'
  BY <1>1 DEF RequestsInv, VersionInv, DocumentInv, SeenInv, FreshInv, Stale, Fresh,
     SentInv
<1>5. LockInv' /\ ProgramInv'
  BY <1>1, <1>2 DEF RequestsInv, Requests!TypeOK, LockInv, ProgramInv
<1>6. TakeInv'
  BY <1>1, <1>2 DEF RequestsInv, Requests!TypeOK, TakeInv
<1>7. SeesEarlierChanges'
  BY <1>1, <1>2 DEF RequestsInv, Requests!TypeOK, SeesEarlierChanges
<1> QED BY <1>3, <1>4, <1>5, <1>6, <1>7 DEF RequestsInv

-----------------------------------------------------------------------------
\* No step of the dispatcher, of an update or of a request leaves the invariant.
LEMMA RequestsInductive == RequestsInv /\ [Requests!Next]_(Requests!vars) => RequestsInv'
<1> SUFFICES ASSUME RequestsInv, [Requests!Next]_(Requests!vars) PROVE RequestsInv'
  OBVIOUS
<1>1. CASE Requests!Edit
  BY <1>1, AfterChangeFile, AfterSetText, AfterSetVersion, AfterDropLineMap,
     AfterMarkFileAsDirty DEF Requests!Edit
<1>2. ASSUME NEW f \in File, Requests!ReadVersion(f) \/ Requests!ReadText(f) PROVE RequestsInv'
  BY <1>2, AfterReadVersion, AfterReadText
<1>3. ASSUME NEW r \in Request, Requests!UpdateGraph(r) PROVE RequestsInv'
  BY <1>3, AfterUpToDate, AfterBeginUpdate, AfterCannotReplaceFile, AfterInstallProgram,
     AfterFinishUpdate DEF Requests!UpdateGraph
<1>4. ASSUME NEW r \in Request, Requests!Handle(r) PROVE RequestsInv'
  BY <1>4, AfterDispatch, AfterGetProgram, AfterConvert DEF Requests!Handle
<1>5. CASE UNCHANGED Requests!vars
  BY <1>5 DEF Requests!vars, RequestsInv, Requests!TypeOK, VersionInv, LockInv,
     DocumentInv, ProgramInv, SeenInv, FreshInv, Stale, Fresh, SentInv, TakeInv,
     SeesEarlierChanges
<1> QED BY <1>1, <1>2, <1>3, <1>4, <1>5 DEF Requests!Next

\* The invariant holds in every state.
LEMMA RequestsInvariant == Requests!Spec => []RequestsInv
<1> QED BY RequestsInitially, RequestsInductive, PTL DEF Requests!Spec

\* However edits and updates interleave, a request works with a program in which no file
\* is older than when the request was dispatched.
THEOREM SeesChanges == Requests!Spec => []SeesEarlierChanges
<1>1. RequestsInv => SeesEarlierChanges
  BY DEF RequestsInv
<1> QED BY <1>1, RequestsInvariant, PTL

\* When nobody edits or updates, what is not marked dirty is up to date in the program,
\* for all that texts and versions are read without a lock.
THEOREM NothingForgotten == Requests!Spec => []NoChangeIsForgotten
<1>1. RequestsInv => NoChangeIsForgotten
  <2> SUFFICES ASSUME RequestsInv, Free, step = "idle", ~dirty, NEW f \in File
               PROVE  program[f] = [version |-> version[f], text |-> text[f]]
    BY DEF NoChangeIsForgotten
  <2>1. edited # f
    BY DEF RequestsInv, Requests!TypeOK
  <2>2. Fresh(f)
    BY <2>1 DEF RequestsInv, FreshInv, Stale
  <2>3. program = document
    BY DEF RequestsInv, LockInv, ProgramInv
  <2> QED BY <2>2, <2>3 DEF Fresh
<1> QED BY <1>1, RequestsInvariant, PTL
=============================================================================
