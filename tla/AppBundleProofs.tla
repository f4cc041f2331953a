--------------------------- MODULE AppBundleProofs ---------------------------
(***************************************************************************)
(* The installation of app bundles, for any number of managers, bundles    *)
(* and managed clusters, whatever fails, crashes or is edited.             *)
(***************************************************************************)
EXTENDS AppBundle, TLAPS

\* What the order of Reconcile comes to.
LEMMA PartList ==
    /\ Len(Parts) = 4
    /\ Parts[1] = "namespace" /\ Parts[2] = "account" /\ Parts[3] = "binding" /\ Parts[4] = "job"
    /\ \A n \in 1 .. 4 : Parts[n] = "job" => n = 4
    /\ \A n \in 1 .. 4 : n # 4 => Parts[n] \in {"namespace", "account", "binding"}
  BY DEF Parts

LEMMA Initially == Init => AppInv
  <1> SUFFICES ASSUME Init PROVE AppInv
    OBVIOUS
  <1> USE DEF Init
  <1>1. bundle \in [Bundles -> BundleObj]
    BY DEF BundleObj
  <1>2. w \in [Managers -> Worker]
    BY PartList DEF Idle, Worker
  <1>3. Shapes
    BY <1>1, <1>2 DEF Shapes
  <1>4. PartsMade
    BY DEF PartsMade, Idle
  <1> QED
    BY <1>3, <1>4 DEF AppInv, AccountBeforeJob, InstalledHasJob

\* The worker of m comes to its next part.
LEMMA NextPartMoves ==
    ASSUME NEW m \in Managers, w \in [Managers -> Worker], NextPart(m)
    PROVE  /\ w' \in [Managers -> Worker]
           /\ \A n \in Managers \ {m} : w'[n] = w[n]
           /\ w'[m].at = w[m].at /\ w'[m].bundle = w[m].bundle
           /\ w[m].part = 4 => w'[m].step = "status" /\ w'[m].part = 4
           /\ w[m].part # 4 => w'[m].step = "look" /\ w'[m].part = w[m].part + 1
  <1>0. w[m] \in Worker /\ w[m].part \in 1 .. 4
    BY PartList DEF Worker
  <1>1. CASE w[m].part = 4
    <2> DEFINE moved == [w[m] EXCEPT !.step = "status"]
    <2>1. w' = [w EXCEPT ![m] = moved]
      BY <1>1, PartList DEF NextPart
    <2>2. /\ moved \in Worker /\ moved.step = "status" /\ moved.part = 4
          /\ moved.at = w[m].at /\ moved.bundle = w[m].bundle
      BY <1>0, <1>1, PartList DEF Worker
    <2> HIDE DEF moved
    <2> QED
      BY <1>1, <2>1, <2>2
  <1>2. CASE w[m].part # 4
    <2> DEFINE moved == [w[m] EXCEPT !.step = "look", !.part = @ + 1]
    <2>1. w' = [w EXCEPT ![m] = moved]
      BY <1>2, PartList DEF NextPart
    <2>a. w[m].part + 1 \in 1 .. Len(Parts)
      BY <1>0, <1>2, PartList
    <2>2. /\ moved \in Worker /\ moved.step = "look" /\ moved.part = w[m].part + 1
          /\ moved.at = w[m].at /\ moved.bundle = w[m].bundle
      BY <1>0, <2>a DEF Worker
    <2> HIDE DEF moved
    <2> QED
      BY <1>2, <2>1, <2>2
  <1> QED
    BY <1>1, <1>2

\* The worker of m ends its reconcile.
LEMMA EndsIdle ==
    ASSUME NEW m \in Managers, w \in [Managers -> Worker], w' = [w EXCEPT ![m] = Idle]
    PROVE  /\ w' \in [Managers -> Worker]
           /\ \A n \in Managers \ {m} : w'[n] = w[n]
           /\ w'[m].step = "idle"
  BY PartList DEF Idle, Worker

\* What is installed stays, so workers that do not move keep what they know.
LEMMA MoreInstalled ==
    ASSUME AppInv, NEW m \in Managers,
           \A n \in Managers \ {m} : w'[n] = w[n],
           w'[m] = w[m] \/ (w'[m].step # "idle" => Knows(m)'),
           \A r \in Remotes : remote[r] \subseteq remote'[r],
           \A r \in Remotes, b \in Bundles : b \in jobs[r] => b \in jobs'[r]
    PROVE  PartsMade'
  <1> SUFFICES ASSUME NEW n \in Managers, w'[n].step # "idle", w'[n] = w[n]
               PROVE  Knows(n)'
    BY DEF PartsMade
  <1>1. Knows(n)
    BY DEF AppInv, PartsMade
  <1>2. \A i \in 1 .. 3 : Made(n, i)' => Made(n, i)
    BY DEF Made
  <1>3. \A i \in 1 .. 3 : Made(n, i)' => Parts[i] \in remote'[w'[n].at]
    BY <1>1, <1>2 DEF Knows
  <1> QED
    BY <1>1, <1>3 DEF Knows

\* Nothing is installed and no phase written: the rest of the invariant.
LEMMA NothingInstalled ==
    ASSUME AppInv, UNCHANGED installed,
           \A b \in Bundles : bundle'[b].installed => bundle[b].installed
    PROVE  AccountBeforeJob' /\ InstalledHasJob'
  BY DEF AppInv, AccountBeforeJob, InstalledHasJob, installed

\* A reconcile begins.
LEMMA LookKeeps == ASSUME AppInv, NEW m \in Managers, Look(m) PROVE AppInv'
  <1>0. Shapes /\ w \in [Managers -> Worker]
    BY DEF AppInv, Shapes
  <1>1. UNCHANGED <<objects, caches, installed>>
    BY DEF Look
  <1>2. AccountBeforeJob' /\ InstalledHasJob'
    BY <1>1, NothingInstalled DEF objects
  <1>3. /\ w' \in [Managers -> Worker]
        /\ \A n \in Managers \ {m} : w'[n] = w[n]
        /\ w' = w \/ Knows(m)'
    <2>1. CASE w' = w
      BY <1>0, <2>1
    <2>2. CASE w' # w
      <3>1. PICK b \in queue[m] :
                /\ Ready(m)
                /\ w' = [w EXCEPT ![m] = [step |-> "look", bundle |-> {b}, at |-> vkube[m],
                                          part |-> 1, ver |-> vbundle[m][b].ver]]
        BY <2>2 DEF Look
      <3> DEFINE found == [step |-> "look", bundle |-> {b}, at |-> vkube[m],
                           part |-> 1, ver |-> vbundle[m][b].ver]
      <3>2. b \in Bundles /\ vkube[m] \in Remotes /\ vbundle[m][b].ver \in Nat
        BY <1>0, <3>1 DEF Shapes, BundleObj, Ready
      <3>3. found \in Worker
        BY <3>2, PartList DEF Worker
      <3>4. w' = [w EXCEPT ![m] = found]
        BY <3>1
      <3>5. w'[m] = found
        BY <1>0, <3>4
      <3>6. Knows(m)'
        BY <3>2, <3>5 DEF Knows, Made
      <3> HIDE DEF found
      <3> QED
        BY <1>0, <3>3, <3>4, <3>6
    <2> QED
      BY <2>1, <2>2
  <1>4. PartsMade'
    BY <1>1, <1>3, MoreInstalled DEF installed
  <1>5. queue' \in [Managers -> SUBSET Bundles]
    BY <1>0 DEF Look, Shapes
  <1>6. Shapes'
    BY <1>0, <1>1, <1>3, <1>5 DEF Shapes, objects, caches, installed
  <1> QED
    BY <1>2, <1>4, <1>6 DEF AppInv

\* A reconcile that goes back to the queue, or ends there, changes nothing.
LEMMA EndKeeps ==
    ASSUME AppInv, NEW m \in Managers, Again(m) \/ Return(m),
           UNCHANGED <<kube, caches, installed>>, bundle' \in [Bundles -> BundleObj],
           \A b \in Bundles : bundle'[b].installed =>
              bundle[b].installed \/ (\E r \in Remotes : b \in jobs[r])
    PROVE  AppInv'
  <1>0. Shapes /\ w \in [Managers -> Worker] /\ w[m] \in Worker
    BY DEF AppInv, Shapes
  <1>1. w' = [w EXCEPT ![m] = Idle]
    BY DEF Again, Return
  <1>2. /\ w' \in [Managers -> Worker]
        /\ \A n \in Managers \ {m} : w'[n] = w[n]
        /\ w'[m].step = "idle"
    BY <1>0, <1>1, EndsIdle
  <1>3. queue' \in [Managers -> SUBSET Bundles]
    <2>1. queue \in [Managers -> SUBSET Bundles] /\ w[m].bundle \in SUBSET Bundles
      BY <1>0 DEF Shapes, Worker
    <2>2. CASE Again(m)
      BY <2>1, <2>2 DEF Again
    <2>3. CASE Return(m)
      BY <2>1, <2>3 DEF Return
    <2> QED
      BY <2>2, <2>3
  <1>4. Shapes'
    BY <1>0, <1>2, <1>3 DEF Shapes, caches, installed
  <1>5. PartsMade'
    BY <1>2, MoreInstalled DEF installed
  <1>6. AccountBeforeJob' /\ InstalledHasJob'
    BY DEF AppInv, AccountBeforeJob, InstalledHasJob, installed
  <1> QED
    BY <1>4, <1>5, <1>6 DEF AppInv

\* What a worker at a part knows, and that with the part itself made it knows
\* the same of the next.
LEMMA AtPart ==
    ASSUME AppInv, NEW m \in Managers, w[m].step # "idle"
    PROVE  /\ w[m].at \in Remotes /\ w[m].part \in 1 .. 4
           /\ \E b \in Bundles : w[m].bundle = {b}
           /\ \A n \in 1 .. 3 : Made(m, n) => Parts[n] \in remote[w[m].at]
           /\ Part(m) = "job" <=> w[m].part = 4
  <1>1. Knows(m) /\ w[m] \in Worker
    BY DEF AppInv, PartsMade, Shapes
  <1>2. w[m].part \in 1 .. 4
    BY <1>1, PartList DEF Worker
  <1> QED
    BY <1>1, <1>2, PartList DEF Knows, Part

LEMMA PartMade ==
    ASSUME AppInv, NEW m \in Managers, w[m].step # "idle", NextPart(m),
           w[m].part = 4 => \A b \in w[m].bundle : b \in jobs'[w[m].at],
           w[m].part # 4 => Parts[w[m].part] \in remote'[w[m].at],
           \A r \in Remotes : remote[r] \subseteq remote'[r]
    PROVE  Knows(m)'
  <1>0. w \in [Managers -> Worker]
    BY DEF AppInv, Shapes
  <1>1. /\ w'[m].at = w[m].at /\ w'[m].bundle = w[m].bundle
        /\ w[m].part = 4 => w'[m].step = "status" /\ w'[m].part = 4
        /\ w[m].part # 4 => w'[m].step = "look" /\ w'[m].part = w[m].part + 1
    BY <1>0, NextPartMoves
  <1>2. /\ w[m].at \in Remotes /\ w[m].part \in 1 .. 4
        /\ \E b \in Bundles : w[m].bundle = {b}
        /\ \A n \in 1 .. 3 : Made(m, n) => Parts[n] \in remote[w[m].at]
    BY AtPart
  <1>3. ASSUME NEW n \in 1 .. 3, Made(m, n)'
        PROVE  Parts[n] \in remote'[w'[m].at]
    <2>1. CASE w[m].part = 4
      BY <1>1, <1>2, <2>1 DEF Made
    <2>2. CASE w[m].part # 4
      <3>1. n < w[m].part \/ n = w[m].part
        BY <1>1, <1>2, <1>3, <2>2 DEF Made
      <3> QED
        BY <1>1, <1>2, <2>2, <3>1 DEF Made
    <2> QED
      BY <2>1, <2>2
  <1> QED
    BY <1>1, <1>2, <1>3, PartList DEF Knows

\* What a worker at a part has to show of its next state.
LEMMA StepKeeps ==
    ASSUME AppInv, NEW m \in Managers, w' \in [Managers -> Worker],
           \A n \in Managers \ {m} : w'[n] = w[n],
           Knows(m)', UNCHANGED <<objects, caches, queue>>,
           remote' \in [Remotes -> SUBSET {"namespace", "account", "binding"}],
           jobs' \in [Remotes -> SUBSET Bundles],
           \A r \in Remotes : remote[r] \subseteq remote'[r],
           \A r \in Remotes, b \in Bundles : b \in jobs[r] => b \in jobs'[r],
           AccountBeforeJob'
    PROVE  AppInv'
  <1>1. Shapes'
    BY DEF AppInv, Shapes, objects, caches
  <1>2. PartsMade'
    BY MoreInstalled
  <1>3. InstalledHasJob'
    BY DEF AppInv, InstalledHasJob, objects
  <1> QED
    BY <1>1, <1>2, <1>3 DEF AppInv

\* A part is looked up: it is there, or it will be made.
LEMMA GetPartKeeps == ASSUME AppInv, NEW m \in Managers, GetPart(m) PROVE AppInv'
  <1>0. /\ Shapes /\ w \in [Managers -> Worker] /\ w[m] \in Worker /\ Knows(m)
        /\ w[m].step = "look" /\ UNCHANGED <<objects, caches, installed>>
    BY DEF AppInv, Shapes, PartsMade, GetPart
  <1>1. AccountBeforeJob'
    BY <1>0, NothingInstalled DEF objects
  <1>2. /\ w[m].at \in Remotes /\ w[m].part \in 1 .. 4
        /\ \E b \in Bundles : w[m].bundle = {b}
        /\ Part(m) = "job" <=> w[m].part = 4
    BY <1>0, AtPart
  <1>a. /\ remote' \in [Remotes -> SUBSET {"namespace", "account", "binding"}]
        /\ jobs' \in [Remotes -> SUBSET Bundles]
        /\ \A r \in Remotes : remote[r] \subseteq remote'[r]
        /\ \A r \in Remotes, b \in Bundles : b \in jobs[r] => b \in jobs'[r]
    BY <1>0 DEF installed, Shapes
  <1>3. CASE Exists(m) /\ NextPart(m) /\ UNCHANGED queue
    <2>1. w' \in [Managers -> Worker] /\ \A n \in Managers \ {m} : w'[n] = w[n]
      BY <1>0, <1>3, NextPartMoves
    <2>2. Knows(m)'
      BY <1>0, <1>2, <1>3, PartMade DEF Exists, Part, installed
    <2> QED
      BY <1>0, <1>1, <1>a, <1>3, <2>1, <2>2, StepKeeps
  <1>4. CASE w' = [w EXCEPT ![m].step = "make"] /\ UNCHANGED queue
    <2> DEFINE making == [w[m] EXCEPT !.step = "make"]
    <2>1. /\ making \in Worker /\ making.at = w[m].at /\ making.bundle = w[m].bundle
          /\ making.step = "make" /\ making.part = w[m].part
      BY <1>0 DEF Worker
    <2>2. w' = [w EXCEPT ![m] = making]
      BY <1>4
    <2> HIDE DEF making
    <2>3. w' \in [Managers -> Worker] /\ (\A n \in Managers \ {m} : w'[n] = w[n]) /\ w'[m] = making
      BY <1>0, <2>1, <2>2
    <2>4. Knows(m)'
      BY <1>0, <2>1, <2>3 DEF Knows, Made, installed
    <2> QED
      BY <1>0, <1>1, <1>a, <1>4, <2>3, <2>4, StepKeeps
  <1>5. CASE Again(m)
    BY <1>0, <1>5, EndKeeps DEF objects, Shapes
  <1> QED
    BY <1>3, <1>4, <1>5 DEF GetPart

\* The job is created: it was not there, and all it needs is.
LEMMA JobMade ==
    ASSUME AppInv, NEW m \in Managers, w[m].step = "make", ~Refused(m), w[m].part = 4,
           jobs' = [jobs EXCEPT ![w[m].at] = @ \cup w[m].bundle],
           UNCHANGED remote
    PROVE  /\ jobs' \in [Remotes -> SUBSET Bundles]
           /\ \A r \in Remotes, b \in Bundles : b \in jobs[r] => b \in jobs'[r]
           /\ \A b \in w[m].bundle : b \in jobs'[w[m].at]
           /\ AccountBeforeJob'
  <1>1. /\ w[m].at \in Remotes /\ Part(m) = "job"
        /\ \A n \in 1 .. 3 : Made(m, n) => Parts[n] \in remote[w[m].at]
    BY AtPart
  <1>2. PICK b \in Bundles : w[m].bundle = {b}
    BY AtPart
  <1>3. /\ jobs \in [Remotes -> SUBSET Bundles]
        /\ remote \in [Remotes -> SUBSET {"namespace", "account", "binding"}]
    BY DEF AppInv, Shapes
  <1>5. /\ jobs' \in [Remotes -> SUBSET Bundles]
        /\ jobs'[w[m].at] = jobs[w[m].at] \cup {b}
        /\ \A r \in Remotes : r # w[m].at => jobs'[r] = jobs[r]
    BY <1>1, <1>2, <1>3
  <1>6. remote[w[m].at] = {"namespace", "account", "binding"}
    <2>1. Made(m, 1) /\ Made(m, 2) /\ Made(m, 3)
      BY DEF Made
    <2> QED
      BY <1>1, <1>3, <2>1, PartList
  <1>7. AccountBeforeJob'
    BY <1>5, <1>6 DEF AppInv, AccountBeforeJob
  <1> QED
    BY <1>2, <1>5, <1>7

LEMMA CreatePartKeeps == ASSUME AppInv, NEW m \in Managers, CreatePart(m) PROVE AppInv'
  <1>0. /\ Shapes /\ w \in [Managers -> Worker] /\ w[m].step = "make"
        /\ UNCHANGED <<objects, caches>>
    BY DEF AppInv, Shapes, CreatePart
  <1>1. /\ w[m].at \in Remotes /\ w[m].part \in 1 .. 4
        /\ Part(m) = "job" <=> w[m].part = 4
    BY <1>0, AtPart
  <1>2. CASE NextPart(m) /\ UNCHANGED queue /\ ~Refused(m)
             /\ IF Part(m) = "job"
                THEN /\ jobs' = [jobs EXCEPT ![w[m].at] = @ \cup w[m].bundle]
                     /\ UNCHANGED remote
                ELSE /\ remote' = [remote EXCEPT ![w[m].at] = @ \cup {Part(m)}]
                     /\ UNCHANGED jobs
    <2>1. w' \in [Managers -> Worker] /\ \A n \in Managers \ {m} : w'[n] = w[n]
      BY <1>0, <1>2, NextPartMoves
    <2>2. CASE w[m].part = 4
      <3>1. /\ jobs' = [jobs EXCEPT ![w[m].at] = @ \cup w[m].bundle]
            /\ UNCHANGED remote
        BY <1>1, <1>2, <2>2
      <3>2. /\ jobs' \in [Remotes -> SUBSET Bundles]
            /\ \A r \in Remotes, b \in Bundles : b \in jobs[r] => b \in jobs'[r]
            /\ \A b \in w[m].bundle : b \in jobs'[w[m].at]
            /\ AccountBeforeJob'
        BY <1>0, <1>2, <2>2, <3>1, JobMade
      <3>3. /\ remote' \in [Remotes -> SUBSET {"namespace", "account", "binding"}]
            /\ \A r \in Remotes : remote[r] \subseteq remote'[r]
        BY <1>0, <3>1 DEF Shapes
      <3>4. Knows(m)'
        BY <1>0, <1>2, <2>2, <3>2, <3>3, PartMade
      <3> QED
        BY <1>0, <1>2, <2>1, <3>2, <3>3, <3>4, StepKeeps
    <2>3. CASE w[m].part # 4
      <3>1. remote' = [remote EXCEPT ![w[m].at] = @ \cup {Part(m)}] /\ UNCHANGED jobs
        BY <1>1, <1>2, <2>3
      <3>2. Part(m) = Parts[w[m].part] /\ Part(m) \in {"namespace", "account", "binding"}
        BY <1>1, <2>3, PartList DEF Part
      <3>3. /\ remote' \in [Remotes -> SUBSET {"namespace", "account", "binding"}]
            /\ \A r \in Remotes : remote[r] \subseteq remote'[r]
            /\ Parts[w[m].part] \in remote'[w[m].at]
        BY <1>0, <1>1, <3>1, <3>2 DEF Shapes
      <3>4. /\ jobs' \in [Remotes -> SUBSET Bundles]
            /\ \A r \in Remotes, b \in Bundles : b \in jobs[r] => b \in jobs'[r]
        BY <1>0, <3>1 DEF Shapes
      <3>5. AccountBeforeJob'
        BY <3>1, <3>3 DEF AppInv, AccountBeforeJob
      <3>6. Knows(m)'
        BY <1>0, <1>2, <2>3, <3>3, PartMade
      <3> QED
        BY <1>0, <1>2, <2>1, <3>3, <3>4, <3>5, <3>6, StepKeeps
    <2> QED
      BY <2>2, <2>3
  <1>3. CASE Again(m) /\ UNCHANGED installed
    BY <1>0, <1>3, EndKeeps DEF objects, Shapes
  <1> QED
    BY <1>2, <1>3 DEF CreatePart

\* The phase is written only when the job is there.
LEMMA WritePhaseKeeps == ASSUME AppInv, NEW m \in Managers, WritePhase(m) PROVE AppInv'
  <1>0. /\ Shapes /\ Knows(m) /\ UNCHANGED <<running, kube, caches, installed>>
        /\ w[m].step = "status"
    BY DEF AppInv, PartsMade, WritePhase
  <1>1. PICK b \in w[m].bundle :
            \/ /\ bundle' = [bundle EXCEPT ![b] = [installed |-> TRUE, ver |-> @.ver + 1]]
               /\ Return(m)
            \/ Again(m) /\ UNCHANGED bundle
    BY DEF WritePhase
  <1>2. b \in Bundles /\ w[m].at \in Remotes /\ b \in jobs[w[m].at]
    BY <1>0 DEF Knows
  <1>3. CASE Again(m) /\ UNCHANGED bundle
    BY <1>0, <1>3, EndKeeps DEF Shapes
  <1>4. CASE /\ bundle' = [bundle EXCEPT ![b] = [installed |-> TRUE, ver |-> @.ver + 1]]
             /\ Return(m)
    <2>1. bundle \in [Bundles -> BundleObj] /\ bundle[b].ver + 1 \in Nat
      BY <1>0, <1>2 DEF Shapes, BundleObj
    <2> DEFINE record == [installed |-> TRUE, ver |-> bundle[b].ver + 1]
    <2>2. record \in BundleObj
      BY <2>1 DEF BundleObj
    <2>3. bundle' = [bundle EXCEPT ![b] = record]
      BY <1>4
    <2> HIDE DEF record
    <2>4. /\ bundle' \in [Bundles -> BundleObj]
          /\ \A c \in Bundles : c # b => bundle'[c] = bundle[c]
      BY <2>1, <2>2, <2>3
    <2> QED
      BY <1>0, <1>2, <1>4, <2>4, EndKeeps
  <1> QED
    BY <1>1, <1>3, <1>4

\* A dead manager knows nothing; the others know what they did.
LEMMA CrashKeeps == ASSUME AppInv, NEW m \in Managers, Crash(m) PROVE AppInv'
  <1>0. /\ Shapes /\ w \in [Managers -> Worker] /\ UNCHANGED <<objects, installed>>
        /\ w' = [w EXCEPT ![m] = Idle] /\ queue' = [queue EXCEPT ![m] = Bundles]
        /\ vbundle' = [vbundle EXCEPT ![m] = bundle] /\ vkube' = [vkube EXCEPT ![m] = kube]
    BY DEF AppInv, Shapes, Crash
  <1>1. /\ w' \in [Managers -> Worker]
        /\ \A n \in Managers \ {m} : w'[n] = w[n]
        /\ w'[m].step = "idle"
    BY <1>0, EndsIdle
  <1>2. /\ queue' \in [Managers -> SUBSET Bundles]
        /\ vbundle' \in [Managers -> [Bundles -> BundleObj]]
        /\ vkube' \in [Managers -> Remotes \cup {None}]
    BY <1>0 DEF Shapes
  <1>3. Shapes'
    BY <1>0, <1>1, <1>2 DEF Shapes, objects, installed
  <1>4. PartsMade'
    BY <1>0, <1>1, MoreInstalled DEF installed
  <1>5. AccountBeforeJob' /\ InstalledHasJob'
    BY <1>0, NothingInstalled DEF objects
  <1> QED
    BY <1>3, <1>4, <1>5 DEF AppInv

\* Nothing the workers know or have made changes.
LEMMA OthersKeep ==
    ASSUME AppInv, Shapes', UNCHANGED <<installed, w>>,
           \A b \in Bundles : bundle'[b].installed => bundle[b].installed
    PROVE  AppInv'
  <1>1. PartsMade'
    <2>1. \A m \in Managers, n \in 1 .. 3 : Made(m, n)' => Made(m, n)
      BY DEF Made
    <2> QED
      BY <2>1 DEF AppInv, PartsMade, Knows, installed
  <1> QED
    BY <1>1, NothingInstalled DEF AppInv

LEMMA RefreshKeeps == ASSUME AppInv, NEW m \in Managers, Refresh(m) PROVE AppInv'
  <1>0. Shapes
    BY DEF AppInv
  <1>1. UNCHANGED <<bundle, kube, installed, w>>
    BY DEF Refresh, RefreshCluster, RefreshSecret, RefreshBundle, objects
  <1>2. CASE RefreshCluster(m)
    <2>1. Shapes'
      BY <1>0, <1>1, <1>2 DEF RefreshCluster, Shapes, installed
    <2> QED
      BY <1>1, <2>1, OthersKeep
  <1>3. CASE RefreshSecret(m)
    <2>1. vkube' \in [Managers -> Remotes \cup {None}]
      BY <1>0, <1>3 DEF RefreshSecret, Shapes
    <2>2. Shapes'
      BY <1>0, <1>1, <1>3, <2>1 DEF RefreshSecret, Shapes, installed
    <2> QED
      BY <1>1, <2>2, OthersKeep
  <1>4. ASSUME NEW b \in Bundles, RefreshBundle(m, b) PROVE AppInv'
    <2>1. /\ vbundle' \in [Managers -> [Bundles -> BundleObj]]
          /\ queue' \in [Managers -> SUBSET Bundles]
      BY <1>0, <1>4 DEF RefreshBundle, Shapes
    <2>2. Shapes'
      BY <1>0, <1>1, <1>4, <2>1 DEF RefreshBundle, Shapes, installed
    <2> QED
      BY <1>1, <2>2, OthersKeep
  <1> QED
    BY <1>2, <1>3, <1>4 DEF Refresh

LEMMA UsersKeep ==
    ASSUME AppInv, \/ Provisioned \/ Runs \/ StopsRunning \/ MasterReplaced
                   \/ \E b \in Bundles : EditBundle(b)
    PROVE  AppInv'
  <1>0. Shapes
    BY DEF AppInv
  <1>1. CASE Provisioned
    BY <1>0, <1>1, OthersKeep DEF Provisioned, Shapes, caches, installed
  <1>2. CASE Runs
    BY <1>0, <1>2, OthersKeep DEF Runs, Shapes, caches, installed
  <1>3. CASE StopsRunning
    BY <1>0, <1>3, OthersKeep DEF StopsRunning, Change, Shapes, caches, installed
  <1>4. CASE MasterReplaced
    BY <1>0, <1>4, OthersKeep DEF MasterReplaced, Change, Shapes, caches, installed
  <1>5. ASSUME NEW b \in Bundles, EditBundle(b) PROVE AppInv'
    <2>1. bundle \in [Bundles -> BundleObj] /\ bundle[b].ver + 1 \in Nat
      BY <1>0 DEF Shapes, BundleObj
    <2> DEFINE edited == [bundle[b] EXCEPT !.ver = @ + 1]
    <2>2. edited \in BundleObj /\ edited.installed = bundle[b].installed
      BY <2>1 DEF BundleObj
    <2>3. bundle' = [bundle EXCEPT ![b] = edited]
      BY <1>5 DEF EditBundle
    <2> HIDE DEF edited
    <2>4. /\ bundle' \in [Bundles -> BundleObj]
          /\ \A c \in Bundles : bundle'[c].installed => bundle[c].installed
      BY <2>1, <2>2, <2>3
    <2> QED
      BY <1>0, <1>5, <2>4, OthersKeep DEF EditBundle, Change, Shapes, caches, installed
  <1> QED
    BY <1>1, <1>2, <1>3, <1>4, <1>5

\* The inductive invariant, for any number of managers, bundles and managed
\* clusters, of the steps of Reconcile, crashes and users.
THEOREM AppInvariant == Spec => []AppInv
  <1>1. AppInv /\ [Next]_vars => AppInv'
    <2> SUFFICES ASSUME AppInv, [Next]_vars PROVE AppInv'
      OBVIOUS
    <2>1. ASSUME NEW m \in Managers, WorkerStep(m) \/ Crash(m) \/ Refresh(m) PROVE AppInv'
      BY <2>1, LookKeeps, GetPartKeeps, CreatePartKeeps, WritePhaseKeeps, CrashKeeps,
         RefreshKeeps DEF WorkerStep
    <2>2. CASE \/ Provisioned \/ Runs \/ StopsRunning \/ MasterReplaced
               \/ \E b \in Bundles : EditBundle(b)
      BY <2>2, UsersKeep
    <2>3. CASE UNCHANGED vars
      BY <2>3, OthersKeep DEF AppInv, Shapes, vars, installed
    <2> QED
      BY <2>1, <2>2, <2>3 DEF Next
  <1> QED
    BY <1>1, Initially, PTL DEF Spec

\* The objects, copies and workers keep their types, and the environment its
\* bounds.
THEOREM TypesKept == Spec => []TypeOK
  <1>1. Init => Bounds
    <2> SUFFICES ASSUME Init PROVE Bounds
      OBVIOUS
    <2>1. running \in BOOLEAN /\ vrunning \in [Managers -> BOOLEAN]
      BY Zenon DEF Init
    <2>2. changes \in 0 .. MaxChanges /\ faults \in 0 .. MaxFaults
      BY BoundsAssumption DEF Init
    <2> QED
      BY <2>1, <2>2 DEF Bounds
  <1>2. Bounds /\ [Next]_vars => Bounds'
    <2> SUFFICES ASSUME Bounds, [Next]_vars PROVE Bounds'
      OBVIOUS
    <2> USE BoundsAssumption DEF Bounds
    <2>1. ASSUME NEW m \in Managers, WorkerStep(m) PROVE Bounds'
      BY <2>1 DEF WorkerStep, Look, GetPart, CreatePart, WritePhase, Fault, NoFault, objects,
         caches
    <2>2. ASSUME NEW m \in Managers, Crash(m) \/ Refresh(m) PROVE Bounds'
      BY <2>2 DEF Crash, Refresh, RefreshCluster, RefreshSecret, RefreshBundle, Fault, objects
    <2>3. CASE \/ Provisioned \/ Runs \/ StopsRunning \/ MasterReplaced
               \/ \E b \in Bundles : EditBundle(b)
      <3>1. running' = running \/ running' = TRUE \/ running' = FALSE
        BY <2>3, Zenon DEF Provisioned, Runs, StopsRunning, MasterReplaced, EditBundle
      <3>2. running' \in BOOLEAN
        BY <3>1, Zenon
      <3>3. UNCHANGED <<vrunning, faults>> /\ changes' \in 0 .. MaxChanges
        <4>1. \/ UNCHANGED <<vrunning, faults, changes>>
              \/ Change
          BY <2>3, Zenon DEF Provisioned, Runs, StopsRunning, MasterReplaced, EditBundle, caches
        <4> QED
          BY <4>1 DEF Change, caches
      <3> QED
        BY <3>2, <3>3
    <2>4. CASE UNCHANGED vars
      BY <2>4 DEF vars
    <2> QED
      BY <2>1, <2>2, <2>3, <2>4 DEF Next
  <1>3. AppInv /\ Bounds => TypeOK
    BY DEF AppInv, TypeOK
  <1> QED
    BY <1>1, <1>2, <1>3, AppInvariant, PTL DEF Spec

\* createInstallJob comes after createServiceAccount and
\* createClusterRoleBinding, for every bundle that shares them.
THEOREM AccountsFirst == Spec => []AccountBeforeJob
  <1>1. AppInv => AccountBeforeJob
    BY DEF AppInv
  <1> QED
    BY <1>1, AppInvariant, PTL

\* Reconcile calls a bundle installed only after createInstallJob.
THEOREM InstalledMeansJob == Spec => []InstalledHasJob
  <1>1. AppInv => InstalledHasJob
    BY DEF AppInv
  <1> QED
    BY <1>1, AppInvariant, PTL

=============================================================================
