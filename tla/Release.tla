------------------------------ MODULE Release ------------------------------
(***************************************************************************)
(* release.yml: workflow runs of one version build the app, have it and a  *)
(* disk image with it notarized (Notarize), and publish the image with its *)
(* checksum.  Any step may fail, be cancelled or time out, and what failed *)
(* or all of it can be run again; what the jobs before have handed over    *)
(* stays.  One notarization at a time is looked at, none meets another.    *)
(***************************************************************************)
EXTENDS Notarize

CONSTANTS
  Run,     \* workflow runs: a pushed tag, a dispatch
  Nobody,  \* no run
  MaxMade  \* bound: images made

ASSUME RunAssumption == Nobody \notin Run /\ MaxMade \in Nat

VARIABLES
  publish, onTag,  \* of each run: inputs.publish or a push, and github.ref
  at, going,       \* its step, and whether it is running there
  app, image,      \* its app: accepted by the notary service or not; its image
  made,            \* images made so far, numbered from 1
  contains,        \* of each image, whether the app in it was accepted
  accepted,        \* the images the notary service has accepted
  assets,          \* of the release: the image, and the image summed up
  exists, raced,   \* there is a release; two runs were putting assets into it
  client           \* the run notarize.sh is running for

jobVars == <<publish, onTag, at, going, app, image>>
worldVars == <<made, contains, accepted, assets, exists, raced>>
releaseVars == <<vars, jobVars, worldVars, client>>

Asset == {"dmg", "sha256"}

ReleaseInit ==
  /\ Init /\ client = Nobody
  /\ publish \in [Run -> BOOLEAN] /\ onTag \in [Run -> BOOLEAN]
  /\ at = [r \in Run |-> "build"] /\ going = [r \in Run |-> TRUE]
  /\ app = [r \in Run |-> FALSE] /\ image = [r \in Run |-> 0]
  /\ made = 0 /\ contains = [n \in 1..MaxMade |-> FALSE] /\ accepted = {}
  /\ assets = [a \in Asset |-> 0] /\ exists \in BOOLEAN /\ raced = FALSE

\* The first step of the job a step belongs to.
JobStart(step) ==
  CASE step = "build" -> "build"
    [] step \in {"app", "package", "dmg", "upload"} -> "app"
    [] OTHER -> "publish"

At(r, step) == going[r] /\ at[r] = step /\ client # r

Go(r, step) == at' = [at EXCEPT ![r] = step] /\ UNCHANGED <<going, publish, onTag>>
Stop(r) == going' = [going EXCEPT ![r] = FALSE] /\ UNCHANGED <<at, publish, onTag>>

\* Determine version, and the rest of the job.
BuildJob(r) ==
  /\ At(r, "build") /\ (publish[r] => onTag[r])
  /\ app' = [app EXCEPT ![r] = FALSE] /\ Go(r, "app")
  /\ UNCHANGED <<vars, client, image, worldVars>>

Notarizing(r) ==
  /\ \/ At(r, "app") \/ At(r, "dmg")
  /\ client = Nobody /\ client' = r
  /\ UNCHANGED <<vars, jobVars, worldVars>>

RunNotarize == client # Nobody /\ (Script \/ ServiceDecides) /\ UNCHANGED <<jobVars, worldVars, client>>

Reset ==
  /\ service' = "InProgress" /\ elapsed' = 0 /\ status' = "empty" /\ failures' = 0 /\ pc' = "submit"

\* notarize.sh has exited; with 0, the file is stapled.
Notarized(r) ==
  /\ client = r /\ pc \in {"ok", "error"}
  /\ client' = Nobody /\ Reset
  /\ IF at[r] = "app"
     THEN app' = [app EXCEPT ![r] = @ \/ service = "Accepted"] /\ UNCHANGED accepted
     ELSE /\ accepted' = accepted \cup {n \in {image[r]} : service = "Accepted"}
          /\ UNCHANGED app
  /\ IF pc = "ok" THEN Go(r, IF at[r] = "app" THEN "package" ELSE "upload")
     ELSE Stop(r)
  /\ UNCHANGED <<image, made, contains, assets, exists, raced>>

\* Package DMG and Sign DMG
Package(r) ==
  /\ At(r, "package") /\ made < MaxMade /\ made' = made + 1
  /\ image' = [image EXCEPT ![r] = made'] /\ contains' = [contains EXCEPT ![made'] = app[r]]
  /\ Go(r, "dmg")
  /\ UNCHANGED <<vars, client, app, accepted, assets, exists, raced>>

\* Checksum DMG and Upload DMG artifact: the end of the job.
Upload(r) ==
  /\ At(r, "upload")
  /\ Go(r, IF publish[r] /\ onTag[r] THEN "publish" ELSE "done")
  /\ UNCHANGED <<vars, client, app, image, worldVars>>

\* Mutant of Taken: an asset is replaced (--clobber).
TakenNever(a) == FALSE

Taken(a) == assets[a] # 0

\* gh release view, then gh release upload, which looks at all the names first,
\* or gh release create.
CreateRelease(r) ==
  /\ At(r, "publish") /\ exists' = TRUE
  /\ IF exists /\ \E a \in Asset : Taken(a) THEN Stop(r) ELSE Go(r, "put")
  /\ raced' = (raced \/ (at'[r] = "put" /\ \E q \in Run \ {r} : at[q] = "put" /\ going[q]))
  /\ UNCHANGED <<vars, client, app, image, made, contains, accepted, assets>>

\* One asset arrives, in either order.
PutAsset(r, a) ==
  /\ At(r, "put") /\ assets[a] # image[r]
  /\ IF Taken(a) THEN Stop(r) /\ UNCHANGED assets
     ELSE /\ assets' = [assets EXCEPT ![a] = image[r]]
          /\ Go(r, IF \A b \in Asset : assets'[b] = image[r] THEN "done" ELSE "put")
  /\ UNCHANGED <<vars, client, app, image, made, contains, accepted, exists, raced>>

\* A step fails, or the job is cancelled or times out.
Fail(r) ==
  /\ going[r] /\ at[r] # "done" /\ Stop(r)
  /\ IF client = r THEN client' = Nobody /\ Reset ELSE UNCHANGED <<vars, client>>
  /\ UNCHANGED <<app, image, worldVars>>

\* Re-run failed jobs, or all jobs.
Rerun(r) ==
  /\ ~going[r] \/ at[r] = "done"
  /\ \E step \in {"build"} \cup IF going[r] THEN {} ELSE {JobStart(at[r])} :
       at' = [at EXCEPT ![r] = step]
  /\ going' = [going EXCEPT ![r] = TRUE]
  /\ UNCHANGED <<vars, client, publish, onTag, app, image, worldVars>>

ReleaseNext ==
  \/ RunNotarize
  \/ \E r \in Run :
       \/ BuildJob(r) \/ Notarizing(r) \/ Notarized(r) \/ Package(r) \/ Upload(r)
       \/ CreateRelease(r) \/ (\E a \in Asset : PutAsset(r, a)) \/ Fail(r) \/ Rerun(r)

ReleaseSpec == ReleaseInit /\ [][ReleaseNext]_releaseVars

(***************************************************************************)
(* Properties.                                                             *)
(***************************************************************************)

\* Whatever failed and was run again: what is published is an image that the
\* notary service has accepted, with an app in it that it has accepted, made by
\* a run on the tag that was to publish; and the checksum beside it is its own,
\* unless two runs were putting assets into one release at the same time
\* (release.yml:220-224).
AssetsBelongTogether ==
  /\ \A a \in Asset :
       assets[a] # 0 =>
         /\ assets[a] \in accepted /\ contains[assets[a]]
         /\ \E r \in Run : publish[r] /\ onTag[r]
  /\ 0 \notin {assets[a] : a \in Asset} /\ ~raced => assets["dmg"] = assets["sha256"]

=============================================================================
