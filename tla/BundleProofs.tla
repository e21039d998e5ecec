---------------------------- MODULE BundleProofs ----------------------------
(* Proofs about Bundle, for names, contents and uploads of any kind.       *)
EXTENDS Bundle, FiniteSetTheorems, TLAPS

\* Each phase of the worker, and what the rows and the directory hold in it.
BundleTypeOK ==
  /\ upload \in Upload
  /\ verdict \in {"none", "admitted", "refused"}
  /\ phase \in {"idle", "downloaded", "raster", "mesh", "points", "browser", "loaded", "done", "failed"}
  /\ staged \in Nat
  /\ verdict # "admitted" => phase = "idle"
  /\ phase = "idle" => disk = <<>>
  /\ phase \in {"idle", "downloaded"} => staged = 0

\* The rows are those of an upload that passed, and a refused one did not.
RowsAreAdmitted ==
  /\ verdict = "admitted" => IsAdmissible /\ file = Rows(upload)
  /\ verdict = "refused" => ~ IsAdmissible

\* Until the conversion nothing lies in the directory but the primary and what
\* was staged, and what was staged lies where it was put: no later file took its
\* place, and no file lies where a directory does.
DirectoryIsStaged ==
  phase \notin {"idle", "done"} =>
    /\ Raw \in DOMAIN disk
    /\ \A p, q \in DOMAIN disk : ~ IsPrefixOf(p, q)
    /\ \A p \in DOMAIN disk : p = Raw \/ \E i \in DOMAIN Staging : p = Staging[i].path
    /\ \A i \in DOMAIN Staging :
         i <= staged => Staging[i].path \in DOMAIN disk /\ disk[Staging[i].path] = Staging[i].content

AllIsStaged == phase = "loaded" => \A i \in DOMAIN Staging : i <= staged

\* Only files that refer to none skip the loading.
ConvertedAtOnce == phase \in {"raster", "points"} => file.format \notin {"OBJ", "GLTF"}

BundleInv ==
  /\ BundleTypeOK /\ RowsAreAdmitted /\ DirectoryIsStaged /\ AllIsStaged /\ ConvertedAtOnce
  /\ WorkerAgrees

---------------------------------------------------------------------------
(* The table of formats *)

\* The formats that some branch of the worker takes.
Routed == {"TIFF", "GEOTIFF", "OBJ", "STL", "PLY", "LAS", "LAZ", "GLB", "GLTF", "PNG", "JPEG", "KML", "GEOJSON"}

\* What the table of the admission accepts has a branch in the worker.
LEMMA RulesAreRouted == \A r \in FORMAT_RULES : r.formats \subseteq Routed
BY DEF FORMAT_RULES, Rule, Routed

\* The extension gltf takes one format, and takes it as octets.
LEMMA GltfRule ==
  /\ \A r \in RulesOf("gltf") : r.formats = {"GLTF"}
  /\ \E r \in RulesOf("gltf") : "application/octet-stream" \in r.mimes
<1> DEFINE gltf == Rule({"gltf"}, "THREE_D", {"model/gltf+json", "application/gltf+json"}, Octet, {"GLTF"})
<1>1. gltf \in FORMAT_RULES
  BY DEF FORMAT_RULES
<1>2. gltf.exts = {"gltf"} /\ "application/octet-stream" \in gltf.mimes
  BY DEF Rule, Octet
<1>3. \A r \in RulesOf("gltf") : r.formats = {"GLTF"}
  BY DEF RulesOf, FORMAT_RULES, Rule
<1>. QED  BY <1>1, <1>2, <1>3 DEF RulesOf

\* No other extension takes that format.
LEMMA GltfExtension == \A r \in FORMAT_RULES : "GLTF" \in r.formats => r.exts = {"gltf"}
BY DEF FORMAT_RULES, Rule

\* The format of a file that passed is one its parser found and a converter
\* takes.
LEMMA FormatIsRouted ==
  ASSUME NEW name, NEW mime, NEW content, IsValid(name, mime, content)
  PROVE  FormatOf(name, content) \in Detected(Lower[name.ext], content) \cap Routed
<1>1. FormatOf(name, content) \in Detected(Lower[name.ext], content)
  BY DEF FormatOf, IsValid
<1>2. \A f \in Detected(Lower[name.ext], content) : f \in Routed
  BY RulesAreRouted DEF Detected, RulesOf
<1>. QED  BY <1>1, <1>2

---------------------------------------------------------------------------
(* What the rows of an admitted upload hold *)

LEMMA RowsOfAdmitted ==
  ASSUME RowsAreAdmitted, verdict = "admitted"
  PROVE  /\ file.stored = Sanitized(upload.name)
         /\ IsValid(file.original, file.mime, upload.content)
         /\ file.format = FormatOf(upload.name, upload.content) /\ file.format \in Routed
         /\ AssetsAreValid(file.format, upload.refs, upload.assets)
         /\ file.assets = [i \in DOMAIN upload.assets |->
                             [stored |-> Sanitized(upload.assets[i].name), content |-> upload.assets[i].content]]
<1>1. IsAdmissible /\ file = Rows(upload)
  BY DEF RowsAreAdmitted
<1>2. IsValid(upload.name, upload.mime, upload.content)
  BY <1>1 DEF IsAdmissible
<1>3. FormatOf(upload.name, upload.content) \in Routed
  BY <1>2, FormatIsRouted
<1>4. /\ file.stored = Sanitized(upload.name)
      /\ file.original = upload.name /\ file.mime = upload.mime
      /\ file.format = FormatOf(upload.name, upload.content)
      /\ file.assets = [i \in DOMAIN upload.assets |->
                          [stored |-> Sanitized(upload.assets[i].name), content |-> upload.assets[i].content]]
  BY <1>1 DEF Rows
<1>5. AssetsAreValid(file.format, upload.refs, upload.assets)
  BY <1>1, <1>4 DEF IsAdmissible
<1>. QED  BY <1>2, <1>3, <1>4, <1>5

\* A file is one of format GLTF when its name says so, and only then.
LEMMA GltfByName ==
  ASSUME RowsAreAdmitted, verdict = "admitted"
  PROVE  file.format = "GLTF" <=> Lower[upload.name.ext] = "gltf"
<1> DEFINE ext == Lower[upload.name.ext]
<1>1. IsValid(upload.name, upload.mime, upload.content)
  BY DEF RowsAreAdmitted, IsAdmissible
<1>2. file.format \in Detected(ext, upload.content)
  BY <1>1, FormatIsRouted, RowsOfAdmitted
<1>3. PICK r \in RulesOf(ext) : file.format \in r.formats
  BY <1>2 DEF Detected
<1>4. r \in FORMAT_RULES /\ ext \in r.exts
  BY DEF RulesOf
<1> HIDE DEF ext
<1>5. ASSUME file.format = "GLTF" PROVE ext = "gltf"
  BY <1>3, <1>4, <1>5, GltfExtension
<1>6. ASSUME ext = "gltf" PROVE file.format = "GLTF"
  BY <1>3, <1>6, GltfRule
<1>. QED  BY <1>5, <1>6 DEF ext

\* The manifest and the rows of a glTF file name the same files.
LEMMA RowsMatchManifest ==
  ASSUME RowsAreAdmitted, verdict = "admitted", file.format = "GLTF"
  PROVE  /\ RefsAreValid(upload.refs)
         /\ {file.assets[i].stored : i \in DOMAIN file.assets} = Expected(upload.refs)
<1> DEFINE names == [i \in DOMAIN upload.assets |-> Sanitized(upload.assets[i].name)]
<1>1. RefsAreValid(upload.refs) /\ MatchesManifest(Range(names), upload.refs)
  BY RowsOfAdmitted DEF AssetsAreValid
<1>2. DOMAIN file.assets = DOMAIN names /\ \A i \in DOMAIN names : file.assets[i].stored = names[i]
  BY RowsOfAdmitted
<1> HIDE DEF names
<1>3. {file.assets[i].stored : i \in DOMAIN file.assets} = Range(names)
  BY <1>2 DEF Range
<1>. QED  BY <1>1, <1>3 DEF MatchesManifest, Expected

\* Each file of the manifest has its row.
LEMMA AssetOfReference ==
  ASSUME RowsAreAdmitted, verdict = "admitted", file.format = "GLTF", NEW i \in External(upload.refs)
  PROVE  LET name == Sanitized(Last(upload.refs[i].path))
         IN AssetOf(name) \in Range(file.assets) /\ AssetOf(name).stored = name
<1> DEFINE name == Sanitized(Last(upload.refs[i].path))
<1>1. name \in Expected(upload.refs)
  BY DEF Expected, Range, StoredNames
<1>2. \E a \in Range(file.assets) : a.stored = name
  BY <1>1, RowsMatchManifest DEF Range
<1>. QED  BY <1>2 DEF AssetOf

---------------------------------------------------------------------------
(* What is staged *)

\* References to files, in an upload that is tried.
LEMMA ReferenceIsPath ==
  ASSUME upload \in Upload, RefsAreValid(upload.refs), NEW i \in External(upload.refs)
  PROVE  /\ upload.refs[i].kind = "path"
         /\ upload.refs[i].path \in Seq(Name) /\ upload.refs[i].path # <<>>
<1>1. upload.refs \in Seq(Uri) /\ i \in DOMAIN upload.refs
  BY BundleAssumption DEF External
<1>2. upload.refs[i] \in Uri
  BY <1>1
<1>3. upload.refs[i].kind = "path"
  BY DEF RefsAreValid
<1>. QED  BY <1>1, <1>2, <1>3, BundleAssumption DEF Uri

LEMMA StagedByFormat ==
  ASSUME NEW i \in DOMAIN Staging
  PROVE  \/ /\ file.format = "OBJ" /\ i \in DOMAIN file.assets
            /\ Staging[i].path = <<file.assets[i].stored>> /\ Staging[i].content = file.assets[i].content
         \/ /\ file.format = "GLTF" /\ i \in External(upload.refs)
            /\ Staging[i].path = upload.refs[i].path
            /\ Staging[i].content = AssetOf(Sanitized(Last(upload.refs[i].path))).content
<1>1. CASE file.format = "OBJ"
  BY <1>1 DEF Staging
<1>2. CASE file.format = "GLTF"
  BY <1>2 DEF Staging
<1>3. CASE file.format \notin {"OBJ", "GLTF"}
  BY <1>3 DEF Staging
<1>. QED  BY <1>1, <1>2, <1>3

\* Positions are counted from one, and no two files go to one path: the names
\* they are stored by differ.
LEMMA StagingIsApart ==
  ASSUME upload \in Upload, RowsAreAdmitted, verdict = "admitted"
  PROVE  /\ DOMAIN Staging \subseteq Nat \ {0}
         /\ \A i, j \in DOMAIN Staging : Staging[i].path = Staging[j].path => i = j
<1>1. upload.refs \in Seq(Uri) /\ upload.assets \in Seq(Asset)
  BY BundleAssumption
<1>2. DOMAIN upload.refs \subseteq Nat \ {0} /\ DOMAIN upload.assets \subseteq Nat \ {0}
  BY <1>1
<1>3. DOMAIN file.assets = DOMAIN upload.assets
  BY RowsOfAdmitted
<1>4. DOMAIN Staging \subseteq Nat \ {0}
  BY <1>2, <1>3, StagedByFormat DEF External
<1>5. ASSUME NEW i \in DOMAIN Staging, NEW j \in DOMAIN Staging, Staging[i].path = Staging[j].path
      PROVE  i = j
  <2>1. CASE file.format = "OBJ"
    <3> DEFINE names == [k \in DOMAIN upload.assets |-> Sanitized(upload.assets[k].name)]
    <3>1. IsInjective(names)
      BY <2>1, RowsOfAdmitted DEF AssetsAreValid
    <3>2. file.assets[i].stored = file.assets[j].stored /\ i \in DOMAIN file.assets /\ j \in DOMAIN file.assets
      BY <2>1, <1>5, StagedByFormat
    <3>3. \A k \in DOMAIN file.assets : file.assets[k].stored = names[k] /\ k \in DOMAIN names
      BY RowsOfAdmitted
    <3> HIDE DEF names
    <3>. QED  BY <3>1, <3>2, <3>3 DEF IsInjective
  <2>2. CASE file.format = "GLTF"
    <3> DEFINE names == StoredNames(upload.refs)
    <3>1. IsInjective(names)
      BY <2>2, RowsMatchManifest DEF RefsAreValid
    <3>2. upload.refs[i].path = upload.refs[j].path /\ i \in External(upload.refs) /\ j \in External(upload.refs)
      BY <2>2, <1>5, StagedByFormat
    <3>3. names[i] = names[j] /\ i \in DOMAIN names /\ j \in DOMAIN names
      BY <3>2 DEF StoredNames
    <3>. QED  BY <3>1, <3>3 DEF IsInjective
  <2>. QED  BY <2>1, <2>2, StagedByFormat
<1>. QED  BY <1>4, <1>5

\* Every path has a length, and only those of a manifest are longer than one.
LEMMA StagedPath ==
  ASSUME upload \in Upload, RowsAreAdmitted, verdict = "admitted", NEW i \in DOMAIN Staging
  PROVE  /\ Len(Staging[i].path) \in Nat \ {0}
         /\ Len(Staging[i].path) # 1 => file.format = "GLTF"
         /\ file.format = "GLTF" => /\ i \in DOMAIN upload.refs /\ upload.refs[i].kind = "path"
                                    /\ Staging[i].path = upload.refs[i].path /\ Staging[i].path # <<>>
<1>1. CASE file.format = "OBJ"
  <2>1. Staging[i].path = <<file.assets[i].stored>>
    BY <1>1, StagedByFormat
  <2>2. Len(Staging[i].path) = 1
    BY <2>1
  <2>. QED  BY <1>1, <2>2
<1>2. CASE file.format = "GLTF"
  <2>1. i \in External(upload.refs) /\ Staging[i].path = upload.refs[i].path
    BY <1>2, StagedByFormat
  <2>2. upload.refs[i].kind = "path" /\ Staging[i].path \in Seq(Name) /\ Staging[i].path # <<>>
    BY <1>2, <2>1, RowsMatchManifest, ReferenceIsPath
  <2>3. Len(Staging[i].path) \in Nat \ {0}
    BY <2>2
  <2>. QED  BY <1>2, <2>1, <2>2, <2>3 DEF External
<1>. QED  BY <1>1, <1>2, StagedByFormat

\* A file where a directory must be, or a directory where a file must be, for
\* what is staged or generated: a directory of the manifest has the name of a
\* file.
LEMMA ClashNests ==
  ASSUME upload \in Upload, RowsAreAdmitted, verdict = "admitted",
         phase \notin {"idle", "done"}, DirectoryIsStaged,
         NEW path, path \in Outputs \/ (\E i \in DOMAIN Staging : path = Staging[i].path),
         ~ CanWrite(path)
  PROVE  Nests(upload)
<1> DEFINE paths == {upload.refs[k].path : k \in {j \in DOMAIN upload.refs : upload.refs[j].kind = "path"}}
           generated == {<<[stem |-> s, ext |-> "glb"]>> : s \in {"preview", "model"}}
<1>1. PICK p \in DOMAIN disk : IsPrefixOf(p, path) \/ IsPrefixOf(path, p)
  BY DEF CanWrite
<1>2. p = Raw \/ \E j \in DOMAIN Staging : p = Staging[j].path
  BY DEF DirectoryIsStaged
<1>3. Len(Raw) = 1 /\ Raw = <<[stem |-> Clean[upload.name.stem], ext |-> Lower[upload.name.ext]]>> /\ Raw # <<>>
  BY RowsOfAdmitted DEF Raw, Sanitized
<1>4. \A o \in Outputs : Len(o) = 1 /\ o # <<>>
  BY DEF Outputs, Generated
<1>5. Len(p) \in Nat \ {0} /\ Len(path) \in Nat \ {0}
  BY <1>2, <1>3, <1>4, StagedPath
<1>6. file.format = "GLTF"
  <2>. SUFFICES ASSUME file.format # "GLTF" PROVE FALSE
    OBVIOUS
  <2>1. Len(p) = 1 /\ Len(path) = 1
    BY <1>2, <1>3, <1>4, StagedPath
  <2>. QED  BY <1>1, <2>1 DEF IsPrefixOf
<1>7. Lower[upload.name.ext] = "gltf"
  BY <1>6, GltfByName
<1>8. \A j \in DOMAIN Staging : Staging[j].path \in paths /\ Staging[j].path # <<>>
  BY <1>6, StagedPath
<1>9. Outputs \subseteq generated
  <2>1. Route = "browser"
    BY <1>6 DEF Route
  <2>. QED  BY <2>1 DEF Outputs, Generated
<1>10. \E q, r \in {p, path} : IsPrefixOf(q, r) /\ q # <<>> /\ Len(r) # 1
  <2>1. p # <<>> /\ path # <<>>
    BY <1>2, <1>3, <1>4, <1>8
  <2>2. ASSUME NEW q \in {p, path}, NEW r \in {p, path}, IsPrefixOf(q, r)
        PROVE  Len(r) # 1
    <3>1. Len(q) \in Nat \ {0} /\ Len(r) \in Nat \ {0}
      BY <1>5
    <3>2. Len(q) < Len(r)
      BY <2>2 DEF IsPrefixOf
    <3>3. \A m, n \in Nat \ {0} : m < n => n # 1
      OBVIOUS
    <3> DEFINE m == Len(q)
               n == Len(r)
    <3>4. m \in Nat \ {0} /\ n \in Nat \ {0} /\ m < n
      BY <3>1, <3>2
    <3> HIDE DEF m, n
    <3>5. n # 1
      BY <3>3, <3>4
    <3>. QED  BY <3>5 DEF n
  <2>. QED  BY <1>1, <2>1, <2>2
<1>11. \A r \in {p, path} : /\ r \in paths \cup generated \cup {Raw}
                            /\ Len(r) # 1 => r \in paths
  BY <1>2, <1>3, <1>4, <1>8, <1>9
<1>. QED  BY <1>3, <1>7, <1>10, <1>11 DEF Nests

\* Where all is staged and what is generated can be written, none does.
LEMMA ConvertedIsFlat ==
  ASSUME BundleInv, phase = "loaded", \A p \in Outputs : CanWrite(p)
  PROVE  ~ Nests(upload)
<1>. SUFFICES ASSUME Nests(upload) PROVE FALSE
  OBVIOUS
<1> DEFINE paths == {upload.refs[k].path : k \in {j \in DOMAIN upload.refs : upload.refs[j].kind = "path"}}
           generated == {<<[stem |-> s, ext |-> "glb"]>> : s \in {"preview", "model"}}
<1>1. verdict = "admitted" /\ RowsAreAdmitted /\ DirectoryIsStaged /\ AllIsStaged
  BY DEF BundleInv, BundleTypeOK
<1>2. file.format = "GLTF"
  BY <1>1, GltfByName DEF Nests
<1>3. Raw = <<[stem |-> Clean[upload.name.stem], ext |-> Lower[upload.name.ext]]>>
  BY <1>1, RowsOfAdmitted DEF Raw, Sanitized
<1>4. PICK p \in paths \cup generated \cup {Raw}, q \in paths : IsPrefixOf(p, q)
  BY <1>3 DEF Nests
<1>5. \A r \in paths : r \in DOMAIN disk
  <2>. SUFFICES ASSUME NEW k \in DOMAIN upload.refs, upload.refs[k].kind = "path"
                PROVE  upload.refs[k].path \in DOMAIN disk
    OBVIOUS
  <2>1. k \in DOMAIN Staging /\ Staging[k].path = upload.refs[k].path
    BY <1>2 DEF Staging, External
  <2>. QED  BY <1>1, <2>1 DEF DirectoryIsStaged, AllIsStaged
<1>6. CASE p \in paths \cup {Raw}
  BY <1>1, <1>4, <1>5, <1>6 DEF DirectoryIsStaged
<1>7. CASE p \in generated
  <2>1. file.assets # <<>>
    <3>1. PICK k \in DOMAIN upload.refs : upload.refs[k].kind = "path"
      BY <1>4
    <3>2. AssetOf(Sanitized(Last(upload.refs[k].path))) \in Range(file.assets)
      BY <1>1, <1>2, <3>1, AssetOfReference DEF External
    <3>3. DOMAIN file.assets # {}
      BY <3>2 DEF Range
    <3>. QED  BY <3>3
  <2>2. Route = "browser"
    BY <1>2 DEF Route
  <2>3. generated \subseteq Outputs
    BY <1>2, <2>1, <2>2 DEF Outputs, Generated
  <2>. QED  BY <1>4, <1>5, <1>7, <2>3 DEF CanWrite
<1>. QED  BY <1>4, <1>6, <1>7

---------------------------------------------------------------------------
(* The invariant *)

\* The worker moves nothing but its phase, its directory and its place in it.
WorkerOnly == UNCHANGED <<upload, verdict, file>>

LEMMA WorkerKeepsRows ==
  ASSUME RowsAreAdmitted, WorkerOnly
  PROVE  /\ RowsAreAdmitted'
         /\ Staging' = Staging /\ Raw' = Raw
         /\ Nests(upload)' = Nests(upload) /\ IsNamedAsCopy(upload)' = IsNamedAsCopy(upload)
BY DEF RowsAreAdmitted, WorkerOnly, IsAdmissible, Rows, Staging, AssetOf, Raw

LEMMA BundleInit == Init => BundleInv
<1>. SUFFICES ASSUME Init PROVE BundleInv
  OBVIOUS
<1>. USE DEF Init
<1>1. BundleTypeOK
  BY DEF BundleTypeOK
<1>. QED  BY <1>1 DEF BundleInv, RowsAreAdmitted, DirectoryIsStaged, AllIsStaged, ConvertedAtOnce, WorkerAgrees

LEMMA AdmitKeeps == ASSUME BundleInv, Admit \/ Refuse PROVE BundleInv'
<1>1. phase = "idle" /\ verdict' # "none" /\ UNCHANGED <<upload, phase, disk, staged>>
  BY DEF BundleInv, BundleTypeOK, Admit, Refuse
<1>2. BundleTypeOK'
  BY <1>1 DEF BundleInv, BundleTypeOK, Admit, Refuse
<1>3. RowsAreAdmitted'
  <2>1. IsAdmissible' = IsAdmissible /\ Rows(upload)' = Rows(upload)
    BY <1>1 DEF IsAdmissible, Rows
  <2>. QED  BY <2>1 DEF RowsAreAdmitted, Admit, Refuse
<1>. QED  BY <1>1, <1>2, <1>3 DEF BundleInv, DirectoryIsStaged, AllIsStaged, ConvertedAtOnce, WorkerAgrees

LEMMA DownloadKeeps == ASSUME BundleInv, Download PROVE BundleInv'
<1>. USE DEF Download
<1>1. RowsAreAdmitted' /\ Staging' = Staging /\ Raw' = Raw
  BY WorkerKeepsRows DEF BundleInv, WorkerOnly
<1>2. BundleTypeOK'
  BY DEF BundleInv, BundleTypeOK
<1>3. DOMAIN disk' = {Raw}
  BY DEF BundleInv, BundleTypeOK, Write
<1>4. \A i \in DOMAIN Staging : i \in Nat \ {0}
  BY StagingIsApart DEF BundleInv, BundleTypeOK
<1>5. ~ IsPrefixOf(Raw, Raw)
  <2>1. Len(Raw) = 1
    BY DEF Raw
  <2>. QED  BY <2>1 DEF IsPrefixOf
<1>6. DirectoryIsStaged'
  BY <1>1, <1>3, <1>4, <1>5 DEF DirectoryIsStaged, BundleInv, BundleTypeOK
<1>. QED  BY <1>1, <1>2, <1>6 DEF BundleInv, AllIsStaged, ConvertedAtOnce, WorkerAgrees

\* The worker finds what the admission found.
LEMMA RevalidateAgrees ==
  ASSUME BundleInv, Revalidate
  PROVE  /\ phase' \in {"raster", "mesh", "points", "browser", "done"}
         /\ phase' \in {"raster", "points", "done"} => file.format \notin {"OBJ", "GLTF"}
<1>1. verdict = "admitted" /\ RowsAreAdmitted
  BY DEF BundleInv, BundleTypeOK, Revalidate
<1>2. IsValid(file.original, file.mime, upload.content) /\ file.format \in Routed
  BY <1>1, RowsOfAdmitted
<1>3. file.format = "GLTF" => /\ RefsAreValid(upload.refs)
                              /\ {file.assets[i].stored : i \in DOMAIN file.assets} = Expected(upload.refs)
  BY <1>1, RowsMatchManifest
<1>4. phase' = Route
  BY <1>2, <1>3 DEF Revalidate
<1>5. /\ Route \in {"raster", "mesh", "points", "browser", "done"}
      /\ Route \in {"raster", "points", "done"} => file.format \notin {"OBJ", "GLTF"}
  BY <1>2 DEF Route, Routed
<1>. QED  BY <1>4, <1>5

LEMMA RevalidateKeeps == ASSUME BundleInv, Revalidate PROVE BundleInv'
<1>1. /\ phase' \in {"raster", "mesh", "points", "browser", "done"} /\ phase = "downloaded"
      /\ phase' \in {"raster", "points", "done"} => file.format \notin {"OBJ", "GLTF"}
  BY RevalidateAgrees DEF Revalidate
<1>2. WorkerOnly /\ UNCHANGED <<disk, staged>>
  BY DEF Revalidate, WorkerOnly
<1>3. /\ RowsAreAdmitted' /\ Staging' = Staging /\ Raw' = Raw
      /\ Nests(upload)' = Nests(upload)
  BY <1>2, WorkerKeepsRows DEF BundleInv
<1>4. BundleTypeOK'
  BY <1>1, <1>2 DEF BundleInv, BundleTypeOK, WorkerOnly
<1>5. DirectoryIsStaged'
  BY <1>1, <1>2, <1>3 DEF BundleInv, DirectoryIsStaged
<1>6. ConvertedAtOnce'
  BY <1>1, <1>2 DEF ConvertedAtOnce, WorkerOnly
<1>7. verdict = "admitted" /\ RowsAreAdmitted
  BY <1>1 DEF BundleInv, BundleTypeOK
<1>8. phase' = "done" => ~ Nests(upload)
  BY <1>1, <1>7, GltfByName DEF Nests
<1>. QED  BY <1>1, <1>3, <1>4, <1>5, <1>6, <1>8 DEF BundleInv, AllIsStaged, WorkerAgrees

LEMMA StageKeeps == ASSUME BundleInv, Stage PROVE BundleInv'
<1>1. phase \in {"mesh", "browser"} /\ verdict = "admitted" /\ upload \in Upload /\ staged \in Nat
  BY DEF BundleInv, BundleTypeOK, Stage
<1>2. PICK i \in DOMAIN Staging :
        /\ IsNext(i)
        /\ IF CanWrite(Staging[i].path)
           THEN Write(Staging[i].path, Staging[i].content) /\ staged' = i /\ UNCHANGED phase
           ELSE phase' = "failed" /\ UNCHANGED <<disk, staged>>
  BY DEF Stage, LocalPath
<1>3. RowsAreAdmitted' /\ Staging' = Staging /\ Raw' = Raw /\ Nests(upload)' = Nests(upload)
      /\ UNCHANGED <<upload, verdict>>
  BY WorkerKeepsRows DEF BundleInv, WorkerOnly, Stage
<1>4. i \in Nat \ {0} /\ \A j \in DOMAIN Staging : j \in Nat \ {0} /\ (Staging[j].path = Staging[i].path => j = i)
  BY <1>1, StagingIsApart DEF BundleInv
<1>5. CASE ~ CanWrite(Staging[i].path)
  <2>1. phase' = "failed" /\ UNCHANGED <<disk, staged>>
    BY <1>2, <1>5
  <2>2. Nests(upload)
    BY <1>1, <1>5, ClashNests DEF BundleInv, BundleTypeOK
  <2>3. BundleTypeOK'
    BY <1>1, <1>3, <2>1 DEF BundleInv, BundleTypeOK
  <2>4. DirectoryIsStaged'
    BY <1>1, <1>3, <2>1 DEF BundleInv, DirectoryIsStaged
  <2>. QED  BY <1>3, <2>1, <2>2, <2>3, <2>4 DEF BundleInv, AllIsStaged, ConvertedAtOnce, WorkerAgrees
<1>6. CASE CanWrite(Staging[i].path)
  <2>1. Write(Staging[i].path, Staging[i].content) /\ staged' = i /\ UNCHANGED phase
    BY <1>2, <1>6
  <2>2. BundleTypeOK'
    BY <1>1, <1>3, <1>4, <2>1 DEF BundleInv, BundleTypeOK
  <2>3. /\ DOMAIN disk' = DOMAIN disk \cup {Staging[i].path}
        /\ disk'[Staging[i].path] = Staging[i].content
        /\ \A p \in DOMAIN disk : p # Staging[i].path => disk'[p] = disk[p]
    BY <2>1 DEF Write
  <2>4. \A j \in DOMAIN Staging : j <= i => j = i \/ j <= staged
    BY <1>1, <1>2, <1>4 DEF IsNext
  <2>5. \A j \in DOMAIN Staging :
           j <= staged => Staging[j].path \in DOMAIN disk /\ disk[Staging[j].path] = Staging[j].content
    BY <1>1 DEF BundleInv, DirectoryIsStaged
  <2>6. \A j \in DOMAIN Staging :
           j <= i => Staging[j].path \in DOMAIN disk' /\ disk'[Staging[j].path] = Staging[j].content
    BY <1>4, <2>3, <2>4, <2>5
  <2>7. \A p \in DOMAIN disk' : p = Raw \/ \E j \in DOMAIN Staging : p = Staging[j].path
    BY <1>1, <2>3 DEF BundleInv, DirectoryIsStaged
  <2>8. Raw \in DOMAIN disk /\ \A p, q \in DOMAIN disk : ~ IsPrefixOf(p, q)
    BY <1>1 DEF BundleInv, DirectoryIsStaged
  <2>9. ~ IsPrefixOf(Staging[i].path, Staging[i].path)
    <3>1. Len(Staging[i].path) \in Nat
      BY <1>1, StagedPath DEF BundleInv
    <3>. QED  BY <3>1 DEF IsPrefixOf
  <2>10. \A p, q \in DOMAIN disk' : ~ IsPrefixOf(p, q)
    BY <1>6, <2>3, <2>8, <2>9 DEF CanWrite
  <2>11. DirectoryIsStaged'
    BY <1>3, <2>1, <2>3, <2>6, <2>7, <2>8, <2>10 DEF DirectoryIsStaged
  <2>. QED  BY <1>1, <1>3, <2>1, <2>2, <2>11 DEF BundleInv, AllIsStaged, ConvertedAtOnce, WorkerAgrees
<1>. QED  BY <1>5, <1>6

LEMMA LoadKeeps == ASSUME BundleInv, Load PROVE BundleInv'
<1>1. /\ phase \notin {"idle", "done", "failed"} /\ phase' = "loaded"
      /\ \A i \in DOMAIN Staging : i <= staged
      /\ WorkerOnly /\ UNCHANGED <<disk, staged>>
  BY DEF Load, WorkerOnly
<1>2. RowsAreAdmitted' /\ Staging' = Staging /\ Raw' = Raw
  BY <1>1, WorkerKeepsRows DEF BundleInv
<1>3. BundleTypeOK'
  BY <1>1 DEF BundleInv, BundleTypeOK, WorkerOnly
<1>4. DirectoryIsStaged' /\ AllIsStaged'
  BY <1>1, <1>2 DEF BundleInv, DirectoryIsStaged, AllIsStaged
<1>. QED  BY <1>1, <1>2, <1>3, <1>4 DEF BundleInv, ConvertedAtOnce, WorkerAgrees

LEMMA CopyIsNamed ==
  ASSUME RowsAreAdmitted, verdict = "admitted", CopiesOntoItself
  PROVE  IsNamedAsCopy(upload)
BY RowsOfAdmitted DEF CopiesOntoItself, Raw, Generated, Sanitized, IsNamedAsCopy

LEMMA ConvertKeeps == ASSUME BundleInv, Convert PROVE BundleInv'
<1>1. /\ phase \in {"raster", "loaded", "points"} /\ phase' \in {"done", "failed"}
      /\ WorkerOnly /\ UNCHANGED staged
  BY DEF Convert, WorkerOnly
<1>2. verdict = "admitted" /\ RowsAreAdmitted /\ upload \in Upload
  BY <1>1 DEF BundleInv, BundleTypeOK
<1>3. /\ RowsAreAdmitted' /\ Staging' = Staging /\ Raw' = Raw
      /\ Nests(upload)' = Nests(upload) /\ IsNamedAsCopy(upload)' = IsNamedAsCopy(upload)
  BY <1>1, WorkerKeepsRows DEF BundleInv
<1>4. BundleTypeOK'
  BY <1>1 DEF BundleInv, BundleTypeOK, WorkerOnly
<1>5. CASE phase' = "done"
  <2>1. \A p \in Outputs : CanWrite(p)
    BY <1>5 DEF Convert
  <2>2. ~ Nests(upload)
    <3>1. CASE phase = "loaded"
      BY <2>1, <3>1, ConvertedIsFlat
    <3>2. CASE phase # "loaded"
      BY <1>1, <1>2, <3>2, GltfByName DEF BundleInv, ConvertedAtOnce, Nests
    <3>. QED  BY <3>1, <3>2
  <2>. QED  BY <1>3, <1>4, <1>5, <2>2 DEF BundleInv, DirectoryIsStaged, AllIsStaged, ConvertedAtOnce, WorkerAgrees
<1>6. CASE phase' = "failed"
  <2>1. UNCHANGED disk /\ (CopiesOntoItself \/ \E p \in Outputs : ~ CanWrite(p))
    BY <1>6 DEF Convert
  <2>2. DirectoryIsStaged'
    BY <1>1, <1>3, <1>6, <2>1 DEF BundleInv, DirectoryIsStaged
  <2>3. CASE CopiesOntoItself
    <3>1. IsNamedAsCopy(upload)
      BY <1>2, <2>3, CopyIsNamed
    <3>. QED  BY <1>3, <1>4, <1>6, <2>2, <3>1 DEF BundleInv, AllIsStaged, ConvertedAtOnce, WorkerAgrees
  <2>4. CASE \E p \in Outputs : ~ CanWrite(p)
    <3>1. Nests(upload)
      BY <1>1, <1>2, <2>4, ClashNests DEF BundleInv
    <3>. QED  BY <1>3, <1>4, <1>6, <2>2, <3>1 DEF BundleInv, AllIsStaged, ConvertedAtOnce, WorkerAgrees
  <2>. QED  BY <2>1, <2>3, <2>4
<1>. QED  BY <1>1, <1>5, <1>6

\* The invariant holds of every upload, whatever names it is made of.
THEOREM BundleInvariant == Spec => []BundleInv
<1>1. Init => BundleInv
  BY BundleInit
<1>2. BundleInv /\ [Next]_vars => BundleInv'
  <2>. SUFFICES ASSUME BundleInv, [Next]_vars PROVE BundleInv'
    OBVIOUS
  <2>1. CASE UNCHANGED vars
    <3>1. WorkerOnly /\ UNCHANGED <<phase, disk, staged>>
      BY <2>1 DEF vars, WorkerOnly
    <3>2. /\ RowsAreAdmitted' /\ Staging' = Staging /\ Raw' = Raw
          /\ Nests(upload)' = Nests(upload) /\ IsNamedAsCopy(upload)' = IsNamedAsCopy(upload)
      BY <3>1, WorkerKeepsRows DEF BundleInv
    <3>3. BundleTypeOK'
      BY <3>1 DEF BundleInv, BundleTypeOK, WorkerOnly
    <3>. QED  BY <3>1, <3>2, <3>3 DEF BundleInv, DirectoryIsStaged, AllIsStaged, ConvertedAtOnce, WorkerAgrees, WorkerOnly
  <2>. QED  BY <2>1, AdmitKeeps, DownloadKeeps, RevalidateKeeps, StageKeeps, LoadKeeps, ConvertKeeps DEF Next
<1>. QED  BY <1>1, <1>2, PTL DEF Spec

---------------------------------------------------------------------------
(* What the worker does with what was admitted *)

\* An upload that was admitted fails in the worker for its names or formats
\* only when a directory of its manifest has the name of a file, its own or a
\* generated one, and then it does, or when it is a raster named cog.tif.
THEOREM WorkerComesToTheSame == Spec => []WorkerAgrees
<1>1. BundleInv => WorkerAgrees
  BY DEF BundleInv
<1>. QED  BY <1>1, BundleInvariant, PTL

\* A glTF file is loaded only when each path it names holds the content that
\* came under that name, cleaned.
THEOREM BundleIsRebuilt == Spec => []ManifestIsRebuilt
<1>1. BundleInv => ManifestIsRebuilt
  <2>. SUFFICES ASSUME BundleInv, phase = "loaded", file.format = "GLTF",
                       NEW i \in DOMAIN upload.refs, upload.refs[i].kind = "path"
                PROVE  LET path == upload.refs[i].path IN
                       /\ path \in DOMAIN disk
                       /\ \E a \in Range(upload.assets) :
                            /\ disk[path] = a.content
                            /\ Clean[a.name.stem] = Clean[Last(path).stem] /\ Lower[a.name.ext] = Lower[Last(path).ext]
    BY DEF ManifestIsRebuilt
  <2> DEFINE path == upload.refs[i].path
             row == AssetOf(Sanitized(Last(path)))
  <2>1. verdict = "admitted" /\ RowsAreAdmitted /\ DirectoryIsStaged /\ AllIsStaged
    BY DEF BundleInv, BundleTypeOK
  <2>2. i \in External(upload.refs)
    BY DEF External
  <2>3. i \in DOMAIN Staging /\ Staging[i].path = path /\ Staging[i].content = row.content
    BY <2>2 DEF Staging
  <2>4. path \in DOMAIN disk /\ disk[path] = row.content
    BY <2>1, <2>3 DEF DirectoryIsStaged, AllIsStaged
  <2>5. row \in Range(file.assets) /\ row.stored = Sanitized(Last(path))
    BY <2>1, <2>2, AssetOfReference
  <2>6. PICK k \in DOMAIN file.assets : file.assets[k] = row
    BY <2>5 DEF Range
  <2>7. /\ k \in DOMAIN upload.assets
        /\ row.stored = Sanitized(upload.assets[k].name) /\ row.content = upload.assets[k].content
    BY <2>1, <2>6, RowsOfAdmitted
  <2>8. /\ Clean[upload.assets[k].name.stem] = Clean[Last(path).stem]
        /\ Lower[upload.assets[k].name.ext] = Lower[Last(path).ext]
    BY <2>5, <2>7 DEF Sanitized
  <2>. QED  BY <2>4, <2>7, <2>8 DEF Range
<1>. QED  BY <1>1, BundleInvariant, PTL

---------------------------------------------------------------------------
(* What is admitted *)

LEMMA NothingUnreferencedHolds == BundleInv => NothingUnreferenced
<1>. SUFFICES ASSUME BundleInv, verdict = "admitted", file.format = "GLTF", NEW i \in DOMAIN upload.assets
              PROVE  Cardinality({j \in DOMAIN upload.refs :
                       /\ upload.refs[j].kind = "path"
                       /\ Clean[Last(upload.refs[j].path).stem] = Clean[upload.assets[i].name.stem]
                       /\ Lower[Last(upload.refs[j].path).ext] = Lower[upload.assets[i].name.ext]}) = 1
  BY DEF NothingUnreferenced
<1> DEFINE name == Sanitized(upload.assets[i].name)
           found == {j \in DOMAIN upload.refs :
                       /\ upload.refs[j].kind = "path"
                       /\ Clean[Last(upload.refs[j].path).stem] = Clean[upload.assets[i].name.stem]
                       /\ Lower[Last(upload.refs[j].path).ext] = Lower[upload.assets[i].name.ext]}
           names == StoredNames(upload.refs)
<1>1. /\ RefsAreValid(upload.refs)
      /\ {file.assets[k].stored : k \in DOMAIN file.assets} = Expected(upload.refs)
  BY RowsMatchManifest DEF BundleInv
<1>2. i \in DOMAIN file.assets /\ file.assets[i].stored = name
  BY RowsOfAdmitted DEF BundleInv
<1>3. \E j \in DOMAIN names : names[j] = name
  BY <1>1, <1>2 DEF Expected, Range
<1>4. PICK j \in DOMAIN names : names[j] = name
  BY <1>3
<1>5. \A k \in DOMAIN upload.refs : k \in found <=> k \in DOMAIN names /\ names[k] = name
  BY <1>1 DEF StoredNames, Sanitized, External, RefsAreValid
<1>6. \A k \in DOMAIN names : names[k] = name => k = j
  BY <1>1, <1>4 DEF RefsAreValid, IsInjective
<1>7. DOMAIN names \subseteq DOMAIN upload.refs /\ found \subseteq DOMAIN upload.refs
  BY DEF StoredNames, External
<1>8. found = {j}
  BY <1>4, <1>5, <1>6, <1>7
<1>. QED  BY <1>8, FS_Singleton

\* A complete bundle passes: the names of its manifest are those of its assets,
\* which clean to different ones.
LEMMA CompletePasses ==
  ASSUME upload \in Upload,
         Lower[upload.name.ext] = "gltf", "GLTF" \in Formats[upload.content],
         upload.mime = "application/octet-stream", IsComplete(upload),
         \A i \in DOMAIN upload.assets :
           LET a == upload.assets[i] IN Lower[a.name.ext] = "bin" /\ a.mime = "application/octet-stream"
  PROVE  IsAdmissible
<1> DEFINE refs == upload.refs
           assets == upload.assets
           names == [i \in DOMAIN assets |-> Sanitized(assets[i].name)]
           contents == [i \in DOMAIN assets |-> assets[i].content]
<1>1. Detected("gltf", upload.content) = {"GLTF"}
  BY GltfRule DEF Detected
<1>2. IsValid(upload.name, upload.mime, upload.content) /\ FormatOf(upload.name, upload.content) = "GLTF"
  BY <1>1, GltfRule DEF IsValid, FormatOf
<1>3. \A i \in DOMAIN refs : refs[i].kind \in {"data", "unsafe", "path"}
  <2> TAKE i \in DOMAIN refs
  <2>1. refs \in Seq(Uri)
    BY BundleAssumption
  <2> HIDE DEF refs
  <2>2. refs[i] \in Uri
    BY <2>1
  <2>. QED  BY <2>2 DEF Uri
<1>4. \A i \in External(refs) : i \in DOMAIN refs /\ refs[i].kind = "path"
  BY <1>3 DEF External, IsComplete
<1>5. \A i, j \in DOMAIN assets : i # j => names[i] # names[j] /\ contents[i] # contents[j]
  BY DEF IsComplete, Sanitized
<1>6. {assets[i].name : i \in DOMAIN assets} = {Last(refs[i].path) : i \in External(refs)}
  <2>1. {assets[i].name : i \in DOMAIN assets} = {Last(p) : p \in {refs[i].path : i \in External(refs)}}
    BY DEF IsComplete, External
  <2>. QED  BY <2>1
<1>7. IsInjective(StoredNames(refs))
  <2>. SUFFICES ASSUME NEW i \in External(refs), NEW j \in External(refs), i # j,
                       Sanitized(Last(refs[i].path)) = Sanitized(Last(refs[j].path))
                PROVE  FALSE
    BY DEF IsInjective, StoredNames
  <2>1. PICK k \in DOMAIN assets : assets[k].name = Last(refs[i].path)
    BY <1>6
  <2>2. PICK l \in DOMAIN assets : assets[l].name = Last(refs[j].path)
    BY <1>6
  <2>3. k = l
    BY <1>5, <2>1, <2>2
  <2>4. Last(refs[i].path) # Last(refs[j].path)
    BY <1>4 DEF IsComplete
  <2>. QED  BY <2>1, <2>2, <2>3, <2>4
<1>8. RefsAreValid(refs)
  BY <1>4, <1>7 DEF RefsAreValid
<1>9. \A i \in DOMAIN assets : AssetIsValid("GLTF", assets[i])
  BY DEF AssetIsValid, AssetMimes, AssetContent, Octet
<1>10. IsInjective(names) /\ IsInjective(contents)
  BY <1>5 DEF IsInjective
<1>11. MatchesManifest(Range(names), refs)
  <2>1. Range(names) = {Sanitized(n) : n \in {assets[i].name : i \in DOMAIN assets}}
    BY DEF Range
  <2>2. Range(StoredNames(refs)) = {Sanitized(n) : n \in {Last(refs[i].path) : i \in External(refs)}}
    BY DEF Range, StoredNames
  <2>. QED  BY <1>6, <2>1, <2>2 DEF MatchesManifest
<1>12. AssetsAreValid("GLTF", refs, assets)
  BY <1>8, <1>9, <1>10, <1>11 DEF AssetsAreValid
<1>. QED  BY <1>2, <1>12 DEF IsAdmissible

\* A bundle is admitted with what its manifest names and with nothing else, and
\* one that is complete is not refused.
THEOREM AdmissionIsRight == Spec => []AdmissionIsExact
<1>1. BundleInv => CompleteIsAdmitted
  BY CompletePasses DEF BundleInv, BundleTypeOK, RowsAreAdmitted, CompleteIsAdmitted
<1>2. BundleInv => AdmissionIsExact
  BY <1>1, NothingUnreferencedHolds DEF AdmissionIsExact
<1>. QED  BY <1>2, BundleInvariant, PTL

=============================================================================
