------------------------------- MODULE Bundle -------------------------------
(* What becomes of the names in an upload: the admission of a primary file *)
(* with its related assets (files/validation/uploads.py, files/services.py)*)
(* and the directory in which a worker puts them together again            *)
(* (processing/services/execution.py, model_processing.py).                *)
(*                                                                         *)
(* A name is a stem and an extension.  Sizes, leases and storage failures  *)
(* are in UploadAdmission, Processing and Execution.  What GDAL, trimesh   *)
(* and PotreeConverter make of a content is not here: where they can write *)
(* what they generate, they succeed.                                       *)
(*                                                                         *)
(* A definition introduced as "a slip" is not part of the specification:   *)
(* it is a likely mistake in the code of the definition after it.          *)
(***************************************************************************)
EXTENDS Naturals, Sequences, FiniteSets, SequencesExt

CONSTANTS
  Stem, Extension,  \* what names are made of
  Clean,            \* stem -> the stem with the characters that are kept
  Lower,            \* extension -> the same in small letters
  Content,          \* contents of files
  Formats,          \* content -> the formats whose parsers take it
  Upload            \* the uploads that are tried

Name == [stem : Stem, ext : Extension]

\* A reference from the primary: a data URI, an unsafe or empty one, or a path.
Uri == [kind : {"data", "unsafe", "path"}, path : Seq(Name)]

Asset == [name : Name, mime : STRING, content : Content]

ASSUME BundleAssumption ==
  /\ Clean \in [Stem -> Stem] /\ \A s \in Stem : Clean[Clean[s]] = Clean[s]
  /\ Lower \in [Extension -> Extension] /\ \A e \in Extension : Lower[Lower[e]] = Lower[e]
  /\ \A u \in Upload :
       /\ u.name \in Name /\ u.content \in Content
       /\ u.refs \in Seq(Uri) /\ u.assets \in Seq(Asset)
       /\ \A i \in DOMAIN u.refs : u.refs[i].kind = "path" => u.refs[i].path # <<>>

VARIABLES
  upload,   \* the request: name, mime, content, what it refers to, and assets
  verdict,  \* of the admission
  file,     \* the rows SurveyFile and SurveyFileAsset
  phase,    \* of the worker
  disk,     \* its temporary directory: path -> content
  staged    \* the last asset or reference it has written

vars == <<upload, verdict, file, phase, disk, staged>>

NoFile == [stored |-> "none"]

---------------------------------------------------------------------------
(* rules.py *)

Rule(exts, type, mimes, fallback, formats) ==
  [exts |-> exts, type |-> type, mimes |-> mimes \cup fallback, formats |-> formats]

Octet == {"application/octet-stream"}
OctetOrText == Octet \cup {"text/plain"}
Geo == {"application/geo+json", "application/json"}

FORMAT_RULES == {
  Rule({"tif", "tiff"}, "TWO_D", {"image/tiff", "image/geotiff", "image/x-geotiff"}, Octet, {"TIFF", "GEOTIFF"}),
  Rule({"png"}, "TWO_D", {"image/png"}, Octet, {"PNG"}),
  Rule({"jpg", "jpeg"}, "TWO_D", {"image/jpeg"}, Octet, {"JPEG"}),
  Rule({"kml"}, "TWO_D", {"application/vnd.google-earth.kml+xml"}, OctetOrText, {"KML"}),
  Rule({"geojson", "json", "geo.json"}, "TWO_D", Geo, OctetOrText, {"GEOJSON"}),
  Rule({"obj"}, "THREE_D", {"model/obj", "text/plain"}, Octet, {"OBJ"}),
  Rule({"glb"}, "THREE_D", {"model/gltf-binary", "application/octet-stream+gltf"}, Octet, {"GLB"}),
  Rule({"gltf"}, "THREE_D", {"model/gltf+json", "application/gltf+json"}, Octet, {"GLTF"}),
  Rule({"las"}, "THREE_D", {"application/vnd.las", "application/x-las"}, Octet, {"LAS"}),
  Rule({"laz"}, "THREE_D", {"application/vnd.laszip", "application/x-laz"}, Octet, {"LAZ"}),
  Rule({"ply"}, "THREE_D", {"application/ply", "model/ply"}, Octet, {"PLY"}),
  Rule({"stl"}, "THREE_D", {"model/stl", "application/sla"}, Octet, {"STL"})}

\* The rule of an extension: one or none.
RulesOf(ext) == {r \in FORMAT_RULES : ext \in r.exts}

\* sanitize_storage_filename
Sanitized(n) == [stem |-> Clean[n.stem], ext |-> Lower[n.ext]]

\* The parser of the extension, and what it makes of the content: one format
\* or none.
Detected(ext, content) ==
  {f \in Formats[content] : \E r \in RulesOf(ext) : f \in r.formats}

\* validate_upload
IsValid(name, mime, content) ==
  LET ext == Lower[name.ext] IN
  /\ Detected(ext, content) # {}
  /\ \E r \in RulesOf(ext) : mime \in r.mimes

FormatOf(name, content) == CHOOSE f \in Detected(Lower[name.ext], content) : TRUE

---------------------------------------------------------------------------
(* Related assets *)

\* validate_obj_asset_upload, validate_gltf_asset_upload
AssetMimes(format, ext) ==
  CASE format = "OBJ" /\ ext = "mtl" -> {"model/mtl", "text/mtl"} \cup OctetOrText
    [] format = "GLTF" /\ ext = "bin" -> Octet
    [] ext = "png" -> {"image/png"}
    [] ext \in {"jpg", "jpeg"} -> {"image/jpeg"}
    [] OTHER -> {}

AssetContent(ext, content) ==
  CASE ext = "mtl" -> "MTL" \in Formats[content]
    [] ext = "bin" -> TRUE
    [] OTHER -> Detected(ext, content) # {}

AssetIsValid(format, a) ==
  LET ext == Lower[a.name.ext] IN a.mime \in AssetMimes(format, ext) /\ AssetContent(ext, a.content)

\* Which of the references are no data URIs, and what they are stored by.
External(refs) == {i \in DOMAIN refs : refs[i].kind # "data"}

StoredNames(refs) == [i \in External(refs) |-> Sanitized(Last(refs[i].path))]

\* get_gltf_external_resource_references: no two of one name.
RefsAreValid(refs) ==
  /\ \A i \in External(refs) : refs[i].kind = "path"
  /\ IsInjective(StoredNames(refs))

\* A slip: files that nothing refers to are let through.
CoversManifest(names, refs) == Range(StoredNames(refs)) \subseteq names

MatchesManifest(names, refs) == names = Range(StoredNames(refs))

\* _validate_related_assets
AssetsAreValid(format, refs, assets) ==
  LET names == [i \in DOMAIN assets |-> Sanitized(assets[i].name)]
      contents == [i \in DOMAIN assets |-> assets[i].content]
  IN IF format \notin {"OBJ", "GLTF"} THEN assets = <<>>
     ELSE /\ format = "GLTF" => RefsAreValid(refs)
          /\ \A i \in DOMAIN assets : AssetIsValid(format, assets[i])
          /\ IsInjective(names) /\ IsInjective(contents)
          /\ format = "GLTF" => MatchesManifest(Range(names), refs)

Init ==
  /\ upload \in Upload
  /\ verdict = "none" /\ file = NoFile
  /\ phase = "idle" /\ disk = <<>> /\ staged = 0

IsAdmissible ==
  /\ IsValid(upload.name, upload.mime, upload.content)
  /\ AssetsAreValid(FormatOf(upload.name, upload.content), upload.refs, upload.assets)

\* The rows keep the cleaned names, in the order given.
Rows(u) ==
  [stored   |-> Sanitized(u.name),
   original |-> u.name,
   mime     |-> u.mime,
   format   |-> FormatOf(u.name, u.content),
   type     |-> (CHOOSE r \in RulesOf(Lower[u.name.ext]) : TRUE).type,
   assets   |-> [i \in DOMAIN u.assets |->
                   [stored |-> Sanitized(u.assets[i].name), content |-> u.assets[i].content]]]

\* admit_uploaded_file
Admit ==
  /\ verdict = "none" /\ IsAdmissible
  /\ verdict' = "admitted"
  /\ file' = Rows(upload)
  /\ UNCHANGED <<upload, phase, disk, staged>>

Refuse ==
  /\ verdict = "none" /\ ~ IsAdmissible
  /\ verdict' = "refused"
  /\ UNCHANGED <<upload, file, phase, disk, staged>>

---------------------------------------------------------------------------
(* The worker *)

Raw == <<file.stored>>

IsPrefixOf(p, q) == Len(p) < Len(q) /\ IsPrefix(p, q)

\* mkdir makes the directories on the way, open the file, unless one is a
\* file or the file a directory.
CanWrite(path) == \A p \in DOMAIN disk : ~ IsPrefixOf(p, path) /\ ~ IsPrefixOf(path, p)

Write(path, content) ==
  disk' = [p \in DOMAIN disk \cup {path} |-> IF p = path THEN content ELSE disk[p]]

Download ==
  /\ verdict = "admitted" /\ phase = "idle"
  /\ Write(Raw, upload.content)
  /\ phase' = "downloaded"
  /\ UNCHANGED <<upload, verdict, file, staged>>

Route ==
  CASE file.format \in {"TIFF", "GEOTIFF"}            -> "raster"
    [] file.format \in {"OBJ", "STL", "PLY"}          -> "mesh"
    [] file.format \in {"LAS", "LAZ"}                 -> "points"
    [] file.format \in {"GLB", "GLTF"}                -> "browser"
    [] file.format \in {"PNG", "JPEG", "KML", "GEOJSON"} -> "done"
    [] OTHER                                          -> "failed"

\* A slip: what is referred to is not cleaned.
AsReferred(refs) == {Last(refs[i].path) : i \in External(refs)}

Expected(refs) == Range(StoredNames(refs))

\* _revalidate_primary_content, and the conversion by format.  The manifest
\* of a glTF file is compared with the rows first.
Revalidate ==
  LET names == {file.assets[i].stored : i \in DOMAIN file.assets} IN
  /\ phase = "downloaded"
  /\ phase' = IF ~ IsValid(file.original, file.mime, upload.content) THEN "failed"
              ELSE IF file.format = "GLTF" /\ ~ (RefsAreValid(upload.refs) /\ names = Expected(upload.refs))
              THEN "failed" ELSE Route
  /\ UNCHANGED <<upload, verdict, file, disk, staged>>

\* assets_by_filename
AssetOf(name) == CHOOSE a \in Range(file.assets) : a.stored = name

\* What is written, and under which path: assets of an OBJ file under the
\* names they are stored by, files of a manifest where it has them.
Staging ==
  CASE file.format = "OBJ"  -> [i \in DOMAIN file.assets |->
                                  [path |-> <<file.assets[i].stored>>, content |-> file.assets[i].content]]
    [] file.format = "GLTF" -> [i \in External(upload.refs) |->
                                  LET path == upload.refs[i].path IN
                                  [path |-> path, content |-> AssetOf(Sanitized(Last(path))).content]]
    [] OTHER -> <<>>

\* The loops go through it in order.
IsNext(i) == i > staged /\ \A j \in DOMAIN Staging : j > staged => i <= j

\* A slip: the manifest's directories are left out.
FlatPath(path) == <<Last(path)>>

LocalPath(path) == path

\* _stage_gltf_external_assets, and the loop of _process_mesh_file.
Stage ==
  /\ phase \in {"mesh", "browser"}
  /\ \E i \in DOMAIN Staging :
       /\ IsNext(i)
       /\ IF CanWrite(LocalPath(Staging[i].path))
          THEN /\ Write(LocalPath(Staging[i].path), Staging[i].content)
               /\ staged' = i
               /\ UNCHANGED phase
          ELSE phase' = "failed" /\ UNCHANGED <<disk, staged>>
  /\ UNCHANGED <<upload, verdict, file>>

\* trimesh.load reads the primary and what it refers to.
Load ==
  /\ phase \in {"mesh", "browser"} /\ \A i \in DOMAIN Staging : i <= staged
  /\ phase' = "loaded"
  /\ UNCHANGED <<upload, verdict, file, disk, staged>>

Generated(stem, ext) == <<[stem |-> stem, ext |-> ext]>>

\* What is generated lies beside what was staged.  The directories "potree" and
\* "tiles" are left out: they have no extension, and all names here have one.
Outputs ==
  CASE Route = "raster"  -> {Generated("cog", "tif"), Generated("preview", "png")}
    [] Route = "mesh"    -> {Generated("model", "glb"), Generated("preview", "glb")}
    [] Route = "browser" -> {Generated("preview", "glb")}
                            \cup IF file.format = "GLTF" /\ file.assets # <<>> THEN {Generated("model", "glb")} ELSE {}
    [] OTHER -> {}

\* rasterio_copy reads the primary while it writes the copy.
CopiesOntoItself == phase = "raster" /\ Raw = Generated("cog", "tif")

\* An export replaces a file and fails at a directory; with a failure the whole
\* directory goes.  What a copy onto itself does is left to GDAL.
Convert ==
  /\ phase \in {"raster", "loaded", "points"}
  /\ \/ /\ \A p \in Outputs : CanWrite(p)
        /\ disk' = [p \in DOMAIN disk \cup Outputs |-> IF p \in Outputs THEN "generated" ELSE disk[p]]
        /\ phase' = "done"
     \/ /\ CopiesOntoItself \/ \E p \in Outputs : ~ CanWrite(p)
        /\ phase' = "failed"
        /\ UNCHANGED disk
  /\ UNCHANGED <<upload, verdict, file, staged>>

---------------------------------------------------------------------------

Next ==
  \/ Admit \/ Refuse
  \/ Download \/ Revalidate \/ Stage \/ Load \/ Convert

Spec == Init /\ [][Next]_vars

---------------------------------------------------------------------------
(* Properties *)

\* A directory of a glTF file's manifest has the name of another file of the
\* manifest, of the primary, or of one that the worker generates.
Nests(u) ==
  LET paths == {u.refs[i].path : i \in {j \in DOMAIN u.refs : u.refs[j].kind = "path"}}
      primary == <<[stem |-> Clean[u.name.stem], ext |-> Lower[u.name.ext]]>>
      generated == {<<[stem |-> s, ext |-> "glb"]>> : s \in {"preview", "model"}}
  IN /\ Lower[u.name.ext] = "gltf"
     /\ \E p \in paths \cup generated \cup {primary}, q \in paths : p # <<>> /\ IsPrefixOf(p, q)

\* A raster has the name of the copy that is made of it.
IsNamedAsCopy(u) == Clean[u.name.stem] = "cog" /\ Lower[u.name.ext] = "tif"

\* The worker comes to the conclusions the admission came to, from the rows:
\* what was admitted has a converter and passes the checks again, whatever was
\* done to the names.  A file where a directory must be, or a directory where
\* a file must be, does fail it, and but for that only a raster written over
\* itself may (execution.py:84-137, model_processing.py:44-48, 87-97 and
\* 125-147, raster.py:28-31).
WorkerAgrees ==
  /\ phase = "failed" => Nests(upload) \/ IsNamedAsCopy(upload)
  /\ phase = "done" => ~ Nests(upload)

\* When a glTF file is loaded, what lies at each path it names is the content
\* that was uploaded under the name (model_processing.py:139-147).
ManifestIsRebuilt ==
  phase = "loaded" /\ file.format = "GLTF" =>
    \A i \in DOMAIN upload.refs : upload.refs[i].kind = "path" =>
      LET path == upload.refs[i].path IN
      /\ path \in DOMAIN disk
      /\ \E a \in Range(upload.assets) :
           /\ disk[path] = a.content
           /\ Clean[a.name.stem] = Clean[Last(path).stem] /\ Lower[a.name.ext] = Lower[Last(path).ext]

\* Every file that came with a glTF file is one the manifest names, by the
\* name it is stored by, and goes to one place (files/services.py:563-566).
NothingUnreferenced ==
  verdict = "admitted" /\ file.format = "GLTF" =>
    \A i \in DOMAIN upload.assets :
      Cardinality({j \in DOMAIN upload.refs :
                     /\ upload.refs[j].kind = "path"
                     /\ Clean[Last(upload.refs[j].path).stem] = Clean[upload.assets[i].name.stem]
                     /\ Lower[Last(upload.refs[j].path).ext] = Lower[upload.assets[i].name.ext]}) = 1

\* The assets of a glTF file are what its manifest names, exactly.
IsComplete(u) ==
  LET names == {u.assets[i].name : i \in DOMAIN u.assets}
      paths == {u.refs[i].path : i \in {j \in DOMAIN u.refs : u.refs[j].kind # "data"}}
  IN /\ \A i \in DOMAIN u.refs : u.refs[i].kind # "unsafe"
     /\ names = {Last(p) : p \in paths}
     /\ \A i, j \in DOMAIN u.assets :
          i # j => /\ <<Clean[u.assets[i].name.stem], Lower[u.assets[i].name.ext]>>
                      # <<Clean[u.assets[j].name.stem], Lower[u.assets[j].name.ext]>>
                   /\ u.assets[i].content # u.assets[j].content
     /\ \A i, j \in DOMAIN u.refs : i # j /\ u.refs[i].kind = "path" /\ u.refs[j].kind = "path"
                                    => Last(u.refs[i].path) # Last(u.refs[j].path)

\* A bundle with exactly the files its manifest names is admitted, if no two
\* have one content or one stored name (files/services.py:545-568).
CompleteIsAdmitted ==
  verdict = "refused" =>
    ~ /\ Lower[upload.name.ext] = "gltf" /\ "GLTF" \in Formats[upload.content]
      /\ upload.mime = "application/octet-stream"
      /\ IsComplete(upload)
      /\ \A i \in DOMAIN upload.assets :
           LET a == upload.assets[i] IN Lower[a.name.ext] = "bin" /\ a.mime = "application/octet-stream"

\* The admission lets in what a manifest names and nothing else.
AdmissionIsExact == NothingUnreferenced /\ CompleteIsAdmitted

\* Externally dependent glTF files that are admitted are converted
\* (docs/DEVELOPMENT_DECISIONS.md:303).  TLC refutes it: a directory of the
\* manifest may have the name of a file, also of one that is generated.
BundlesAreConverted == phase = "failed" => file.format # "GLTF"

\* When an OBJ file is loaded, the assets it names lie where it names them
\* (docs/DEVELOPMENT_DECISIONS.md:123).  TLC refutes it: they lie under cleaned
\* names.
ReferencedAssetsAreAvailable ==
  phase = "loaded" /\ file.format = "OBJ" =>
    \A i \in DOMAIN upload.refs :
      (\E a \in Range(upload.assets) : <<a.name>> = upload.refs[i].path) => upload.refs[i].path \in DOMAIN disk

=============================================================================
