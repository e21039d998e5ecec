------------------------------ MODULE MCBundle ------------------------------
(* Small instances of Bundle: names that differ only in what cleaning and  *)
(* small letters take away, paths with a directory, directories named like *)
(* what the worker generates, and a raster named like its copy.            *)
EXTENDS Bundle

Stems == {"a", "b c", "b-c", "cog", "preview", "model"}
Extensions == {"tif", "png", "PNG", "mtl", "bin", "BIN", "obj", "gltf", "glb", "las", "kml", "geojson", "exe"}
CleanStem == [s \in Stems |-> IF s = "b c" THEN "b-c" ELSE s]
Small == [e \in Extensions |-> CASE e = "PNG" -> "png" [] e = "BIN" -> "bin" [] OTHER -> e]

Contents == {"tiff", "geotiff", "png1", "png2", "mtl", "raw", "obj", "gltf", "glb", "las", "kml", "geojson"}
FormatsOf ==
  [c \in Contents |->
     CASE c = "tiff" -> {"TIFF"} [] c = "geotiff" -> {"GEOTIFF"} [] c \in {"png1", "png2"} -> {"PNG"}
       [] c = "mtl" -> {"MTL"} [] c = "obj" -> {"OBJ"} [] c = "gltf" -> {"GLTF"} [] c = "glb" -> {"GLB"}
       [] c = "las" -> {"LAS"} [] c = "kml" -> {"KML"} [] c = "geojson" -> {"GEOJSON"} [] OTHER -> {}]

N(s, e) == [stem |-> s, ext |-> e]
Between(m, n, set) == UNION {[1..k -> set] : k \in m..n}

Path(p) == [kind |-> "path", path |-> p]
Uris ==
  {Path(<<N(s, e)>>) : s \in {"a", "b c", "b-c"}, e \in {"bin", "BIN"}}
  \cup {Path(<<N("a", "bin"), N("b c", "bin")>>), Path(<<N("a", "png")>>), Path(<<N("a", "gltf"), N("a", "bin")>>),
        Path(<<N("preview", "glb"), N("a", "bin")>>), Path(<<N("model", "glb"), N("b c", "bin")>>),
        [kind |-> "data", path |-> <<>>], [kind |-> "unsafe", path |-> <<>>]}

GltfAssets ==
  {[name |-> N(s, e), mime |-> "application/octet-stream", content |-> c] :
     s \in {"a", "b c", "b-c"}, e \in {"bin", "BIN"}, c \in {"raw", "png1"}}
  \cup {[name |-> N("a", "png"), mime |-> "image/png", content |-> c] : c \in {"png1", "raw"}}

Bundled(ext, mime, content, refs, assets) ==
  [name |-> N("a", ext), mime |-> mime, content |-> content, refs |-> refs, assets |-> assets]

Octets == "application/octet-stream"

GltfUploads ==
  {Bundled("gltf", Octets, "gltf", refs, assets) :
     refs \in Between(0, 2, Uris), assets \in Between(0, 2, GltfAssets)}

ObjAssets == {[name |-> N(s, "mtl"), mime |-> "text/plain", content |-> c] :
                s \in {"a", "b c"}, c \in {"mtl", "raw"}}
             \cup {[name |-> N("a", "PNG"), mime |-> "image/png", content |-> "png1"]}
ObjUploads ==
  {Bundled("obj", "model/obj", "obj", refs, assets) :
     refs \in Between(0, 1, {Path(<<N(s, "mtl")>>) : s \in {"a", "b c"}}), assets \in Between(0, 2, ObjAssets)}

SingleUploads ==
  {[name |-> N(s, e), mime |-> m, content |-> c, refs |-> <<>>, assets |-> assets] :
     s \in {"b c", "cog", "preview"},
     e \in {"tif", "PNG", "obj", "gltf", "glb", "las", "kml", "geojson", "exe"},
     m \in {Octets, "text/plain", "image/png", "application/json"},
     c \in Contents,
     assets \in {<<>>, <<[name |-> N("a", "png"), mime |-> "image/png", content |-> "png2"]>>}}

AllUploads == GltfUploads \cup ObjUploads \cup SingleUploads
=============================================================================
