------------------------------ MODULE MCImageIndex ------------------------------
(***************************************************************************)
(* Two runs on two hosts that build an index under the same tag and apply  *)
(* a further tag, from platform images by digest (one of them an index of  *)
(* two images) or by a tag that may move, to an image of another format    *)
(* too; or a single image without an index.                                *)
(***************************************************************************)
EXTENDS ImageIndex

arm == [arch |-> "arm64", format |-> "oci"]
amd == [arch |-> "amd64", format |-> "oci"]
zstd == [arch |-> "amd64 zstd", format |-> "oci"]
old == [arch |-> "arm64", format |-> "docker"]

SomeImages == {Image(arm), Image(old), Index({amd, zstd})}

ByTag == [by |-> "tag", id |-> "arm"]
ByDigest(m) == [by |-> "digest", id |-> m]

Multi == [host |-> "h1", image |-> "latest", images |-> <<ByTag, ByDigest(Index({amd, zstd}))>>,
          always |-> TRUE, additionalTags |-> <<"v1">>, format |-> "oci",
          newTags |-> <<"v2">>, label |-> <<>>]

SomeParams == {Multi,
               [Multi EXCEPT !.host = "h2", !.images = <<ByDigest(Image(arm))>>, !.additionalTags = <<>>,
                             !.label = <<"v1", "not a tag">>],
               [Multi EXCEPT !.host = "h2", !.images = <<ByDigest(Image(arm))>>, !.always = FALSE],
               [Multi EXCEPT !.host = "h2", !.images = <<ByTag>>, !.always = FALSE]}
================================================================================
