----------------------------- MODULE ProductImages -----------------------------
(***************************************************************************)
(* The images of one product, and the main one, which is also kept on the  *)
(* Product row by signals of ProductImage.                                 *)
(*                                                                         *)
(* The admin's page of a product saves its images one after the other in   *)
(* one transaction, each with its signal; a deleted image is taken off the *)
(* product.  The unique index on the main image lets one transaction at a  *)
(* time set it.  An edit of the product (PATCH) reads the row without a    *)
(* lock and later writes it back with the main image it has read.          *)
(***************************************************************************)
EXTENDS Integers, FiniteSets

CONSTANTS
  Images,  \* rows that may ever exist
  Editors, \* edits of the product that may be in flight at the same time
  NoImage

VARIABLES
  images,     \* ProductImage rows
  used,       \* primary keys given out
  flagged,    \* images with is_main
  mainImage,  \* Product.main_image
  editing,    \* the main image an edit has read
  reverted    \* history: an edit has put back an image that was not the main one

imageVars == <<images, used, flagged, mainImage, editing, reverted>>

Idle == [step |-> "idle"]

-----------------------------------------------------------------------------
\* Mutant: the signal only sets the main image.
SyncSetsOnly(shown, image, isMain) == IF isMain THEN image ELSE shown

\* sync_product_main_image, after the save of an image.
Sync(shown, image, isMain) ==
  IF isMain THEN image ELSE IF shown = image THEN NoImage ELSE shown

\* unique_main_product_image: an image becomes the main one only if none is.
MayFlag(image, isMain) == isMain => flagged \subseteq {image}

SaveImage(image, isMain) ==
  /\ image \in images \/ image \notin used
  /\ MayFlag(image, isMain)
  /\ images' = images \cup {image} /\ used' = used \cup {image}
  /\ flagged' = IF isMain THEN flagged \cup {image} ELSE flagged \ {image}
  /\ mainImage' = Sync(mainImage, image, isMain)
  /\ reverted' = (reverted /\ ~isMain)
  /\ UNCHANGED editing

\* clear_product_main_image_on_delete, and SET_NULL.
DeleteImage(image) ==
  /\ image \in images
  /\ images' = images \ {image} /\ flagged' = flagged \ {image}
  /\ mainImage' = IF mainImage = image THEN NoImage ELSE mainImage
  /\ UNCHANGED <<used, editing, reverted>>

ReadProduct(e) ==
  /\ editing[e] = Idle
  /\ editing' = [editing EXCEPT ![e] = [step |-> "editing", copy |-> mainImage]]
  /\ UNCHANGED <<images, used, flagged, mainImage, reverted>>

\* product.save(); the foreign key refuses an image that is gone.
SaveProduct(e) ==
  /\ editing[e] # Idle
  /\ LET copy == editing[e].copy IN
       /\ copy \in images \cup {NoImage}
       /\ mainImage' = copy
       /\ reverted' = (reverted \/ copy # mainImage)
  /\ editing' = [editing EXCEPT ![e] = Idle]
  /\ UNCHANGED <<images, used, flagged>>

Fail(e) ==
  /\ editing[e] # Idle
  /\ editing' = [editing EXCEPT ![e] = Idle]
  /\ UNCHANGED <<images, used, flagged, mainImage, reverted>>

-----------------------------------------------------------------------------
Init ==
  /\ images = {} /\ used = {} /\ flagged = {} /\ mainImage = NoImage
  /\ editing = [e \in Editors |-> Idle] /\ reverted = FALSE

Next ==
  \/ \E image \in Images :
       DeleteImage(image) \/ \E isMain \in BOOLEAN : SaveImage(image, isMain)
  \/ \E e \in Editors : ReadProduct(e) \/ SaveProduct(e) \/ Fail(e)

Spec == Init /\ [][Next]_imageVars

-----------------------------------------------------------------------------
\* The image the catalogue shows for a product is one of its images and the
\* one marked as the main one, if there is one, however images are marked,
\* unmarked and deleted, unless an edit of the product has put an older
\* image back since (catalog/signals.py:57, :104).
MainImageShown ==
  /\ mainImage \in images \cup {NoImage}
  /\ {mainImage} \ {NoImage} = flagged \/ reverted
=============================================================================
