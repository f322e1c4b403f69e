------------------------- MODULE MCSingleDetection -------------------------
(***************************************************************************)
(* A small instance: four requests that change the engine, the device and  *)
(* the SAM models from one to the next, four that are refused, one image,  *)
(* and what HALCON and the detector may find in it.                        *)
(***************************************************************************)
EXTENDS SingleDetection

Add(a, b)   == [key \in DOMAIN a \cup DOMAIN b |-> IF key \in DOMAIN b THEN b[key] ELSE a[key]]
Body(values) == [form |-> "json", values |-> values]
Base == [input_image_path |-> "image", model_name |-> "a"]

\* Default SAM models; none; another engine without SAM on the same device; a
\* region of interest, a mask, and SAM from the ONNX encoder, on device 1.
Used == {Body(Base),
         Body(Add(Base, [sam_encoder_name |-> "", sam_encoder_onnx_name |-> "",
                         conf_threshold |-> Unreadable])),
         Body(Add(Base, [trt_engine_file |-> "b", sam_decoder_name |-> "",
                         sam_decoder_onnx_name |-> "", slice_width |-> 3])),
         [form |-> "query", values |->
            Add([input_image_path |-> "image", yolo_model_name |-> "a"], [gpu_device |-> 1, sam_encoder_name |-> "missing",
                       enable_four_side_crop |-> TRUE, crop_x |-> 1, crop_width |-> 3,
                       crop_height |-> 2, is_qw |-> TRUE, radius |-> 1,
                       allowed_classes |-> <<1, Unreadable>>])]}

\* A region of no size, a threshold of 0, no engine, and a body that is no JSON.
Refused == {Body(Add(Base, [enable_four_side_crop |-> TRUE])),
            Body(Add(Base, [nms_threshold |-> 0])),
            Body([input_image_path |-> "image"]),
            [form |-> "malformed", values |-> Base]}

MCRequests      == Used \cup Refused
MCPresentFiles  == {"sam_enc", "sam_dec"}
MCImageSizes    == {[w |-> 4, h |-> 2], [w |-> 2, h |-> 2]}
MCCandidateSets == {<<>>, <<[x2 |-> 1, y2 |-> 2]>>,
                    <<[x2 |-> 7, y2 |-> 0], [x2 |-> 0, y2 |-> 3]>>}

\* In the slice to the left and in the slice itself; an allowed class, another
\* one, and a score below the threshold.
Box(x0, y0, x1, y1) == [x0 |-> x0, y0 |-> y0, x1 |-> x1, y1 |-> y1]
Raw(slice, class, score, box) ==
    [slice |-> slice, class |-> class, score |-> score, box |-> box]
MCRawDetections ==
    {<<>>,
     <<Raw(1, 0, 30, Box(0, 0, 2, 1)), Raw(4, 2, 20, Box(0, 1, 2, 2))>>,
     <<Raw(1, 1, 90, Box(0, 0, 1, 1)), Raw(5, 0, 10, Box(0, 0, 1, 1)),
       Raw(4, 0, 40, Box(0, 0, 1, 1))>>}
=============================================================================
