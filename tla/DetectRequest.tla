--------------------------- MODULE DetectRequest ---------------------------
(***************************************************************************)
(* Core/http/request_params.cpp and Core/http/detect_request_mapper.cpp:   *)
(* from a request to the parameters of a detection, or to a refusal.       *)
(*                                                                         *)
(* A request is [form, values]: `form` says where the values are (the JSON *)
(* body, the query string) or why there are none; `values` is a function   *)
(* from the names given to a value or to Unreadable, a text that the       *)
(* conversion rejects.  Numbers fit their C++ type, thresholds are         *)
(* percentages, a file is a name and "" is no file.                        *)
(***************************************************************************)
EXTENDS Integers, Sequences

CONSTANT Unreadable

FaceIndexes == 0..3     \* kQuadImageCount faces

\* The members of DetectParams that decide something, with their defaults; the
\* other filter settings only go into the numerics of the filters.
DefaultParams ==
    [model_name |-> "", trt_engine_file |-> "",
     sam_encoder_name |-> "sam_enc", sam_decoder_name |-> "sam_dec",
     sam_encoder_onnx_name |-> "sam_enc_onnx", sam_decoder_onnx_name |-> "sam_dec_onnx",
     input_image_path |-> "",
     enable_four_side_crop |-> FALSE,
     crop_x |-> 0, crop_y |-> 0, crop_width |-> 0, crop_height |-> 0,
     is_qw |-> FALSE, circle_x1 |-> 0, circle_y1 |-> 0, circle_x2 |-> 0,
     circle_y2 |-> 0, radius |-> 0, qw_index |-> 0,
     filter_width |-> 10, angle_tolerance |-> 10, attenuation_factor |-> 0,
     slice_width |-> 2, slice_height |-> 2, slice_distance |-> 1,
     nms_threshold |-> 45, conf_threshold |-> 20, allowed_classes |-> <<0, 2>>,
     pix_to_mm |-> 2, min_area_mm2 |-> 0, min_diameter_mm |-> 0,
     gpu_device |-> 0]

Readable(items) == SelectSeq(items, LAMBDA i : i # Unreadable)

\* intListValue: JSON skips what is no integer, a query string with one bad item
\* is given up; an empty list is as good as none.
ListValue(form, items, fallback) ==
    LET read == Readable(items)
    IN  IF read = <<>> \/ (form = "query" /\ read # items) THEN fallback ELSE read

\* intValue, floatValue, doubleValue, boolValue and stringValue.
Value(request, key, fallback) ==
    LET given == request.values[key]
    IN  IF key \notin DOMAIN request.values THEN fallback
        ELSE IF key = "allowed_classes" THEN ListValue(request.form, given, fallback)
        ELSE IF given = Unreadable THEN fallback ELSE given

\* RequestParams::load
Loads(request) == request.form \in {"json", "query"}

\* resolveModelPaths: a name is a file of the model directory.
EngineFile(params) ==
    IF params.trt_engine_file = "" THEN params.model_name ELSE params.trt_engine_file

\* parseDetectParams without validate; the model has a second name.
ParsedParams(request) ==
    [[key \in DOMAIN DefaultParams |-> Value(request, key, DefaultParams[key])]
        EXCEPT !.model_name = Value(request, "model_name",
                                    Value(request, "yolo_model_name", DefaultParams.model_name))]

ThresholdsValid(params) ==
    params.nms_threshold \in 1..100 /\ params.conf_threshold \in 1..100

SlicesValid(params) ==
    params.slice_width > 0 /\ params.slice_height > 0 /\ params.slice_distance >= 0

CropValid(params) ==
    params.enable_four_side_crop =>
        /\ params.crop_x >= 0 /\ params.crop_y >= 0
        /\ params.crop_width > 0 /\ params.crop_height > 0

MaskValid(params) ==
    params.is_qw =>
        /\ params.circle_x1 >= 0 /\ params.circle_y1 >= 0
        /\ params.circle_x2 >= 0 /\ params.circle_y2 >= 0
        /\ params.radius > 0

ValidButCrop(params) ==     \* mutant: the ROI is not looked at
    /\ EngineFile(params) # ""
    /\ ThresholdsValid(params) /\ SlicesValid(params) /\ MaskValid(params)
    /\ params.qw_index \in FaceIndexes
    /\ params.gpu_device >= 0
    /\ params.pix_to_mm >= 0 /\ params.min_area_mm2 >= 0 /\ params.min_diameter_mm >= 0
    /\ params.filter_width >= 0 /\ params.angle_tolerance \in 0..180
    /\ params.attenuation_factor \in 0..100

\* validate
Valid(params) ==
    /\ EngineFile(params) # ""
    /\ ThresholdsValid(params) /\ SlicesValid(params)
    /\ params.qw_index \in FaceIndexes
    /\ params.gpu_device >= 0
    /\ params.pix_to_mm >= 0 /\ params.min_area_mm2 >= 0 /\ params.min_diameter_mm >= 0
    /\ params.filter_width >= 0 /\ params.angle_tolerance \in 0..180
    /\ params.attenuation_factor \in 0..100
    /\ CropValid(params) /\ MaskValid(params)

\* parseDetectParams returns true.
Accepted(request) == Loads(request) /\ Valid(ParsedParams(request))
=============================================================================
