----------------------------- MODULE MCCameraDevice -----------------------------
\* One camera with a framework object, an extension object and one preview.
EXTENDS CameraDevice
================================================================================
