SPECIFICATION Spec
CONSTANTS
  LEDC_DUTY_MAX = 200
  Off = Off
  On = On
  Text = Text
  Payloads <- MCPayloads
  UndefinedLevels <- MCUndefinedLevels
  FadeSteps = 2
  Progress <- MCProgress
  MaxCommands = 3
 
PROPERTY BrightnessScales
CHECK_DEADLOCK FALSE
